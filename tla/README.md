# Verification of the big data platform

TLA+ models, TLC runs and TLAPS proofs for the market-data platform of this
repository. Binance candles are polled by a producer, published to Kafka or
Kinesis, copied to Raw and decoded to Bronze by two Spark streaming applications,
rebuilt into Silver, Gold and serving tables by a batch chain, and read through
an API and a dashboard. The platform exists twice: on premises (Kafka, YARN,
Hive, PostgreSQL, Airflow) and on AWS (Kinesis, Glue, S3, Step Functions,
DynamoDB, Athena, Lambda).

The repository's own tests are unit tests of pure functions. The models look at
what those tests cannot reach: stops between two steps, lost replies, executions
that overlap, leases that expire under their owner, republished candles, tables that
are rewritten under their readers, and what is still promised when all of that is
mixed.

## Inventory

| Part | Code | State | Operations | Talks to |
|---|---|---|---|---|
| Market feed | `apps/binance-producer/common.py`, `model.py` | none (Binance's) | `fetch_latest`, `normalize_kline` | Binance REST |
| Kafka producer | `apps/binance-producer/main.py` | `last_event_ids` (memory), the client's queue | poll, `produce`, `delivery_report`, `flush` | topic |
| Kinesis producer | `apps/binance-producer/aws.py` | `last_event_ids` (memory) | poll, `batched`, `publish_records` | stream |
| Raw consumer | `jobs/raw-consumer` | checkpoint, Raw files | micro-batch | topic -> Raw |
| Bronze ingestion | `jobs/bronze-ingestion`, `jobs/utils/bronze.py` | two checkpoints, watermark, dedup state, Bronze, error sink | micro-batches of two queries | Raw -> Bronze, errors |
| Silver | `jobs/silver-transformation`, `jobs/utils/{silver,quality,dedup}.py` | Silver table | full rebuild | Bronze -> Silver |
| Gold | `jobs/gold-indicators`, `jobs/utils/indicators.py`, `serving.py` | Gold and four `trading_gold` data sets | full rebuild, one overwrite after another | Silver -> Gold |
| Serving datamart | `jobs/serving-datamart` | PostgreSQL tables | full rebuild | Gold -> PostgreSQL |
| Batch orchestration | `infra/aws/orchestration/main.tf` | DynamoDB lease, executions | acquire, Silver, Gold, projection, release | Glue, Lambda, DynamoDB |
| Latest projection | `apps/aws-serving-api/projection_handler.py` | DynamoDB items | query, put every row | Athena, DynamoDB |
| Serving API | `apps/aws-serving-api/api_handler.py`, `serving_common.py` | none (Athena queries, page tokens) | latest, history, signals, daily summary | Athena, DynamoDB |
| Submission, DAGs | `infra/scripts/submit-*.sh`, `orchestration/dags` | YARN applications | check, submit, kill | YARN |
| Dashboard | `apps/streamlit-dashboard/app.py` | browser session | sign-in, requests | Cognito, API |
| Deployment | `.github/workflows` | Terraform stacks | validate, publish, apply, destroy | AWS |

What is hard in each, and what makes it correct:

- **Producers.** They mark a candle as published in memory. Marking too early
  loses it, marking too late repeats it. A poll sees only the latest row, so what
  is not published in time is skipped. The host clock decides whether a row is
  called closed. *Correct*: a marked candle was really accepted (or its loss was
  reported), repetitions come only from failures, the order of a series is kept.
- **Raw and Bronze.** Micro-batches are done again after a stop, each sink with
  its own idea of idempotence; Bronze drops late and repeated events with a state
  and a watermark that must survive the stop. *Correct*: nothing twice, nothing
  missing except what is late or expired, rejected messages reach the error sink.
- **Batch orchestration.** A lease without renewal protects a chain of jobs with
  timeouts of their own; replies get lost; releases fail; expired items are
  deleted at DynamoDB's leisure. *Correct*: one chain at a time, steps in order,
  nobody deletes another's live lease, nothing blocks the schedule for ever.
- **Gold, Silver, serving tables.** Overwrites in sequence, each emptying its
  target first, computed from files listed once; runs that fail in between or
  outlive the execution that started them; a closed form for moving averages whose
  weights outgrow a double. *Correct*: what a job writes is one generation, a
  finished chain leaves all tables equal and none behind, an average is right or
  visibly not a number.
- **API and projection.** Deadlines racing answers, pages of a query whose table
  is rewritten, puts that fail in the middle or overtake each other, items with a
  lifetime. *Correct*: pages add up to the query, items go forward, everything
  ends.
- **Submission.** Check-then-act between several submitters, a listing that fails,
  clients that die. *Correct*: one live copy of a streaming application, batch
  steps one after another, no script that hangs.
- **Deployment.** Concurrency groups of workflows over one set of stacks.

`PROJECT.json` lists every hazard at its line with the properties that cover it.

## Modules

| Module | Models | Extends / composes |
|---|---|---|
| `SingleFlight` | the promise of the batch chain: Silver, Gold, projection in order, one execution at a time | - |
| `BatchPipeline` | the Step Functions machine, the DynamoDB lease, the Glue and Lambda runs, time | instantiates `SingleFlight` |
| `MCBatchPipeline` | durations for TLC | `BatchPipeline` |
| `BatchPipelineProofs` | theorems about `BatchPipeline` and `LeasedTables` | `LeasedTables`, `TLAPS` |
| `MarketFeed` | Binance's candles and `fetch_latest` under any host clock | - |
| `MarketFeedProofs` | facts about logs of candles, for both producers | `MarketFeed`, `TLAPS` |
| `KinesisProducer` | `aws.py` | `MarketFeed` |
| `KinesisProducerProofs` | theorems about `KinesisProducer` | `KinesisProducer`, `MarketFeedProofs` |
| `KafkaProducer` | `main.py` and the Kafka client's queue | `MarketFeed` |
| `KafkaProducerProofs` | theorems about `KafkaProducer` | `KafkaProducer`, `MarketFeedProofs` |
| `StreamingLake` | topic, Raw, Bronze, error sink; both streaming applications | - |
| `StreamingLakeProofs` | theorems about `StreamingLake` | `StreamingLake`, `TLAPS` |
| `Indicators` | `indicators.py`: EMA in closed form with overflow, RSI | - |
| `BatchTables` | Silver, Gold and the serving tables, and the Spark jobs that overwrite them, on AWS and on premises | `Indicators`, instantiates `SingleFlight` |
| `MCBatchTables` | smoothing factors and symmetry for TLC | `BatchTables` |
| `BatchTablesProofs` | theorems about `BatchTables` and `Indicators` | `BatchTables`, `TLAPS` |
| `LeasedTables` | the tables under the machine and its lease, on AWS | `BatchPipeline`, instantiates `BatchTables` |
| `MCLeasedTables` | durations for TLC | `LeasedTables` |
| `AthenaQuery` | the life of an Athena query: wait, deadline, pages; the tables Gold rewrites | - |
| `LatestProjection` | `projection_handler.py` | `AthenaQuery` |
| `ServingApi` | `api_handler.py` and its clients | `AthenaQuery` |
| `ServingLayer` | projections and clients against the same tables | `LatestProjection`, `ServingApi` |
| `ServingLayerProofs` | theorems about `ServingLayer` | `ServingLayer`, `TLAPS` |
| `YarnSubmit` | submit and stop scripts, DAGs, make targets, YARN | - |
| `YarnSubmitProofs` | theorems about `YarnSubmit` | `YarnSubmit`, `TLAPS` |

### BatchPipeline

`state[e]` is the name of the Step Functions state execution `e` is in, `lock` the
DynamoDB item, `runs` the Glue runs and Lambda invocations in progress. There is
one action per way a state can end: `AcquireLock`, `AcquireRefused` (the condition
failed), `AcquireFails`, `AcquireReplyLost` (the item was written, the reply was
not received), `StartJob`, `StartFails` (including Glue's refusal of a second
concurrent run), `JobSucceeds`, `JobFails`, `LoseTrack` (the wait fails, the run
goes on), `ReleaseLock`, `ReleaseFails`. `entered[e]` is the time at which
`$millis()` was read for the state, so the expiry and the condition of
`AcquireLock` use the time of entry, and not the time of the write. `ExpireItem`
is the TTL deletion, which happens at any time after the expiry or never. `Tick`
lets time pass, within the longest stay `Budget` in each timed state.

The two release states differ only in where they go (`AfterRelease`).

### MarketFeed, KinesisProducer, KafkaProducer

Candles of a series are numbers; `openCandle[k]` is open at Binance, the smaller
ones are final. `HostClock` says how the host clock may stand to Binance's at a
poll: late (the last close is not seen), right, early (the open candle counts as
closed). `FetchLatest` is `(closed_rows or rows)[-1]`; `event_id` is the pair of
series and candle, the same for every version of it.

`KinesisProducer` follows `main` and `publish_records` through one poll: `Fetch`
per series, batches, attempts, and marking at the end of the last batch. The
records of a poll belong to different partition keys, so a batch is a set.
`PutRaises` leaves any part of the request stored. `ClientResends` is the retry that
`publish_records` does not see: boto3's client, built with its default retries, sends
a request again when its answer is lost, whatever part of it was stored. `Restart`
may come anywhere.

`KafkaProducer` marks when it queues (`Publish`); `Deliver` and `DeliveryFails` are
the later reports. The client is idempotent, hence in order and without
duplicates per partition.

### StreamingLake

Three queries (`raw`, `bronze`, `errors`) in two applications. Each goes through
`Plan` (the range of the batch is logged), a write, and `Commit`. `Stop` may come
between any two of them and leaves a written batch `recovered` when the sink is
Parquet (its file log has the batch number, the batch is not run again, and its open
times do not move the watermark), and `planned` when it is Kafka (it is sent again;
part of a batch may be sent before the stop). `RetryTask` is a task of the Kafka sink
that fails after sending some of its rows and is run again, with no stop of the
application (`spark.task.maxFailures` has its default); a Parquet sink lists only the
files of tasks that committed. `platform` decides which sink it is. Rows of Raw,
Bronze and the error sink are named by the offset they come from. `Message` has the
kinds that matter: an open or closed candle, a value that does not decode, no value.
`from_avro` in PERMISSIVE mode answers a corrupt value with a struct whose fields are
null; `Rejected` and `IsDeduplicated` follow from that. The event time of the model is
a number; series are interleaved in one topic, so it need not increase. `BuildSilver`
is what a Silver rebuild computes from Bronze.

### Indicators, BatchTables

A data set is the set of candles its rows are computed from, so generations are
told apart by what Bronze held. The chain is `SingleFlight`, the abstract
specification `BatchPipeline` implements, with the one thing its proof does not
exclude: `LoseTrack`, a run that goes on when its execution has given up on it, by an
error of `.sync` on AWS and by a `spark-submit` that dies on premises (`ClientDies` of
`YarnSubmit`). `run[e]` is the Spark application: `Load` lists the files of the input,
`Overwrite` empties a target (and takes the files away from a run that listed
them), `WriteSome` shows a part of the rows, `CommitWrite` the rest, and `Fail`
may come anywhere; on premises YARN may attempt an application a second time
(`Reattempt`). `platform` selects the two programs: on AWS Gold writes five
data sets and the third link is the Lambda; on premises Gold writes one table and
serving-datamart the four others.

Nobody looks for a run that was left behind when the next chain begins beside it.
`raced` remembers the executions to which this has happened. On AWS Glue still refuses
a second run of a job (`Admitted`), so the writers of one data set stay apart; on
premises nothing does, and two applications may write one table: `Undisturbed` tells
the cases apart, and `CommittedRows` lets the commits of disturbed runs leave any part
of their rows.

`Indicators` computes with exact fractions: a double is its numerator in a unit
fixed for the series, or `<<>>` when it is Infinity or NaN. `WeightedSum` is the
running sum of `x / beta^n`; it overflows above `MaxDouble`, and `Vanishes` says
when `beta^n` itself is 0, whose quotients are null (Spark 3.5 and Glue 4.0, ANSI
mode off) and skipped by the sum. `Recurrence` is the textbook definition it is
compared with. `ComputedSeries` are the series the properties speak of: every
sequence of closes for the data set that Gold is about to overwrite something from.

### LeasedTables

The composition of the two: the machine of `BatchPipeline` moves the executions, and
the variables of `BatchTables` follow it. A Spark application starts with a Glue run
(`GlueStarts`), ends with it (`GlueSucceeds`, `GlueFails`, or `LostGlueEnds` when
nobody waits any more), and in between does what `BatchTables` says (`Computes`).
`stage` is no variable here but `StageOf` the states. The guards of `BatchTables` about
who may begin and which run is admitted are left out: that the lease and Glue provide
them is the property, `TablesFollowTheLease`.

### AthenaQuery, LatestProjection, ServingApi, ServingLayer

`phase[i]` is what an invocation does: `waiting` for Athena, `putting` items, or how
it ended. All answers but 200 are one phase, `failed`: which code an error carries
is a constant of its class, and no state depends on it. The result of a query is
fixed by what the table holds when it succeeds; `Page` is `GetQueryResults`, whose
first page starts with a header and whose cap is `AthenaMax`. The API's
`session[c]` is what its client has received so far. `GoldOverwrites` and
`GoldCommits` stand for `BatchTables` as a reader sees it.

### YarnSubmit

`slot[s]` is a DAG run or a terminal: the task it is at, and the `phase` of the
script (`check`, `submit`, `submitted`, `wait`, `kill`). `app[i]` is an application
with its YARN state and the client that watches it. `CheckPasses` and `Submit` are
two steps, and `Submit` leaves an application in a state the listing does not show;
`ListingFails` is the pipe that fails within an `if`, `ClientDies` a container that
stops. `YarnOnPath` is what `command -v yarn` finds. The ghost variables `raced`
and `faulty` remember the names two slots submitted at a time and those a fault
touched.

Spark, Kafka, Kinesis, DynamoDB, Glue, Athena, YARN and Step Functions are not in the
repository. They are modelled as far as the code relies on them, and such
definitions are marked external in the map.

## Runs

| Run | Question | States |
|---|---|---|
| `leased_tables` | Does a lease that covers the chain give exclusion of executions, and of their Glue runs as far as none is lost, and the abstract chain, and do the Glue jobs under it rewrite the tables as `BatchTables` has it, lost replies included? | 221,053 |
| `batch_default_lease` | What still holds with the default durations, lost replies and failed releases? | 7,363 |
| `batch_default_single_flight` | Does the default lease give single flight? *Violated.* | |
| `kinesis_producer` | Is a marked candle accepted, whatever fails, and is the latest one published? | 54,595 |
| `kafka_producer` | What do early marking and failed deliveries cost, under any host clock? | 62,288 |
| `streaming_lake` | What do stops, task retries, late and repeated messages do to Raw, Bronze and either error sink? | 566,089 |
| `streaming_corrupt_payload` | Does a value that does not decode reach the error topic? *Violated.* | |
| `streaming_open_then_closed` | Does Silver get the closed version of a candle? *Violated.* | |
| `gold_tables` | What do the tables hold, on either platform, while and after runs fail, overlap, are attempted again and outlive their execution, and are the indicators right? | 978,573 |
| `serving_layer` | Do pages, items and deadlines hold while Gold rewrites the tables and projections overlap? | 145,590 |
| `yarn_submission` | When do two copies of an application run, and does every script end? | 179,853 |
| `yarn_not_on_path` | Does the check work where there is no `yarn` command? *Violated.* | |

Deadlock checking is off in all of them: a behaviour may end at a bound, when the
executions are over, the market and the topic have reached theirs, or every
application number is in use.

### Bounds, and why they are enough

- *Batch, default durations.* Two executions: one that holds the lease and one that
  takes it over. One unit of time is half an hour: the lease lasts two units, Silver
  and Gold up to two each, and `MaxClock` 6 is three leases.
- *Leased tables.* Two executions, one unit for each timed state and a lease of exactly
  their sum, the tightest that covers the work. `MaxClock` 10 lets a chain run to its end
  and another follow it, lost replies and lost runs let the second one begin beside a run
  of the first. A third execution changes nothing for TLC (with `LockTtl` 2, `MaxClock`
  6 and no time for the acquisition and the projection it has 657,315 states) and the
  theorems are for all durations and any number. One candle: what the
  tables hold is the question of `gold_tables`, here it is which steps the machine allows.
- *Kinesis.* Three series in batches of two give a second batch and a partial
  rejection in the first; two attempts make a retry and its exhaustion, one
  failure, restart or request sent again (`MaxFaults`) happens anywhere in a poll. The
  real client sends a request again four times at most; each is one fault.
- *Kafka.* Three candles of one series, each in every version a host clock can
  make of it; two failures, so that a restart follows a failed delivery. Series
  share nothing but the order of the poll.
- *Lake.* Two messages of four kinds and two stops: a repeated event, a late one
  (open times 1 and 3, delay 1), an empty and a corrupt one, each in the same or
  in another batch as the other, with either application stopping twice and one task
  of the error query run again (`MaxRetries`), before or after a stop; both error
  sinks.
- *Tables.* Two executions: one whose run is left behind and one beside it. Three
  candles give an empty, a partial and a complete Silver, arrivals between any two
  steps, and series long enough for each of exact, overflowed and vanished
  averages: `MaxDouble` 5 is passed by a close of 3 in row 1 and by the sum of row
  2, `MaxPower` 6 by `ema_12` in row 2. The code's horizon is a matter of scale,
  some 4,200 rows for `ema_12`. On premises, where two more things can happen at every
  step, a `CONSTRAINT` (`OnPremisesBound`) keeps Bronze to two candles, and to one once
  executions have raced, since nothing is then claimed of the content of the tables. The
  theorems have no such bound.
- *Serving.* Two projections and one client (clients share nothing but the tables
  they read), two keys, two rebuilds. With `AthenaMax` 2 a page has one row, so
  that both the cap of the projection and a second page of the API happen.
- *YARN.* Two slots and four requests: a DAG of two streaming tasks, the same
  application by hand, its stop, and the batch DAG; two application numbers are
  enough for two copies, one fault for a failed listing or a dead client. The
  theorems are for any of these sets.

### Fairness, and why the code justifies it

- *Batch.* Weak fairness of an execution's step: Step Functions drives every
  state on, and Glue and Lambda end what they run (timeouts are set). Weak
  fairness of time. None for the schedule, which may be disabled, and none for
  the TTL deletion.
- *Producers.* Weak fairness of `while True`, and strong fairness of a successful
  `Fetch` (or `Publish`) per series: Binance and the client may refuse again and
  again, but not at every poll for ever. Failed publications are bounded by
  `MaxFaults`. The market need not move.
- *Lake.* Weak fairness of each query's next step while its application runs.
  Nothing in the repository restarts an application, so `Start` has none, and the
  liveness property assumes that the applications stay up from some point on.
- *Serving.* Weak fairness of what a Lambda does next, its deadline included. None
  of Athena: that a query ends is not assumed, nor that a poll sees its failure.
- *YARN.* Weak fairness of a script's next step and of the acceptance (or failure)
  of what is submitted. None for the start of an accepted application, which waits
  for room in the cluster, and none for its end.

## What the models show

- With a lease that covers the work, single flight holds whatever replies get
  lost. The defaults do not satisfy that: a lease of 3600 s stands against two
  Glue jobs of up to 60 minutes each, with no renewal, and
  `batch_default_single_flight` shows the second execution entering. To keep the
  promise of `main.tf:57`, `lock_ttl_seconds` must be at least the sum of the
  timeouts (`TtlCoversWork`).
- Even then an execution that loses track of its run (`LoseTrack`) releases the
  lease under it, and the next one enters beside it: their two Glue runs overlap when
  they are of different jobs, and no others do (`GlueRunsExclude`). All runs, the
  Lambda's too, exclude each other only when no reply is lost at all.
- No execution can take away another's live lease, whatever the durations: the
  condition on `owner_execution_arn` does its work.
- The Kinesis producer never marks a candle that Kinesis did not accept; the
  price is one more copy per failed poll, restart or request that boto3's client sends
  again by itself. The Kafka producer marks first: a failed delivery loses the candle
  until the next restart.
- Raw and Bronze survive stops without repeating or losing a row. So does the error
  sink of AWS; that of premises gets a row again with a stop or a task that is run
  again.
- A value that does not decode is not rejected: it becomes an all-null row of
  Bronze. Only a message without a value reaches the error topic.
- `event_id` does not tell the open from the closed version of a candle, and
  Bronze keeps what comes first. When an open version was published, Silver never
  gets the candle, although it is said to keep the latest version.
- What a batch job has written always equals what it listed at its start, also
  when its input is rewritten: it fails instead of mixing generations. A finished
  chain repairs what failed ones left behind. But a Gold run left behind, beside the
  Silver of the next execution, can load half a table, and shrink every serving
  table until the next chain (`RebuildLosesNothing` leaves out who has raced).
- On premises there is nothing like Glue's admission. When a `spark-submit` dies, its
  application goes on, the DAG run fails, and the next one (`max_active_runs` 1 does
  not count applications) may rewrite the same table at the same time: such a chain can
  come to its end with a mixture published. A later chain that meets no
  application left behind publishes what it found.
- The closed form of the EMA is exact until it overflows, and from then on the
  series has no average. With one-second candles `ema_12` ends after 70 minutes of
  data. An average of gains or losses of a series that is flat between the overflow
  of 1 / beta^n and its rounding to 0 does not overflow, and is 0 ever after.
- A client that follows the page tokens gets the rows of one query, whatever Gold
  does meanwhile. As deployed a second page never comes: the history limit is at
  most 500 by default, the `LIMIT` of the SQL is the limit of the page, and a page
  has room for the header. It takes a limit of 1000 (`HISTORY_MAX_LIMIT`).
- The projection brings one page up to date, at most 999 keys. An item can go back
  to an older row when the chain's invocation and the schedule's overlap, since
  the puts are unconditional.
- The check of the submit scripts excludes a second copy unless two submitters are
  within the gap between check and acceptance, the listing fails or a client dies.
  It needs a `yarn` command; the images the scripts run in have none, so the check
  is skipped there and `yarn_not_on_path` shows the second copy
  (`orchestration/README.md:22`).
- Batch applications of one DAG never overlap as long as their clients live. Two
  slots may run the same batch job at the same time: nothing looks for it.

## Proofs

### BatchPipelineProofs

For any set of executions and any natural durations:

- `TypeCorrect`: type correctness.
- `LeaseInvHolds`: if `TtlCoversWork`, then `LeaseInv` always holds. Exclusion is
  not inductive by itself: that nobody else is working does not say that nobody
  *can* start. `LeaseInv` adds that no execution overstays the budget of its
  state, and that the lease of a working execution reaches past the work it still
  has to do (`WorkLeft`). The lemma `LeaseIsLive` draws from it that the condition
  of `AcquireLock` fails for everybody while an execution works.
- `SingleFlightHolds`, `LeaseCoversWorkHolds`: from `LeaseInv`.
- `Refinement`: under the same condition every step maps to a step of
  `SingleFlight` or leaves the stages alone.
- `ApplicationsAreGlueRuns`: for all durations, `Applications` is inductive with the
  types: every Spark application belongs to one Glue run and every Glue run has its
  application, and an execution has one run at most, which it waits for or has given up.
- `TablesUnderTheLease`: `TablesFollowTheLease` for every lease that covers the work. The
  guards that `LeasedTables` leaves to the machine follow: nobody is in the chain when
  an execution enters it from `LeaseIsLive`, the admission of a run and the stage it is
  of from `Applications`. What `BatchTablesProofs` proves of the tables thus holds of
  the machine, without taking the chain for granted.
- `GlueRunsExcludeHolds`: `GlueRunsExclude` under the same condition, whatever replies
  get lost. `GlueMet` is inductive with the lease, the types and `Applications`: an
  execution that is in the chain, or has an application, while another one has one has
  raced with it. Who enters the chain beside an application is in `raced` with its
  owner from that step on; and who starts a run is alone in the chain by the lease, so
  that any other application was there before it entered. An `AcquireLock` whose reply
  is lost, a failed release or a lost Lambda invocation do not break it. `JobsApart` is
  Glue's admission: one run of a job.
- `RunsNeverOverlapHolds`: if moreover no reply is lost, a run in progress is the
  one its execution waits for (`RunsAreAwaited`), so runs exclude each other.
- `LeaseLostHolds`: for all durations, a live lease is taken away only by its
  owner's release. It rests on `EnteredInThePast`, that the time an execution
  compares with is never ahead of the clock.

`LeaseCoversWork` and `RunsNeverOverlap` are proved and not checked by a run:
`LeaseInv` implies the first, and the second needs an instance without lost replies; it
says of the Lambda invocations too what `GlueRunsExclude` says of the Glue runs when
nobody has raced.

The assumptions are `ConstantsAssumption` (the constants have their types),
`TtlCoversWork` and `~UnreliableReplies` where a theorem states them, and
`LeasedAssumption` (`NoRun` is not a run).

### YarnSubmitProofs

For any slots, any requests, any application numbers and any number of faults:

- `YarnTypeCorrect`: type correctness, through the lemmas `TaskTyped`,
  `NextTaskTyped` and `BecomeTyped` about what a slot may become.
- `BatchAwaitedHolds`: `BatchAppsAreAwaited` is inductive together with
  `HoldsItsApp`, that the application a slot waits for is its own: has its name and
  has the slot as client.
- `OneCopyHolds`: if `YarnOnPath`, then `OneCopyUnlessRaced`. That there is one live
  copy does not say that nobody is about to submit another. `SubmitInv` adds, for
  the streaming names nothing has raced or failed for: one slot at most is past the
  check (`OneSubmitter`); while one is about to submit, nothing of that name is live
  (`SubmitsAlone`); and an application the listing does not show yet is held by the
  slot that submitted it (`SubmittedIsHeld`), so that a slot which finds an empty
  listing either is alone or races.

They rest on `YarnAssumption` (the constants have their types) and
`IdleAssumption` (`Idle` is not a slot nor something a slot may be doing).

### KafkaProducerProofs, KinesisProducerProofs

For any series, any number of candles (at least one), any clock and any number of
faults. Both rest on `MarketFeedProofs`: what `Append` and `Tail` do to a log, and
that the number of records matching a set grows and shrinks by one with them. The
assumptions are `FeedAssumption` and those of the two modules.

- `KafkaTypes`, `KinesisTypes`: type correctness. For Kinesis it needs `PollShape`:
  the records of a poll are of different series, the batch in progress and the rest
  are disjoint parts of them, and none is marked.
- `KafkaMarks`: `MarkedIsSettledOrUnderway` is inductive with the types: a record
  leaves the queue into the topic or into `lost`.
- `KafkaCopies`: at most `1 + restarts` copies does not say that a candle still to be
  sent has room for one more. `CopiesAccounted` does: `restarts` copies, and one more
  only if the candle is marked.
- `KafkaOrder`: the order of the topic needs the order of what is going to enter it.
  `MarketOrder` is that of topic, queue and next candle to close: both logs are in
  order, the topic comes before the queue, and nothing final is as young as the
  candle still open.
- `KinesisMarks`, `KinesisKeepsAll`: both are parts of `AllThere`, which says of a
  record of the poll that is neither in the batch nor in the rest that the stream
  has it, so that marking the whole poll at its end is right.
- `KinesisCopies`: `CopiesAccounted` with one copy per fault (a request the client
  sends again is one), and one more for a candle that is marked or that this poll has
  sent and will not send again.

### StreamingLakeProofs

For any events, payloads and delay, either error sink, and any number of messages, stops
and tasks run again.

- `RawOnce`: the position of a query says what is in the files only together with
  its status. `Through(q)` is the position its sink has taken: the end of the batch
  once that is written, also if a stop came before the commit. `Lake` says that the
  files of Raw are disjoint, hold nothing past `Through("raw")`, and all before it
  that the topic still has.
- `BronzeNoDuplicates`, `BronzeMissesOnlyLate`: from `BronzeRight`, by which every
  row up to `Through("bronze")`, not only up to the last commit, is rejected, late or
  there under its event. The watermark is a maximum; that it exists and never
  decreases is `HasMax`, by the well-foundedness of strict subsets.
- `ErrorsAreSent`: from `ErrorsRight`, which counts copies by `Through("errors")`; a
  Kafka sink gets a row again only when a stop has made its batch `planned` again, or
  when a task of it is run again.
- `LakeTypes`: also the bound on the files of Raw, which are not empty and disjoint
  (`FewFiles`, by an injection into the offsets).

They rest on `LakeAssumption`.

### BatchTablesProofs

For any executions and candles, on both platforms, and with any number of runs
nobody waits for.

- `TablesTypes`, and `Order`, which the other theorems rest on. `Met`: who is about
  while another execution has a run has raced with it. From it `RunsApart`: no other
  run of the job of an undisturbed one. On AWS that is Glue's admission; on premises
  an execution that has met nobody is the only one with an application at all
  (`AloneOnPremises`). Hence while an undisturbed execution is past Silver no run of
  Silver is left (`SilverIsDone`).
- `RunsWriteOneGeneration`: different jobs write different data sets (`TargetsAre`),
  so what an undisturbed run has written is touched by nobody. `Generation` also says
  of the data set it is writing that it holds no more than the run has read, for a
  commit adds to what is there.
- `ChainPublishes`: `ChainRight` carries what an undisturbed chain has found through
  its links: past Silver it is in Silver; a run an execution waits for has read what
  the link before it left there.
- `RebuildKeepsCandles`: Bronze only grows, but Silver is empty while it is rewritten.
  `NothingLost` says of an execution that has not raced that the run of Silver has read
  all of Gold, and that Silver has all of Gold from then until the run of Gold is over,
  for a second attempt loads it again.
- `TablesFollowTheChain`: the jobs implement `SingleFlight`, with the stages as they
  are: a run that ends moves the execution that awaits it and no other, and a run
  nobody awaits moves none.

The same module proves what Gold computes, for every series, every smoothing factor
with `0 < alpha < 1` and every size of a double:

- `EmasAreExact`: `EmaIsExactUntilOverflow`. `ClosedFormIsExact` is the algebra, by
  induction over the rows: as long as the sum is finite and no weight was skipped, row
  `n` of the closed form is row `n` of the recurrence in another unit, since a row adds
  `x[n] / beta^n` to the sum and multiplies what was there by beta once more
  (`SameStep`). `VanishesForGood` and `SumStaysInfinite` say that neither a `beta^n` of
  0 nor an overflow is ever recovered from.
- `RsiIsRight`: `RsiIsShareOfGains`. `AveragePositive` says that an average is 0 exactly
  when nothing it has averaged is positive, so the two cases of an average loss of 0
  are those of a series that never fell, and no other case divides by 0.
- `ComputedSeriesAre` connects them with the jobs: what a run of Gold has listed is a
  finite set of candles (`Finite` is inductive with the types), so its rows are numbered
  from 0 without a gap and their closes are prices (`IndexedIs`).

What a recursive function computes is shown without the library's induction theorems,
which take an operator as a parameter. `SetInduction` is induction for a *set* of
numbers, from the well-foundedness of `<` on the naturals (`HasLeast`), and each use
puts the rows that satisfy a statement into such a set. `Recursion` proves that the
functions exist at all: a chain of partial functions that agree (`StepsIn`,
`FollowsFromZero`), and their union.

They rest on `TablesAssumption` and `MaxDoubleAssumption`, with the chain as
`SingleFlight` promises it (`TablesUnderTheLease` proves that promise of the machine).

### ServingLayerProofs

For any clients, projections and (finitely many) keys, any limits and any number of
rebuilds. The invariant `Inv` has five parts: `Shape` (types; no item is newer than
the last rebuild), `Clients`, `Projections`, `Races` and `Fresh`.

- `PagesHold`: that what a client has is the beginning of its query does not say that
  the next page continues it. `ClientRight` ties the token to the rows received: one
  less than the token with a token, all without. `StrippedPage` computes a page: the
  header is dropped from the first one, and no row of a later one is taken for it.
- `ItemsHold`: `Fresh` says that no item is newer than the row a projection has for
  it, unless another one has overlapped; `Races` that of two under way each has been.
  A query sees the last rebuild, so it starts with rows that are as new as any item.
- `RefreshHolds`: `Fresh` also says that the rows already put are the items. This
  holds because what is still to be put is the end of the page (`Remaining`), because
  the keys of a result differ (`OrderingIs`), and because DynamoDB does not expire
  what a projection under way has put.
- `ServingTypes`: from the same invariant.

They rest on `AthenaAssumption`, `ProjectionAssumption`, `ApiAssumption` and
`LayerAssumption` (an invocation is of one of the two Lambdas).

### What the proofs found in the models

- With `MaxCandle = 0` a series could start at candle 1, past the bound, and the types
  fail at once: `FeedAssumption` asks for at least one.
- `AfterStop` and `WeightedSum` had `CASE` arms that overlapped; TLC took the first,
  but their value was not determined. Both are now `IF`s.
- `NoRun` has to differ from every run, and the keys have to be finitely many
  (`Cardinality` of the table says nothing otherwise): both are now assumed.
- With a smoothing factor of 0 the average of a series that only rises is the first
  move for ever, which may be 0, and the RSI is 50 instead of 100: `TablesAssumption`
  asks for a positive one (the code has 2/13, 2/27 and 1/14), and for natural prices.
- A refused execution goes from idle to over, which no step of `BatchTables` did:
  `StartFails` now covers it.
- The prover knows nothing of `^`. `Indicators` has a function of its own, `Power`.
- A run of Gold in the middle of an overwrite has the same series as before it, so
  `ComputedSeries` leaves it out.

### Only model-checked

- Liveness: `LatestClosedIsPublished`, `LatestIsDelivered`, `EveryMessageIsSettled`,
  `EveryExecutionEnds`, `LeftoverLeaseClears`, `ScriptsGetThrough` and
  `EveryInvocationEnds` need fairness and `ENABLED`, which the prover lacks.

## What is left

- The tables a reader of the serving layer sees: that `BatchTables` on AWS does to
  `market_indicators_latest` no more than `GoldOverwrites` and `GoldCommits`. The two
  differ in grain: `BatchTables` overwrites one data set after another, `AthenaQuery`
  both that it knows in one step, since no query reads two. The mapping would be for
  each data set by itself, with a count of its rebuilds.
- Liveness of the composition: that a chain ends is a property of `BatchPipeline`, and
  nothing says of the Spark applications that they get on.

## Not modelled

- The columns of the Parquet and Avro records and of the answers of the API, and
  the SQL of the serving tables: no state depends on them.
- The Bollinger bands and the macd: an aggregate of Spark's and a difference.
- The dashboard: a session runs one script at a time; whether the browser returns
  from the sign-in in the same session is Streamlit's decision.
- Deployment: two workflows in different concurrency groups can run at once, and
  what they then do is decided by Terraform's state lock and by AWS.
- Runtime validation and packaging: sequential scripts without state.
- Terraform declarations without behaviour, container images, the configuration of
  Compose, Hadoop and Hive, logging.
- The legacy-checkpoint guard of `raw_config.py`, which refuses to start.
