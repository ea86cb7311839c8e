--------------------------- MODULE KinesisProducer ---------------------------
(***************************************************************************)
(* The AWS producer, apps/binance-producer/aws.py: every poll fetches the  *)
(* latest candle of each series, puts the new ones to Kinesis in batches,  *)
(* retries the records Kinesis rejected, and marks the whole poll as       *)
(* published only when every batch went through.                           *)
(*                                                                         *)
(* The records of a poll belong to different series, hence to different    *)
(* partition keys: their order inside a batch is irrelevant and a batch is *)
(* a set.  Kinesis keeps the order per partition key: stream[k].           *)
(***************************************************************************)
EXTENDS MarketFeed, FiniteSets, Sequences

CONSTANTS
  BatchSize,   \* KINESIS_PUBLISH_BATCH_SIZE
  MaxAttempts, \* max_attempts of publish_records
  MaxFaults    \* bound: failed publications, restarts and requests sent again

VARIABLES
  lastEventIds, \* last_event_ids, in memory only
  phase,        \* "fetch", "publish" or "sleep"
  todo,         \* series not fetched yet in this poll
  records,      \* records collected by this poll
  rest,         \* records of the batches not sent yet
  pending,      \* records of the current batch not accepted yet
  attempt,
  stream,       \* the Kinesis stream: accepted records per series
  faults        \* failed publications, restarts and requests sent again so far

vars == <<openCandle, lastEventIds, phase, todo, records, rest, pending,
          attempt, stream, faults>>

poll == <<phase, todo, records, rest, pending, attempt>>

ASSUME KinesisAssumption ==
  /\ BatchSize \in Nat \ {0}
  /\ MaxAttempts \in Nat \ {0}
  /\ MaxFaults \in Nat

Accepted(k, n) == \E i \in DOMAIN stream[k] : stream[k][i].candle = n

\* Kinesis appends the records of A, at most one per series, to their shards.
Accept(A) ==
  stream' = [k \in Key |-> IF \E r \in A : r.key = k
                             THEN Append(stream[k], CHOOSE r \in A : r.key = k)
                             ELSE stream[k]]

NewPoll ==
  /\ phase' = "fetch"
  /\ todo' = Key
  /\ records' = {} /\ rest' = {} /\ pending' = {}
  /\ attempt' = 1

OnlyFirstBatch(from) ==
  \E batch \in SUBSET from :
    /\ Cardinality(batch) = IF Cardinality(from) < BatchSize THEN Cardinality(from)
                                                             ELSE BatchSize
    /\ pending' = batch
    /\ rest' = {}
    /\ attempt' = 1

\* The next batch of publish_records: BatchSize records, or what is left.
NextBatch(from) ==
  \E batch \in SUBSET from :
    /\ Cardinality(batch) = IF Cardinality(from) < BatchSize THEN Cardinality(from)
                                                             ELSE BatchSize
    /\ pending' = batch
    /\ rest' = from \ batch
    /\ attempt' = 1

Sleep ==
  /\ phase' = "sleep"
  /\ todo' = {} /\ records' = {} /\ rest' = {} /\ pending' = {}
  /\ attempt' = 1

-----------------------------------------------------------------------------
(* Fetching *)

FetchWithoutSkip(k) ==
  /\ phase = "fetch" /\ k \in todo
  /\ todo' = todo \ {k}
  /\ \E clock \in HostClock : records' = records \cup {FetchLatest(k, clock)}
  /\ UNCHANGED <<openCandle, lastEventIds, phase, rest, pending, attempt, stream, faults>>

\* One series is fetched; a candle already marked is skipped.
Fetch(k) ==
  /\ phase = "fetch" /\ k \in todo
  /\ todo' = todo \ {k}
  /\ \E clock \in HostClock :
       LET r == FetchLatest(k, clock)
       IN  records' = IF event_id(r) \in lastEventIds THEN records ELSE records \cup {r}
  /\ UNCHANGED <<openCandle, lastEventIds, phase, rest, pending, attempt, stream, faults>>

\* The request or the encoding fails: the series is left out of this poll.
FetchFails(k) ==
  /\ phase = "fetch" /\ k \in todo
  /\ todo' = todo \ {k}
  /\ UNCHANGED <<openCandle, lastEventIds, phase, records, rest, pending, attempt,
                 stream, faults>>

MarkBeforePublishing ==
  /\ phase = "fetch" /\ todo = {}
  /\ records # {}
  /\ lastEventIds' = lastEventIds \cup {event_id(r) : r \in records}
  /\ NextBatch(records)
  /\ phase' = "publish"
  /\ UNCHANGED <<openCandle, todo, records, stream, faults>>

StartPublishing ==
  /\ phase = "fetch" /\ todo = {}
  /\ records # {}
  /\ NextBatch(records)
  /\ phase' = "publish"
  /\ UNCHANGED <<openCandle, lastEventIds, todo, records, stream, faults>>

NothingToPublish ==
  /\ phase = "fetch" /\ todo = {}
  /\ records = {}
  /\ Sleep
  /\ UNCHANGED <<openCandle, lastEventIds, stream, faults>>

-----------------------------------------------------------------------------
(* publish_records *)

\* The answer to a request is lost after Kinesis stored any part of it, and botocore
\* sends the same request once more inside put_records (the client has its default
\* retries): publish_records sees the last answer only.
ClientResends ==
  /\ phase = "publish"
  /\ faults < MaxFaults
  /\ faults' = faults + 1
  /\ \E stored \in SUBSET pending : Accept(stored)
  /\ UNCHANGED <<openCandle, lastEventIds, poll>>

\* FailedRecordCount = 0 and batches are left.
BatchAccepted ==
  /\ phase = "publish"
  /\ rest # {}
  /\ Accept(pending)
  /\ NextBatch(rest)
  /\ UNCHANGED <<openCandle, lastEventIds, phase, todo, records, faults>>

\* FailedRecordCount = 0 for the last batch: last_event_ids.update(event_ids).
PollPublished ==
  /\ phase = "publish"
  /\ rest = {}
  /\ Accept(pending)
  /\ lastEventIds' = lastEventIds \cup {event_id(r) : r \in records}
  /\ Sleep
  /\ UNCHANGED <<openCandle, faults>>

RetryWholeBatch ==
  /\ phase = "publish"
  /\ attempt < MaxAttempts
  /\ \E failed \in (SUBSET pending) \ {{}} : Accept(pending \ failed)
  /\ attempt' = attempt + 1
  /\ UNCHANGED <<openCandle, lastEventIds, phase, todo, records, rest, pending, faults>>

\* Some records come back with an ErrorCode: only those are retried.
PartlyRejected ==
  /\ phase = "publish"
  /\ attempt < MaxAttempts
  /\ \E failed \in (SUBSET pending) \ {{}} :
       /\ Accept(pending \ failed)
       /\ pending' = failed
  /\ attempt' = attempt + 1
  /\ UNCHANGED <<openCandle, lastEventIds, phase, todo, records, rest, faults>>

GiveUpQuietly ==
  /\ phase = "publish"
  /\ attempt = MaxAttempts
  /\ faults < MaxFaults
  /\ faults' = faults + 1
  /\ \E failed \in (SUBSET pending) \ {{}} : Accept(pending \ failed)
  /\ lastEventIds' = lastEventIds \cup {event_id(r) : r \in records}
  /\ Sleep
  /\ UNCHANGED openCandle

\* The last attempt is rejected too: RuntimeError, caught by main; nothing of
\* the poll is marked, not even what Kinesis accepted.
AttemptsExhausted ==
  /\ phase = "publish"
  /\ attempt = MaxAttempts
  /\ faults < MaxFaults
  /\ faults' = faults + 1
  /\ \E failed \in (SUBSET pending) \ {{}} : Accept(pending \ failed)
  /\ Sleep
  /\ UNCHANGED <<openCandle, lastEventIds>>

\* put_records raises; Kinesis may have stored any part of the request.
PutRaises ==
  /\ phase = "publish"
  /\ faults < MaxFaults
  /\ faults' = faults + 1
  /\ \E stored \in SUBSET pending : Accept(stored)
  /\ Sleep
  /\ UNCHANGED <<openCandle, lastEventIds>>

-----------------------------------------------------------------------------
(* The process *)

\* time.sleep(poll_seconds) ends.
WakeUp ==
  /\ phase = "sleep"
  /\ NewPoll
  /\ UNCHANGED <<openCandle, lastEventIds, stream, faults>>

\* The container stops anywhere and is started again with an empty memory.
Restart ==
  /\ faults < MaxFaults
  /\ faults' = faults + 1
  /\ lastEventIds' = {}
  /\ NewPoll
  /\ UNCHANGED <<openCandle, stream>>

MarketMoves(k) ==
  /\ CandleCloses(k)
  /\ UNCHANGED <<lastEventIds, poll, stream, faults>>

Init ==
  /\ FeedInit
  /\ lastEventIds = {}
  /\ phase = "fetch" /\ todo = Key
  /\ records = {} /\ rest = {} /\ pending = {}
  /\ attempt = 1
  /\ stream = [k \in Key |-> << >>]
  /\ faults = 0

\* The main loop.
Loop ==
  \/ \E k \in Key : Fetch(k) \/ FetchFails(k)
  \/ StartPublishing \/ NothingToPublish
  \/ ClientResends \/ BatchAccepted \/ PollPublished \/ PartlyRejected
  \/ AttemptsExhausted \/ PutRaises
  \/ WakeUp

Next == Loop \/ Restart \/ \E k \in Key : MarketMoves(k)

Spec == Init /\ [][Next]_vars

\* The loop runs for ever, and Binance does not refuse a series at every poll.
\* Failed publications and requests sent again are bounded by MaxFaults.  The market
\* need not move.
FairSpec == Spec /\ WF_vars(Loop) /\ \A k \in Key : SF_vars(Fetch(k))

-----------------------------------------------------------------------------
(* Properties *)

TypeOK ==
  /\ openCandle \in [Key -> 0 .. MaxCandle]
  /\ lastEventIds \subseteq EventId
  /\ phase \in {"fetch", "publish", "sleep"}
  /\ todo \subseteq Key
  /\ records \subseteq Record /\ rest \subseteq records /\ pending \subseteq records
  /\ attempt \in 1 .. MaxAttempts
  /\ stream \in [Key -> Seq(Record)]
  /\ faults \in 0 .. MaxFaults

\* A candle the producer will never send again was accepted by Kinesis: partial
\* rejections, exhausted retries and errors never mark a record that is missing.
MarkedWereAccepted == \A id \in lastEventIds : Accepted(id[1], id[2])

\* While a publication is in progress, each record of the poll is accepted or
\* still to be sent: no batch boundary or retry drops one.
NothingDropped ==
  phase = "publish" =>
    \A r \in records : r \in pending \cup rest \/ Accepted(r.key, r.candle)

Copies(k, n) == Cardinality({i \in DOMAIN stream[k] : stream[k][i].candle = n})

\* A candle is in the stream once, plus at most once per failed publication, restart
\* or request the client sent again: the retries of publish_records add no copy, for
\* they resend only what was rejected.
CopiesBoundedByFaults ==
  \A k \in Key, n \in 0 .. MaxCandle : Copies(k, n) <= 1 + faults

\* With a right host clock, a candle is published while it is the last closed
\* one (or was, while still open, as the first candle of a new series), or the
\* market moves on and it is skipped for good: only the latest row is fetched.
LatestClosedIsPublished ==
  \A k \in Key, n \in 1 .. MaxCandle :
    openCandle[k] = n ~> Accepted(k, n - 1) \/ openCandle[k] > n
=============================================================================
