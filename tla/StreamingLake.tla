---------------------------- MODULE StreamingLake ----------------------------
(***************************************************************************)
(* The two streaming applications of the lake.  The Raw application copies *)
(* the topic to Parquet as it is; the Bronze application runs two queries  *)
(* over Raw: "bronze" decodes, drops late and repeated events and appends  *)
(* to Bronze, "errors" sends what does not decode to the error sink        *)
(* (a Kafka topic on premises, a Parquet data set on AWS).                 *)
(*                                                                         *)
(* A query is a sequence of micro-batches.  A batch is planned (its input  *)
(* range is logged), written (the sink takes it) and committed; an         *)
(* application that stops in between does the logged batch again.  The     *)
(* rows of Raw, Bronze and the error sink are named by the topic offset    *)
(* they come from, and event holds open_time, which with the series makes  *)
(* up event_id.  Messages of several series share the topic, so open_time  *)
(* need not increase along it.                                             *)
(***************************************************************************)
EXTENDS Integers, Sequences, FiniteSetsExt

CONSTANTS
  Event,           \* open_time of the candles published
  Payload,         \* kinds of message that occur
  Delay,           \* BRONZE_WATERMARK_DELAY
  MaxMessages,     \* bound on the topic
  MaxCrashes,      \* bound on the stops of the applications
  MaxRetries       \* bound on the tasks of the error query that are run again

VARIABLES
  platform,  \* "aws" or "local"
  topic,     \* the messages, by offset
  expired,   \* offsets up to this one are gone (topic retention)
  raw,       \* the files of Raw: sets of offsets
  bronze,    \* the rows of Bronze
  errors,    \* copies of every message in the error sink
  watermark, \* of the bronze query, on open_time
  next,      \* first input position a query has not committed
  last,      \* last input position of its current batch
  status,    \* how far the current batch is
  up,        \* which applications run
  crashes,   \* stops so far
  retries    \* tasks run again so far

sources == <<platform, topic, expired>>
sinks   == <<raw, bronze, errors, watermark>>
control == <<next, last, status>>
faults  == <<crashes, retries>>
vars    == <<sources, sinks, control, up, faults>>

Query   == {"raw", "bronze", "errors"}
App     == {"raw-consumer", "bronze-ingestion"}
NoEvent == 0 \* the event of a message that does not decode
Offset  == 1 .. MaxMessages
Status  == {"none", "planned", "written", "recovered"}

\* "corrupt" is a value from_avro cannot parse, "null" a message without value.
Message == [event : Event, payload : Payload \cap {"open", "closed"}]
             \cup [event : {NoEvent}, payload : Payload \cap {"corrupt", "null"}]

ASSUME LakeAssumption ==
  /\ Event \subseteq Nat \ {NoEvent}
  /\ Payload \subseteq {"open", "closed", "corrupt", "null"}
  /\ Delay \in Nat
  /\ MaxMessages \in Nat /\ MaxCrashes \in Nat /\ MaxRetries \in Nat

\* The error sink is a Kafka topic, not a Parquet data set.
KafkaErrorSink == platform = "local"

AppOf(q) == IF q = "raw" THEN "raw-consumer" ELSE "bronze-ingestion"

LeavesNewest(q) == IF q = "raw" THEN Len(topic) - 1 ELSE Len(raw)

\* What a query reads: the topic, or the files committed to Raw.
Available(q) == IF q = "raw" THEN Len(topic) ELSE Len(raw)

Batch(q) == UNION {raw[i] : i \in next[q] .. last[q]}

-----------------------------------------------------------------------------
(* Decoding and filters *)

\* build_bronze_rejected: data is null.  PERMISSIVE from_avro answers a corrupt
\* value with a struct whose fields are all null, which is not a null struct.
Rejected(o) == topic[o].payload = "null"

\* The watermark drops the row: open_time at or below it.  A null open_time
\* compares as not late.
Late(o) == topic[o].event # NoEvent /\ topic[o].event <= watermark

DedupInBatchOnly(rows) == rows

\* Rows whose event_id the state of dropDuplicates does not hold yet.
Unseen(rows) == {o \in rows : \A p \in bronze : topic[p].event # topic[o].event}

\* dropDuplicates keeps one row per event_id, whichever it meets first.
IsDeduplicated(chosen, rows) ==
  \A o \in rows : Cardinality({p \in chosen : topic[p].event = topic[o].event}) = 1

\* build_silver: closed rows that pass the quality rules (a null row does not),
\* the last ingested of each key.
BuildSilver(rows) ==
  LET clean == {o \in rows : topic[o].payload = "closed"}
  IN  {o \in clean : \A p \in clean : topic[p].event = topic[o].event => p <= o}

-----------------------------------------------------------------------------
(* Micro-batches *)

\* The batch takes what is available, or less where the source has a limit
\* (maxFilesPerTrigger; the reads of a Kinesis shard).
Plan(q) ==
  /\ up[AppOf(q)]
  /\ status[q] = "none"
  /\ \E n \in next[q] .. Available(q) : last' = [last EXCEPT ![q] = n]
  /\ status' = [status EXCEPT ![q] = "planned"]
  /\ UNCHANGED <<sources, sinks, next, up, faults>>

Writes(q) ==
  /\ up[AppOf(q)]
  /\ status[q] = "planned"
  /\ status' = [status EXCEPT ![q] = "written"]
  /\ UNCHANGED <<sources, watermark, next, last, up, faults>>

\* failOnDataLoss = false: messages the topic no longer holds are skipped.
WriteRaw ==
  /\ Writes("raw")
  /\ LET rows == {o \in next["raw"] .. last["raw"] : o > expired}
     IN  raw' = IF rows = {} THEN raw ELSE Append(raw, rows)
  /\ UNCHANGED <<bronze, errors>>

WriteBronze ==
  /\ Writes("bronze")
  /\ LET rows == Unseen({o \in Batch("bronze") : ~Rejected(o) /\ ~Late(o)})
     IN  \E chosen \in SUBSET rows :
           IsDeduplicated(chosen, rows) /\ bronze' = bronze \cup chosen
  /\ UNCHANGED <<raw, errors>>

Sent(rows) == [o \in Offset |-> errors[o] + (IF o \in rows THEN 1 ELSE 0)]

WriteErrors ==
  /\ Writes("errors")
  /\ errors' = Sent({o \in Batch("errors") : Rejected(o)})
  /\ UNCHANGED <<raw, bronze>>

\* A task of the error query fails after it has sent some of its rows to Kafka, and
\* Spark runs it again while the application goes on (spark.task.maxFailures is left
\* at its default).  A Parquet sink lists only the files of tasks that committed.
RetryTask ==
  /\ up[AppOf("errors")] /\ KafkaErrorSink
  /\ status["errors"] = "planned"
  /\ retries < MaxRetries
  /\ retries' = retries + 1
  /\ \E part \in SUBSET {o \in Batch("errors") : Rejected(o)} : errors' = Sent(part)
  /\ UNCHANGED <<sources, raw, bronze, watermark, control, up, crashes>>

WatermarkOfLastBatch(q) == Max({topic[o].event - Delay : o \in Batch(q)})

\* The greatest open_time seen, less the delay; it never goes back.
NextWatermark(q) == Max({watermark} \cup {topic[o].event - Delay : o \in Batch(q)})

\* The next watermark is kept with the commit.  A recovered batch did not run
\* again, so nothing was learnt about its open times.
Commit(q) ==
  /\ up[AppOf(q)]
  /\ status[q] \in {"written", "recovered"}
  /\ status' = [status EXCEPT ![q] = "none"]
  /\ next' = [next EXCEPT ![q] = last[q] + 1]
  /\ watermark' = IF q = "bronze" /\ status[q] = "written"
                  THEN NextWatermark(q)
                  ELSE watermark
  /\ UNCHANGED <<sources, raw, bronze, errors, last, up, faults>>

-----------------------------------------------------------------------------
(* Stops and restarts *)

NoBatchLog(q) == IF status[q] = "written" THEN "planned" ELSE status[q]

LogsBeforeWriting(q) == IF status[q] = "none" THEN "none" ELSE "recovered"

\* The batch after a restart.  A Parquet sink has logged a written batch by its
\* number and skips it; a Kafka sink writes it again.
AfterStop(q) ==
  IF status[q] # "written" THEN status[q]
  ELSE IF q = "errors" /\ KafkaErrorSink THEN "planned" ELSE "recovered"

\* The application is killed, or one of its queries fails: awaitAnyTermination
\* returns and takes the other one down.  A Kafka sink may have sent part of the
\* batch it was writing.
Stop(a) ==
  /\ up[a]
  /\ crashes < MaxCrashes
  /\ crashes' = crashes + 1
  /\ up' = [up EXCEPT ![a] = FALSE]
  /\ status' = [q \in Query |-> IF AppOf(q) = a THEN AfterStop(q) ELSE status[q]]
  /\ \/ UNCHANGED errors
     \/ /\ KafkaErrorSink /\ a = AppOf("errors") /\ status["errors"] = "planned"
        /\ \E part \in SUBSET {o \in Batch("errors") : Rejected(o)} : errors' = Sent(part)
  /\ UNCHANGED <<sources, raw, bronze, watermark, next, last, retries>>

\* An operator or the DAG submits the application again.
Start(a) ==
  /\ ~up[a]
  /\ up' = [up EXCEPT ![a] = TRUE]
  /\ UNCHANGED <<sources, sinks, control, faults>>

-----------------------------------------------------------------------------
(* The topic *)

Publish ==
  /\ Len(topic) < MaxMessages
  /\ \E m \in Message : topic' = Append(topic, m)
  /\ UNCHANGED <<platform, expired, sinks, control, up, faults>>

\* Retention removes the oldest messages, read or not.
Expire ==
  /\ \E n \in (expired + 1) .. Len(topic) : expired' = n
  /\ UNCHANGED <<platform, topic, sinks, control, up, faults>>

-----------------------------------------------------------------------------

Init ==
  /\ platform \in {"aws", "local"}
  /\ topic = << >> /\ expired = 0
  /\ raw = << >> /\ bronze = {} /\ errors = [o \in Offset |-> 0]
  /\ watermark = 0
  /\ next = [q \in Query |-> 1] /\ last = [q \in Query |-> 0]
  /\ status = [q \in Query |-> "none"]
  /\ up = [a \in App |-> TRUE]
  /\ crashes = 0 /\ retries = 0

Write(q) ==
  CASE q = "raw" -> WriteRaw [] q = "bronze" -> WriteBronze [] q = "errors" -> WriteErrors

Progress(q) == Plan(q) \/ Write(q) \/ Commit(q)

Next ==
  \/ \E q \in Query : Plan(q) \/ Commit(q)
  \/ WriteRaw \/ WriteBronze \/ WriteErrors \/ RetryTask
  \/ \E a \in App : Stop(a) \/ Start(a)
  \/ Publish \/ Expire

Spec == Init /\ [][Next]_vars

\* A running query goes on to its next batch.  Nothing restarts an application.
FairSpec == Spec /\ \A q \in Query : WF_vars(Progress(q))

-----------------------------------------------------------------------------
(* Properties *)

TypeOK ==
  /\ platform \in {"aws", "local"}
  /\ topic \in Seq(Message) /\ Len(topic) <= MaxMessages
  /\ expired \in 0 .. Len(topic)
  /\ raw \in Seq((SUBSET (1 .. Len(topic))) \ {{}})
  /\ bronze \subseteq 1 .. Len(topic)
  /\ errors \in [Offset -> 0 .. (1 + MaxCrashes + MaxRetries)]
  /\ watermark \in {0} \cup ({e - Delay : e \in Event} \cap Nat)
  /\ next \in [Query -> 1 .. (MaxMessages + 1)]
  /\ last \in [Query -> 0 .. MaxMessages]
  /\ status \in [Query -> Status]
  /\ up \in [App -> BOOLEAN]
  /\ crashes \in 0 .. MaxCrashes /\ retries \in 0 .. MaxRetries

Consumed(q) == UNION {raw[i] : i \in 1 .. next[q] - 1}

\* Over stops and restarts Raw holds no message twice, and a message the Raw
\* query has passed without copying it had left the topic.
RawExactlyOnce ==
  /\ \A i, j \in DOMAIN raw : i # j => raw[i] \cap raw[j] = {}
  /\ \A o \in 1 .. next["raw"] - 1 : o > expired => \E i \in DOMAIN raw : o \in raw[i]

\* Bronze holds one row per event_id, however batches, stops and republished
\* candles fall.
BronzeOnePerEvent == \A o, p \in bronze : topic[o].event = topic[p].event => o = p

\* An event that Bronze has consumed and does not hold came too late: its open
\* time is at or below the watermark.
MissingFromBronzeIsLate ==
  \A o \in Consumed("bronze") :
    Rejected(o) \/ Late(o) \/ \E p \in bronze : topic[p].event = topic[o].event

\* A rejected message reaches the error sink, and no other does: once in a Parquet
\* sink, and in a Kafka topic at most once more per stop and per task run again.
RejectedReachErrorSink ==
  \A o \in 1 .. Len(topic) :
    /\ Rejected(o) /\ o \in Consumed("errors") => errors[o] >= 1
    /\ errors[o] <= (IF Rejected(o) THEN 1 ELSE 0)
                     + (IF KafkaErrorSink /\ Rejected(o) THEN crashes + retries ELSE 0)

Settled(o) ==
  \/ o <= expired
  \/ Rejected(o) /\ errors[o] >= 1
  \/ Late(o)
  \/ \E p \in bronze : topic[p].event = topic[o].event

\* Once the applications stay up, every message is settled: in Bronze, late,
\* rejected or expired.  A batch left half done by a stop is finished.
EveryMessageIsSettled ==
  (<>[](\A a \in App : up[a]))
    => \A o \in Offset : o <= Len(topic) ~> (o <= Len(topic) /\ Settled(o))

\* docs/raw-to-bronze-streaming.md:45, "rejet technique des payloads non
\* decodables vers KAFKA_ERROR_TOPIC": a value that does not decode goes to the
\* error sink, not to Bronze.
UndecodableIsRejected ==
  \A o \in Consumed("errors") :
    topic[o].payload \in {"corrupt", "null"} => errors[o] >= 1

=============================================================================
