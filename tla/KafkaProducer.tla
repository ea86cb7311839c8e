---------------------------- MODULE KafkaProducer ----------------------------
(***************************************************************************)
(* The on-prem producer, apps/binance-producer/main.py: candles go one by  *)
(* one into the send queue of the Kafka client and are marked as published *)
(* at once, before any delivery report.  A failed delivery is only logged. *)
(*                                                                         *)
(* queue[k] is what the client holds for series k.  The client is          *)
(* idempotent (enable.idempotence, acks=all): its own retries neither      *)
(* duplicate nor reorder the messages of a partition.  flush(10) only      *)
(* waits, and not for ever: a poll may begin with messages still queued.   *)
(***************************************************************************)
EXTENDS MarketFeed, FiniteSets, Sequences

CONSTANT MaxFaults \* bound: failed deliveries and restarts in a behaviour

VARIABLES
  lastEventIds, \* last_event_ids, in memory only
  todo,         \* series not handled yet in this poll
  queue,        \* messages handed to the client and not reported on
  topic,        \* the Kafka topic
  lost,         \* ids reported as failed since the last restart
  restarts,
  faults        \* failed deliveries and restarts so far

vars == <<openCandle, lastEventIds, todo, queue, topic, lost, restarts, faults>>

ASSUME KafkaAssumption == MaxFaults \in Nat

Has(log, id) == \E i \in DOMAIN log[id[1]] : event_id(log[id[1]][i]) = id

NewPoll == todo' = Key

-----------------------------------------------------------------------------
(* One poll *)

\* fetch_latest returned a candle already marked: continue.
Skip(k) ==
  /\ k \in todo
  /\ \E clock \in HostClock : event_id(FetchLatest(k, clock)) \in lastEventIds
  /\ todo' = todo \ {k}
  /\ UNCHANGED <<openCandle, lastEventIds, queue, topic, lost, restarts, faults>>

MarkFirst(k) ==
  /\ k \in todo
  /\ todo' = todo \ {k}
  /\ \E clock \in HostClock :
       lastEventIds' = lastEventIds \cup {event_id(FetchLatest(k, clock))}
  /\ UNCHANGED <<openCandle, queue, topic, lost, restarts, faults>>

PublishTwice(k) ==
  /\ k \in todo
  /\ todo' = todo \ {k}
  /\ \E clock \in HostClock :
       LET r == FetchLatest(k, clock)
       IN  /\ queue' = [queue EXCEPT ![k] = Append(@, r)]
           /\ lastEventIds' = lastEventIds \cup {event_id(r)}
  /\ UNCHANGED <<openCandle, topic, lost, restarts, faults>>

\* produce() queues the candle; the id is marked without waiting for delivery.
Publish(k) ==
  /\ k \in todo
  /\ todo' = todo \ {k}
  /\ \E clock \in HostClock :
       LET r == FetchLatest(k, clock)
       IN  /\ event_id(r) \notin lastEventIds
           /\ queue' = [queue EXCEPT ![k] = Append(@, r)]
           /\ lastEventIds' = lastEventIds \cup {event_id(r)}
  /\ UNCHANGED <<openCandle, topic, lost, restarts, faults>>

\* The request fails, the schema registry does not answer, or the client's
\* queue is full: the exception is logged, nothing is queued or marked.
PublishFails(k) ==
  /\ k \in todo
  /\ todo' = todo \ {k}
  /\ UNCHANGED <<openCandle, lastEventIds, queue, topic, lost, restarts, faults>>

\* flush(10) and the sleep are over.
NextPoll ==
  /\ todo = {}
  /\ NewPoll
  /\ UNCHANGED <<openCandle, lastEventIds, queue, topic, lost, restarts, faults>>

-----------------------------------------------------------------------------
(* The Kafka client *)

DeliverAny(k) ==
  /\ \E i \in DOMAIN queue[k] :
       /\ topic' = [topic EXCEPT ![k] = Append(@, queue[k][i])]
       /\ queue' = [queue EXCEPT ![k] = SubSeq(@, 1, i - 1) \o SubSeq(@, i + 1, Len(@))]
  /\ UNCHANGED <<openCandle, lastEventIds, todo, lost, restarts, faults>>

\* The broker acknowledges the oldest message of the partition.
Deliver(k) ==
  /\ queue[k] # << >>
  /\ topic' = [topic EXCEPT ![k] = Append(@, Head(queue[k]))]
  /\ queue' = [queue EXCEPT ![k] = Tail(@)]
  /\ UNCHANGED <<openCandle, lastEventIds, todo, lost, restarts, faults>>

\* delivery_report(error): the message is dropped, its id stays marked.
DeliveryFails(k) ==
  /\ queue[k] # << >>
  /\ faults < MaxFaults
  /\ faults' = faults + 1
  /\ lost' = lost \cup {event_id(Head(queue[k]))}
  /\ queue' = [queue EXCEPT ![k] = Tail(@)]
  /\ UNCHANGED <<openCandle, lastEventIds, todo, topic, restarts>>

RestartKeepsMarks ==
  /\ faults < MaxFaults
  /\ faults' = faults + 1
  /\ restarts' = restarts + 1
  /\ lost' = {}
  /\ queue' = [k \in Key |-> << >>]
  /\ NewPoll
  /\ UNCHANGED <<openCandle, lastEventIds, topic>>

\* The container is killed and started again: memory and queue are gone.
Restart ==
  /\ faults < MaxFaults
  /\ faults' = faults + 1
  /\ restarts' = restarts + 1
  /\ lastEventIds' = {} /\ lost' = {}
  /\ queue' = [k \in Key |-> << >>]
  /\ NewPoll
  /\ UNCHANGED <<openCandle, topic>>

MarketMoves(k) ==
  /\ CandleCloses(k)
  /\ UNCHANGED <<lastEventIds, todo, queue, topic, lost, restarts, faults>>

Init ==
  /\ FeedInit
  /\ lastEventIds = {} /\ lost = {}
  /\ todo = Key
  /\ queue = [k \in Key |-> << >>]
  /\ topic = [k \in Key |-> << >>]
  /\ restarts = 0 /\ faults = 0

Loop == NextPoll \/ \E k \in Key : Skip(k) \/ Publish(k) \/ PublishFails(k)

Next ==
  \/ Loop
  \/ \E k \in Key : Deliver(k) \/ DeliveryFails(k) \/ MarketMoves(k)
  \/ Restart

Spec == Init /\ [][Next]_vars

\* The loop runs for ever, Binance and the client do not refuse a series at
\* every poll, and the client reports on every message.
FairSpec ==
  /\ Spec
  /\ WF_vars(Loop)
  /\ \A k \in Key : SF_vars(Publish(k)) /\ WF_vars(Deliver(k))

-----------------------------------------------------------------------------
(* Properties *)

TypeOK ==
  /\ openCandle \in [Key -> 0 .. MaxCandle]
  /\ lastEventIds \subseteq EventId /\ lost \subseteq EventId
  /\ todo \subseteq Key
  /\ queue \in [Key -> Seq(Record)]
  /\ topic \in [Key -> Seq(Record)]
  /\ restarts \in 0 .. faults
  /\ faults \in 0 .. MaxFaults

\* A candle the producer will not send again is in the topic, on its way, or was
\* reported as failed (and is then never sent again before a restart).
MarkedIsSettledOrUnderway ==
  \A id \in lastEventIds : Has(topic, id) \/ Has(queue, id) \/ id \in lost

Copies(log, id) == Cardinality({i \in DOMAIN log[id[1]] : event_id(log[id[1]][i]) = id})

\* A candle reaches the topic once, plus at most once per restart.
CopiesBoundedByRestarts ==
  \A id \in EventId : Copies(topic, id) + Copies(queue, id) <= 1 + restarts

\* The final candles of a series enter the topic in the order the market closed
\* them, over failures, restarts and any host clock: Bronze's watermark, which
\* drops rows that come too late, relies on it.
TopicInMarketOrder ==
  \A k \in Key : \A i, j \in DOMAIN topic[k] :
    i < j /\ topic[k][i].final /\ topic[k][j].final
      => topic[k][i].candle <= topic[k][j].candle

InTopic(k, n) == \E i \in DOMAIN topic[k] : topic[k][i].candle >= n

\* While a candle is the last closed one, it or the open one reaches the topic
\* (in whichever version the host clock made of it), or its delivery fails, or
\* the market moves on and it is skipped for good.
LatestIsDelivered ==
  \A k \in Key, n \in 1 .. MaxCandle :
    openCandle[k] = n ~>
      \/ InTopic(k, n - 1)
      \/ \E m \in {n - 1, n} : <<k, m>> \in lost
      \/ openCandle[k] > n
=============================================================================
