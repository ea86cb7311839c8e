------------------------- MODULE KafkaProducerProofs -------------------------
(***************************************************************************)
(* KafkaProducer for every set of series, number of candles, host clock    *)
(* and number of faults: its types, and the three safety properties of the *)
(* topic.                                                                  *)
(***************************************************************************)
EXTENDS KafkaProducer, MarketFeedProofs

\* The proofs treat every step alike by what it does to the logs: Publish appends
\* to a queue, Deliver moves its head to the topic, DeliveryFails drops its head,
\* Restart empties the queues; the other steps leave topic and queue alone.
LEMMA StepsOfNext ==
  ASSUME Next
  PROVE  \/ \E k \in Key : Publish(k) \/ Deliver(k) \/ DeliveryFails(k)
         \/ Restart
         \/ /\ UNCHANGED <<lastEventIds, queue, topic, lost, restarts, faults>>
            /\ \/ openCandle' = openCandle
               \/ \E k \in Key : CandleCloses(k)
            /\ todo' = Key \/ todo' \subseteq todo
BY DEF Next, Loop, NextPoll, NewPoll, Skip, PublishFails, MarketMoves

-----------------------------------------------------------------------------
(* Types *)

\* What one step may put at the end of a log, or leave of it, is a log.
LEMMA LogTyped ==
  ASSUME NEW log \in [Key -> Seq(Record)], NEW k \in Key
  PROVE  /\ \A r \in Record : [log EXCEPT ![k] = Append(@, r)] \in [Key -> Seq(Record)]
         /\ log[k] # << >> =>
              /\ [log EXCEPT ![k] = Tail(@)] \in [Key -> Seq(Record)]
              /\ Head(log[k]) \in Record
<1>1. log[k] \in Seq(Record)
  OBVIOUS
<1>2. \A r \in Record : Append(log[k], r) \in Seq(Record)
  BY <1>1, AppendProperties
<1>3. log[k] # << >> => Tail(log[k]) \in Seq(Record) /\ Head(log[k]) \in Record
  BY <1>1, HeadTailProperties, EmptySeq, ElementOfSeq
<1> QED BY <1>2, <1>3

\* A candle that closes leaves the next one open, up to the bound of the market.
LEMMA OpenCandleTyped ==
  ASSUME openCandle \in [Key -> 0 .. MaxCandle], NEW k \in Key, CandleCloses(k)
  PROVE  /\ openCandle' \in [Key -> 0 .. MaxCandle]
         /\ \A j \in Key : openCandle[j] <= openCandle'[j]
BY FeedAssumption DEF CandleCloses

\* The state of the producer keeps its types: in particular, what it queues and
\* what reaches the topic are candles the market had opened.
THEOREM KafkaTypes == Spec => []TypeOK
<1>1. Init => TypeOK
  <2> SUFFICES ASSUME Init PROVE TypeOK
    OBVIOUS
  <2>1. << >> \in Seq(Record)
    BY EmptySeq
  <2>2. openCandle \in [Key -> 0 .. MaxCandle]
    BY FeedAssumption DEF Init, FeedInit
  <2> QED BY <2>1, <2>2, KafkaAssumption DEF Init, TypeOK, KafkaAssumption
<1>2. TypeOK /\ [Next]_vars => TypeOK'
  <2> SUFFICES ASSUME TypeOK, [Next]_vars PROVE TypeOK'
    OBVIOUS
  <2> USE DEF TypeOK
  <2>1. ASSUME NEW k \in Key, Publish(k) PROVE TypeOK'
    <3>1. PICK clock \in HostClock :
            /\ queue' = [queue EXCEPT ![k] = Append(@, FetchLatest(k, clock))]
            /\ lastEventIds' = lastEventIds \cup {event_id(FetchLatest(k, clock))}
      BY <2>1 DEF Publish
    <3>2. FetchLatest(k, clock) \in Record
      BY FetchLatestTyped
    <3>3. event_id(FetchLatest(k, clock)) \in EventId
      BY <3>2 DEF event_id, EventId, Record
    <3> QED BY <2>1, <3>1, <3>2, <3>3, LogTyped DEF Publish
  <2>2. ASSUME NEW k \in Key, Deliver(k) PROVE TypeOK'
    BY <2>2, LogTyped DEF Deliver
  <2>3. ASSUME NEW k \in Key, DeliveryFails(k) PROVE TypeOK'
    <3>1. event_id(Head(queue[k])) \in EventId
      BY <2>3, LogTyped DEF DeliveryFails, event_id, EventId, Record
    <3> QED BY <2>3, <3>1, LogTyped, KafkaAssumption DEF DeliveryFails, KafkaAssumption
  <2>4. CASE Restart
    <3>1. << >> \in Seq(Record)
      BY EmptySeq
    <3> QED BY <2>4, <3>1, KafkaAssumption DEF Restart, NewPoll, KafkaAssumption
  <2>5. CASE /\ UNCHANGED <<lastEventIds, queue, topic, lost, restarts, faults>>
             /\ \/ openCandle' = openCandle
                \/ \E k \in Key : CandleCloses(k)
             /\ todo' = Key \/ todo' \subseteq todo
    BY <2>5, OpenCandleTyped
  <2>6. CASE UNCHANGED vars
    BY <2>6 DEF vars
  <2> QED BY <2>1, <2>2, <2>3, <2>4, <2>5, <2>6, StepsOfNext
<1> QED BY <1>1, <1>2, PTL DEF Spec

-----------------------------------------------------------------------------
(* What the steps do to the logs, log by log *)

Logs == [Key -> Seq(Record)]

Grows(log, log2, k, r) == log2[k] = Append(log[k], r) /\ \A j \in Key \ {k} : log2[j] = log[j]

Shrinks(log, log2, k) ==
  /\ log[k] # << >>
  /\ log2[k] = Tail(log[k])
  /\ \A j \in Key \ {k} : log2[j] = log[j]

\* Publish queues one record of a series and marks its event.
LEMMA PublishStep ==
  ASSUME TypeOK, TypeOK', NEW k \in Key, Publish(k)
  PROVE  \E r \in Record :
           /\ event_id(r) \notin lastEventIds
           /\ event_id(r) \in EventId /\ event_id(r)[1] = k
           /\ r.final => r.candle = openCandle[k] - 1
           /\ Grows(queue, queue', k, r)
           /\ lastEventIds' = lastEventIds \cup {event_id(r)}
           /\ UNCHANGED <<openCandle, topic, lost, restarts, faults>>
<1>1. PICK clock \in HostClock :
        /\ event_id(FetchLatest(k, clock)) \notin lastEventIds
        /\ queue' = [queue EXCEPT ![k] = Append(@, FetchLatest(k, clock))]
        /\ lastEventIds' = lastEventIds \cup {event_id(FetchLatest(k, clock))}
  BY DEF Publish
<1> DEFINE r == FetchLatest(k, clock)
<1>2. /\ r \in Record /\ r.key = k
      /\ r.final => r.candle = openCandle[k] - 1
  BY FetchLatestTyped DEF TypeOK
<1>3. event_id(r) \in EventId /\ event_id(r)[1] = k
  BY <1>2 DEF event_id, EventId, Record
<1> HIDE DEF r
<1>4. Grows(queue, queue', k, r)
  BY <1>1 DEF TypeOK, Grows, r
<1>5. UNCHANGED <<openCandle, topic, lost, restarts, faults>>
  BY DEF Publish
<1>6. event_id(r) \notin lastEventIds /\ lastEventIds' = lastEventIds \cup {event_id(r)}
  BY <1>1 DEF r
<1> QED BY <1>2, <1>3, <1>4, <1>5, <1>6

\* Deliver moves the first queued record of a series to the topic.
LEMMA DeliverStep ==
  ASSUME TypeOK, TypeOK', NEW k \in Key, Deliver(k)
  PROVE  /\ Head(queue[k]) \in Record
         /\ Shrinks(queue, queue', k)
         /\ Grows(topic, topic', k, Head(queue[k]))
         /\ UNCHANGED <<openCandle, lastEventIds, lost, restarts, faults>>
<1>1. Head(queue[k]) \in Record
  BY LogTyped DEF TypeOK, Deliver
<1>2. Shrinks(queue, queue', k)
  BY DEF TypeOK, Deliver, Shrinks
<1>3. Grows(topic, topic', k, Head(queue[k]))
  BY DEF TypeOK, Deliver, Grows
<1> QED BY <1>1, <1>2, <1>3 DEF Deliver

\* DeliveryFails takes a queued record away and reports its event lost.
LEMMA DeliveryFailsStep ==
  ASSUME TypeOK, TypeOK', NEW k \in Key, DeliveryFails(k)
  PROVE  /\ Shrinks(queue, queue', k)
         /\ lost' = lost \cup {event_id(Head(queue[k]))}
         /\ UNCHANGED <<openCandle, lastEventIds, topic, restarts>>
<1>1. Shrinks(queue, queue', k)
  BY DEF TypeOK, DeliveryFails, Shrinks
<1> QED BY <1>1 DEF DeliveryFails

-----------------------------------------------------------------------------
(* Marked candles *)

\* A log that grows by r has the candles it had and that of r.
LEMMA HasGrows ==
  ASSUME NEW log \in Logs, NEW k \in Key, NEW id \in EventId,
         NEW r \in Record, NEW log2 \in Logs, Grows(log, log2, k, r)
  PROVE  Has(log2, id) <=> Has(log, id) \/ (id[1] = k /\ event_id(r) = id)
<1> DEFINE n == Len(log[k]) + 1
<1>1. id[1] \in Key /\ log[id[1]] \in Seq(Record) /\ log[k] \in Seq(Record)
  BY DEF EventId, Logs
<1>2. Len(log[k]) \in Nat /\ DOMAIN log[k] = 1 .. Len(log[k])
  BY <1>1, LenProperties
<1>3. log2[id[1]] = IF id[1] = k THEN Append(log[k], r) ELSE log[id[1]]
  BY <1>1 DEF Grows
<1>4. /\ DOMAIN Append(log[k], r) = 1 .. n
      /\ \A i \in 1 .. Len(log[k]) : Append(log[k], r)[i] = log[k][i]
      /\ Append(log[k], r)[n] = r
  BY <1>1, LenProperties, AppendProperties
<1>5. /\ \A i \in 1 .. n : i \in 1 .. Len(log[k]) \/ i = n
      /\ n \in 1 .. n
      /\ \A i \in 1 .. Len(log[k]) : i \in 1 .. n
  BY <1>2
<1>6. (\E i \in 1 .. n : event_id(Append(log[k], r)[i]) = id) <=>
        (\E i \in 1 .. Len(log[k]) : event_id(log[k][i]) = id) \/ event_id(r) = id
  BY <1>4, <1>5, Zenon
<1>7. CASE id[1] = k
  BY <1>2, <1>3, <1>4, <1>6, <1>7 DEF Has
<1>8. CASE id[1] # k
  BY <1>3, <1>8 DEF Has
<1> QED BY <1>7, <1>8

\* A log that loses its head loses at most the candle of the head.
LEMMA HasShrinks ==
  ASSUME NEW log \in Logs, NEW k \in Key, NEW id \in EventId,
         NEW log2 \in Logs, Shrinks(log, log2, k)
  PROVE  Has(log, id) <=> Has(log2, id) \/ (id[1] = k /\ event_id(Head(log[k])) = id)
<1> DEFINE n == Len(log[k])
<1>1. id[1] \in Key /\ log[id[1]] \in Seq(Record) /\ log[k] \in Seq(Record)
  BY DEF EventId, Logs
<1>2. n \in Nat /\ n > 0 /\ DOMAIN log[k] = 1 .. n
  BY <1>1, LenProperties, EmptySeq DEF Shrinks
<1>3. log2[id[1]] = IF id[1] = k THEN Tail(log[k]) ELSE log[id[1]]
  BY <1>1 DEF Shrinks
<1>4. /\ DOMAIN Tail(log[k]) = 1 .. n - 1
      /\ \A i \in 1 .. n - 1 : Tail(log[k])[i] = log[k][i + 1]
      /\ Head(log[k]) = log[k][1]
  BY <1>1, LenProperties, HeadTailProperties DEF Shrinks
<1>5. /\ 1 \in 1 .. n
      /\ \A i \in 1 .. n - 1 : i + 1 \in 1 .. n
      /\ \A i \in 1 .. n : i = 1 \/ \E j \in 1 .. n - 1 : j + 1 = i
  <2>1. \A i \in 1 .. n : i = 1 \/ (i - 1 \in 1 .. n - 1 /\ (i - 1) + 1 = i)
    BY <1>2
  <2> QED BY <1>2, <2>1
<1>6. (\E i \in 1 .. n : event_id(log[k][i]) = id) <=>
        (\E i \in 1 .. n - 1 : event_id(Tail(log[k])[i]) = id) \/ event_id(log[k][1]) = id
  <2>1. \A j \in 1 .. n - 1 : event_id(Tail(log[k])[j]) = event_id(log[k][j + 1])
    BY <1>4
  <2> QED BY <1>5, <2>1
<1>7. CASE id[1] = k
  BY <1>2, <1>3, <1>4, <1>6, <1>7 DEF Has
<1>8. CASE id[1] # k
  BY <1>3, <1>8 DEF Has
<1> QED BY <1>7, <1>8

\* A candle is marked when it is queued, leaves the queue for the topic or as a
\* failed delivery, and no mark outlives a restart: at every moment a marked
\* candle is in the topic, underway or reported as failed.
THEOREM KafkaMarks == Spec => []MarkedIsSettledOrUnderway
<1>1. Init => MarkedIsSettledOrUnderway
  BY DEF Init, MarkedIsSettledOrUnderway
<1>2. TypeOK /\ TypeOK' /\ MarkedIsSettledOrUnderway /\ [Next]_vars => MarkedIsSettledOrUnderway'
  <2> SUFFICES ASSUME TypeOK, TypeOK', MarkedIsSettledOrUnderway, [Next]_vars,
                      NEW id \in lastEventIds'
               PROVE  Has(topic', id) \/ Has(queue', id) \/ id \in lost'
    BY DEF MarkedIsSettledOrUnderway, Has, event_id
  <2>0. /\ queue \in Logs /\ queue' \in Logs
        /\ topic \in Logs /\ topic' \in Logs
        /\ id \in EventId
        /\ id \in lastEventIds => Has(topic, id) \/ Has(queue, id) \/ id \in lost
    BY DEF TypeOK, MarkedIsSettledOrUnderway, Logs
  <2>1. ASSUME NEW k \in Key, Publish(k) PROVE Has(topic', id) \/ Has(queue', id) \/ id \in lost'
    <3>1. PICK r \in Record :
            /\ event_id(r)[1] = k
            /\ Grows(queue, queue', k, r)
            /\ lastEventIds' = lastEventIds \cup {event_id(r)}
            /\ UNCHANGED <<topic, lost>>
      BY <2>1, PublishStep
    <3>2. Has(queue', id) <=> Has(queue, id) \/ (id[1] = k /\ event_id(r) = id)
      BY <2>0, <3>1, HasGrows
    <3> QED BY <2>0, <3>1, <3>2
  <2>2. ASSUME NEW k \in Key, Deliver(k) PROVE Has(topic', id) \/ Has(queue', id) \/ id \in lost'
    <3>1. /\ Head(queue[k]) \in Record
          /\ Shrinks(queue, queue', k)
          /\ Grows(topic, topic', k, Head(queue[k]))
          /\ UNCHANGED <<lastEventIds, lost>>
      BY <2>2, DeliverStep
    <3>2. Has(queue, id) <=> Has(queue', id) \/ (id[1] = k /\ event_id(Head(queue[k])) = id)
      BY <2>0, <3>1, HasShrinks
    <3>3. Has(topic', id) <=> Has(topic, id) \/ (id[1] = k /\ event_id(Head(queue[k])) = id)
      BY <2>0, <3>1, HasGrows
    <3> QED BY <2>0, <3>1, <3>2, <3>3
  <2>3. ASSUME NEW k \in Key, DeliveryFails(k)
        PROVE  Has(topic', id) \/ Has(queue', id) \/ id \in lost'
    <3>1. /\ Shrinks(queue, queue', k)
          /\ lost' = lost \cup {event_id(Head(queue[k]))}
          /\ UNCHANGED <<lastEventIds, topic>>
      BY <2>3, DeliveryFailsStep
    <3>2. Has(queue, id) <=> Has(queue', id) \/ (id[1] = k /\ event_id(Head(queue[k])) = id)
      BY <2>0, <3>1, HasShrinks
    <3> QED BY <2>0, <3>1, <3>2
  <2>4. CASE Restart
    BY <2>4 DEF Restart
  <2>5. CASE UNCHANGED <<lastEventIds, queue, topic, lost>>
    BY <2>0, <2>5
  <2> QED BY <2>1, <2>2, <2>3, <2>4, <2>5, StepsOfNext DEF vars
<1> QED BY <1>1, <1>2, KafkaTypes, PTL DEF Spec

-----------------------------------------------------------------------------
(* Copies *)

OfId(id) == {r \in Record : event_id(r) = id}

\* The copies of an event are the records of its series that match it.
LEMMA CopiesAreMatching ==
  ASSUME NEW log \in Logs, NEW id \in EventId
  PROVE  /\ Copies(log, id) = Cardinality(Matching(log[id[1]], OfId(id)))
         /\ Copies(log, id) \in Nat
<1>1. log[id[1]] \in Seq(Record)
  BY DEF EventId, Logs
<1>2. {i \in DOMAIN log[id[1]] : event_id(log[id[1]][i]) = id} = Matching(log[id[1]], OfId(id))
  BY <1>1, ElementOfSeq, LenProperties DEF Matching, OfId
<1> QED BY <1>1, <1>2, MatchingFinite DEF Copies

\* An appended record is one more copy of its candle.
LEMMA CopiesGrow ==
  ASSUME NEW log \in Logs, NEW k \in Key, NEW id \in EventId,
         NEW r \in Record, NEW log2 \in Logs, Grows(log, log2, k, r)
  PROVE  /\ id[1] = k /\ event_id(r) = id => Copies(log2, id) = Copies(log, id) + 1
         /\ ~(id[1] = k /\ event_id(r) = id) => Copies(log2, id) = Copies(log, id)
<1>1. id[1] \in Key /\ log[id[1]] \in Seq(Record) /\ log[k] \in Seq(Record)
  BY DEF EventId, Logs
<1>3. log2[id[1]] = IF id[1] = k THEN Append(log[k], r) ELSE log[id[1]]
  BY <1>1 DEF Grows
<1>4. /\ Copies(log, id) = Cardinality(Matching(log[id[1]], OfId(id))) /\ Copies(log, id) \in Nat
      /\ Copies(log2, id) = Cardinality(Matching(log2[id[1]], OfId(id)))
  BY CopiesAreMatching
<1>5. r \in OfId(id) <=> event_id(r) = id
  BY DEF OfId
<1>6. CASE id[1] = k
  BY <1>1, <1>3, <1>4, <1>5, <1>6, MatchingAppend
<1>7. CASE id[1] # k
  BY <1>3, <1>4, <1>7
<1> QED BY <1>6, <1>7

\* The head that leaves is one copy less.
LEMMA CopiesShrink ==
  ASSUME NEW log \in Logs, NEW k \in Key, NEW id \in EventId,
         NEW log2 \in Logs, Shrinks(log, log2, k)
  PROVE  /\ Copies(log, id)
              = Copies(log2, id) + (IF id[1] = k /\ event_id(Head(log[k])) = id THEN 1 ELSE 0)
         /\ Copies(log2, id) \in Nat
<1>1. id[1] \in Key /\ log[id[1]] \in Seq(Record) /\ log[k] \in Seq(Record)
  BY DEF EventId, Logs
<1>2. Head(log[k]) \in Record /\ log[k] # << >>
  BY LogTyped DEF Shrinks, Logs
<1>3. log2[id[1]] = IF id[1] = k THEN Tail(log[k]) ELSE log[id[1]]
  BY <1>1 DEF Shrinks
<1>4. /\ Copies(log, id) = Cardinality(Matching(log[id[1]], OfId(id))) /\ Copies(log, id) \in Nat
      /\ Copies(log2, id) = Cardinality(Matching(log2[id[1]], OfId(id))) /\ Copies(log2, id) \in Nat
  BY CopiesAreMatching
<1>5. Head(log[k]) \in OfId(id) <=> event_id(Head(log[k])) = id
  BY <1>2 DEF OfId
<1>6. CASE id[1] = k
  BY <1>1, <1>2, <1>3, <1>4, <1>5, <1>6, MatchingTail
<1>7. CASE id[1] # k
  BY <1>3, <1>4, <1>7
<1> QED BY <1>4, <1>6, <1>7

\* The inductive form: a candle that may still be sent has at most one copy, in
\* the queue or in the topic, per restart; the mark accounts for one more.
CopiesAccounted ==
  \A id \in EventId :
    Copies(topic, id) + Copies(queue, id)
      <= restarts + (IF id \in lastEventIds THEN 1 ELSE 0)

\* A candle reaches the topic once, plus at most once per restart.
THEOREM KafkaCopies == Spec => []CopiesBoundedByRestarts
<1>1. Init => CopiesAccounted
  <2> SUFFICES ASSUME Init, NEW id \in EventId
               PROVE  /\ Copies(topic, id) = 0
                      /\ Copies(queue, id) = 0
    BY DEF Init, CopiesAccounted
  <2>1. id[1] \in Key
    BY DEF EventId
  <2>2. topic[id[1]] = << >> /\ queue[id[1]] = << >>
    BY <2>1 DEF Init
  <2>3. DOMAIN topic[id[1]] = {} /\ DOMAIN queue[id[1]] = {}
    BY <2>2
  <2> QED BY <2>3, FS_EmptySet DEF Copies
<1>2. TypeOK /\ TypeOK' /\ CopiesAccounted /\ [Next]_vars => CopiesAccounted'
  <2> SUFFICES ASSUME TypeOK, TypeOK', CopiesAccounted, [Next]_vars, NEW id \in EventId
               PROVE  Copies(topic', id) + Copies(queue', id)
                        <= restarts' + (IF id \in lastEventIds' THEN 1 ELSE 0)
    BY DEF CopiesAccounted, Copies, event_id
  <2>0. /\ queue \in Logs /\ queue' \in Logs
        /\ topic \in Logs /\ topic' \in Logs
        /\ restarts \in Nat
        /\ Copies(topic, id) + Copies(queue, id)
             <= restarts + (IF id \in lastEventIds THEN 1 ELSE 0)
        /\ Copies(topic, id) \in Nat /\ Copies(queue, id) \in Nat
    <3>1. /\ queue \in Logs /\ queue' \in Logs
          /\ topic \in Logs /\ topic' \in Logs
          /\ restarts \in Nat
      BY KafkaAssumption DEF TypeOK, KafkaAssumption, Logs
    <3>2. Copies(topic, id) \in Nat /\ Copies(queue, id) \in Nat
      BY <3>1, CopiesAreMatching
    <3> QED BY <3>1, <3>2 DEF CopiesAccounted
  <2>1. ASSUME NEW k \in Key, Publish(k)
        PROVE  Copies(topic', id) + Copies(queue', id)
                 <= restarts' + (IF id \in lastEventIds' THEN 1 ELSE 0)
    <3>1. PICK r \in Record :
            /\ event_id(r) \notin lastEventIds
            /\ Grows(queue, queue', k, r)
            /\ lastEventIds' = lastEventIds \cup {event_id(r)}
            /\ UNCHANGED <<topic, restarts>>
      BY <2>1, PublishStep
    <3> DEFINE queued == IF id[1] = k /\ event_id(r) = id THEN 1 ELSE 0
    <3>2. Copies(queue', id) = Copies(queue, id) + queued
      BY <2>0, <3>1, CopiesGrow
    <3> QED BY <2>0, <3>1, <3>2
  <2>2. ASSUME NEW k \in Key, Deliver(k)
        PROVE  Copies(topic', id) + Copies(queue', id)
                 <= restarts' + (IF id \in lastEventIds' THEN 1 ELSE 0)
    <3> DEFINE moved == IF id[1] = k /\ event_id(Head(queue[k])) = id THEN 1 ELSE 0
    <3>1. /\ Head(queue[k]) \in Record
          /\ Shrinks(queue, queue', k)
          /\ Grows(topic, topic', k, Head(queue[k]))
          /\ UNCHANGED <<lastEventIds, restarts>>
      BY <2>2, DeliverStep
    <3>2. Copies(queue, id) = Copies(queue', id) + moved /\ Copies(queue', id) \in Nat
      BY <2>0, <3>1, CopiesShrink
    <3>3. Copies(topic', id) = Copies(topic, id) + moved
      BY <2>0, <3>1, CopiesGrow
    <3> QED BY <2>0, <3>1, <3>2, <3>3
  <2>3. ASSUME NEW k \in Key, DeliveryFails(k)
        PROVE  Copies(topic', id) + Copies(queue', id)
                 <= restarts' + (IF id \in lastEventIds' THEN 1 ELSE 0)
    <3>1. Shrinks(queue, queue', k) /\ UNCHANGED <<lastEventIds, topic, restarts>>
      BY <2>3, DeliveryFailsStep
    <3> DEFINE dropped == IF id[1] = k /\ event_id(Head(queue[k])) = id THEN 1 ELSE 0
    <3>2. Copies(queue, id) = Copies(queue', id) + dropped /\ Copies(queue', id) \in Nat
      BY <2>0, <3>1, CopiesShrink
    <3> QED BY <2>0, <3>1, <3>2
  <2>4. ASSUME Restart
        PROVE  Copies(topic', id) + Copies(queue', id)
                 <= restarts' + (IF id \in lastEventIds' THEN 1 ELSE 0)
    <3>1. /\ queue' = [k \in Key |-> << >>] /\ topic' = topic
          /\ restarts' = restarts + 1 /\ lastEventIds' = {}
      BY <2>4 DEF Restart
    <3>2. DOMAIN queue'[id[1]] = {}
      BY <3>1 DEF EventId
    <3>3. Copies(queue', id) = 0
      BY <3>2, FS_EmptySet DEF Copies
    <3> QED BY <2>0, <3>1, <3>3
  <2>5. CASE UNCHANGED <<lastEventIds, queue, topic, restarts>>
    BY <2>0, <2>5
  <2> QED BY <2>1, <2>2, <2>3, <2>4, <2>5, StepsOfNext DEF vars
<1>3. TypeOK /\ CopiesAccounted => CopiesBoundedByRestarts
  <2> SUFFICES ASSUME TypeOK, CopiesAccounted, NEW id \in EventId
               PROVE  Copies(topic, id) + Copies(queue, id) <= 1 + restarts
    BY DEF CopiesBoundedByRestarts
  <2>1. restarts \in Nat /\ Copies(topic, id) \in Nat /\ Copies(queue, id) \in Nat
    BY CopiesAreMatching, KafkaAssumption DEF TypeOK, KafkaAssumption, Logs
  <2> QED BY <2>1 DEF CopiesAccounted
<1> QED BY <1>1, <1>2, <1>3, KafkaTypes, PTL DEF Spec

-----------------------------------------------------------------------------
(* The order of the topic *)

InOrder(s) ==
  \A i, j \in DOMAIN s : i < j /\ s[i].final /\ s[j].final => s[i].candle <= s[j].candle

\* Every final candle of s is at most n.
UpTo(s, n) == \A i \in DOMAIN s : s[i].final => s[i].candle <= n

\* Every final candle of s is at most every one of t.
Before(s, t) == \A j \in DOMAIN t : t[j].final => UpTo(s, t[j].candle)

\* The positions and records of a log that grew.
LEMMA AppendPositions ==
  ASSUME NEW s \in Seq(Record), NEW r \in Record
  PROVE  /\ Len(s) \in Nat /\ DOMAIN s = 1 .. Len(s)
         /\ DOMAIN Append(s, r) = 1 .. Len(s) + 1
         /\ \A i \in DOMAIN Append(s, r) :
              \/ i \in DOMAIN s /\ Append(s, r)[i] = s[i]
              \/ i = Len(s) + 1 /\ Append(s, r)[i] = r
<1>1. Len(s) \in Nat /\ DOMAIN s = 1 .. Len(s) /\ Append(s, r) \in Seq(Record)
  BY LenProperties, AppendProperties
<1>2. DOMAIN Append(s, r) = 1 .. Len(s) + 1
  BY <1>1, LenProperties, AppendProperties
<1>3. (\A i \in 1 .. Len(s) : Append(s, r)[i] = s[i]) /\ Append(s, r)[Len(s) + 1] = r
  BY AppendProperties
<1>4. \A i \in 1 .. Len(s) + 1 : i \in 1 .. Len(s) \/ i = Len(s) + 1
  BY <1>1
<1> QED BY <1>1, <1>2, <1>3, <1>4

\* A record that is not older than those before it keeps the order.
LEMMA GrownInOrder ==
  ASSUME NEW s \in Seq(Record), NEW r \in Record, InOrder(s), r.final => UpTo(s, r.candle)
  PROVE  /\ InOrder(Append(s, r))
         /\ \A n \in Int : UpTo(s, n) /\ (r.final => r.candle <= n) => UpTo(Append(s, r), n)
         /\ \A t : Before(t, s) /\ (r.final => UpTo(t, r.candle)) => Before(t, Append(s, r))
<1> DEFINE longer == Append(s, r)
           n == Len(s) + 1
<1>1. /\ Len(s) \in Nat /\ DOMAIN s = 1 .. Len(s) /\ DOMAIN longer = 1 .. n
      /\ \A i \in DOMAIN longer : (i \in DOMAIN s /\ longer[i] = s[i]) \/ (i = n /\ longer[i] = r)
  BY AppendPositions
<1> HIDE DEF longer
<1>2. InOrder(longer)
  <2> SUFFICES ASSUME NEW i \in DOMAIN longer, NEW j \in DOMAIN longer,
                      i < j, longer[i].final, longer[j].final
               PROVE  longer[i].candle <= longer[j].candle
    BY DEF InOrder
  <2>1. i \in DOMAIN s /\ longer[i] = s[i]
    BY <1>1
  <2>2. CASE j \in DOMAIN s /\ longer[j] = s[j]
    BY <2>1, <2>2 DEF InOrder
  <2>3. CASE j = n /\ longer[j] = r
    BY <2>1, <2>3 DEF UpTo
  <2> QED BY <1>1, <2>2, <2>3
<1>3. \A m \in Int : UpTo(s, m) /\ (r.final => r.candle <= m) => UpTo(longer, m)
  BY <1>1 DEF UpTo
<1>4. \A t : Before(t, s) /\ (r.final => UpTo(t, r.candle)) => Before(t, longer)
  BY <1>1, Zenon DEF Before
<1> QED BY <1>2, <1>3, <1>4 DEF longer

\* The rest of an ordered queue is in order, and its head comes before all of it.
LEMMA ShrunkInOrder ==
  ASSUME NEW s \in Seq(Record), s # << >>, InOrder(s)
  PROVE  /\ InOrder(Tail(s))
         /\ \A n \in Int : UpTo(s, n) =>
              UpTo(Tail(s), n) /\ (Head(s).final => Head(s).candle <= n)
         /\ \A t : Before(t, s) => Before(t, Tail(s)) /\ (Head(s).final => UpTo(t, Head(s).candle))
         /\ \A j \in DOMAIN Tail(s) :
              Head(s).final /\ Tail(s)[j].final => Head(s).candle <= Tail(s)[j].candle
<1> DEFINE left == Tail(s)
<1>1. /\ Len(s) \in Nat /\ Len(s) > 0 /\ DOMAIN s = 1 .. Len(s)
      /\ DOMAIN left = 1 .. Len(s) - 1
      /\ \A i \in 1 .. Len(s) - 1 : left[i] = s[i + 1]
      /\ Head(s) = s[1]
  BY LenProperties, EmptySeq, HeadTailProperties
<1> HIDE DEF left
<1>2. /\ 1 \in DOMAIN s
      /\ \A i \in DOMAIN left : i \in Int /\ i + 1 \in DOMAIN s /\ 1 < i + 1 /\ left[i] = s[i + 1]
  BY <1>1
<1>3. InOrder(left)
  BY <1>2 DEF InOrder
<1>4. \A n \in Int : UpTo(s, n) => UpTo(left, n) /\ (s[1].final => s[1].candle <= n)
  BY <1>2, Zenon DEF UpTo
<1>5. \A t : Before(t, s) => Before(t, left) /\ (s[1].final => UpTo(t, s[1].candle))
  BY <1>2, Zenon DEF Before
<1>6. \A j \in DOMAIN left : s[1].final /\ left[j].final => s[1].candle <= left[j].candle
  BY <1>2 DEF InOrder
<1>7. Head(s) = s[1]
  BY <1>1
<1> QED BY <1>3, <1>4, <1>5, <1>6, <1>7 DEF left

\* The inductive form, for one series: the topic, then the queue, then the candle
\* the market will close next.
OrderedUpTo(t, q, open) ==
  /\ InOrder(t) /\ InOrder(q) /\ Before(t, q)
  /\ UpTo(t, open - 1) /\ UpTo(q, open - 1)

MarketOrder == \A k \in Key : OrderedUpTo(topic[k], queue[k], openCandle[k])

\* A final candle that is queued is the last one closed, behind all others.
LEMMA QueuedInOrder ==
  ASSUME NEW t \in Seq(Record), NEW q \in Seq(Record), NEW open \in Int, NEW r \in Record,
         OrderedUpTo(t, q, open), r.final => r.candle = open - 1
  PROVE  OrderedUpTo(t, Append(q, r), open)
<1>1. /\ r.final => UpTo(q, r.candle) /\ UpTo(t, r.candle)
      /\ r.final => r.candle <= open - 1
      /\ open - 1 \in Int
  BY DEF OrderedUpTo
<1> QED BY <1>1, GrownInOrder DEF OrderedUpTo

\* The head of the queue is behind the topic and before the rest of the queue.
LEMMA DeliveredInOrder ==
  ASSUME NEW t \in Seq(Record), NEW q \in Seq(Record), NEW open \in Int, q # << >>,
         OrderedUpTo(t, q, open)
  PROVE  /\ OrderedUpTo(t, Tail(q), open)
         /\ OrderedUpTo(Append(t, Head(q)), Tail(q), open)
<1> DEFINE h == Head(q)
           l == Tail(q)
<1>1. h \in Record /\ open - 1 \in Int
  BY EmptySeq, ElementOfSeq, HeadTailProperties
<1>2. /\ InOrder(l) /\ UpTo(l, open - 1) /\ (h.final => h.candle <= open - 1)
      /\ Before(t, l) /\ (h.final => UpTo(t, h.candle))
      /\ \A j \in DOMAIN l : h.final /\ l[j].final => h.candle <= l[j].candle
  BY <1>1, ShrunkInOrder DEF OrderedUpTo
<1>3. InOrder(Append(t, h)) /\ UpTo(Append(t, h), open - 1)
  BY <1>1, <1>2, GrownInOrder DEF OrderedUpTo
<1>4. Before(Append(t, h), l)
  <2> HIDE DEF h, l
  <2> SUFFICES ASSUME NEW j \in DOMAIN l, l[j].final, NEW i \in DOMAIN Append(t, h),
                      Append(t, h)[i].final
               PROVE  Append(t, h)[i].candle <= l[j].candle
    BY DEF Before, UpTo
  <2>1. CASE i \in DOMAIN t /\ Append(t, h)[i] = t[i]
    BY <1>2, <2>1 DEF Before, UpTo
  <2>2. CASE Append(t, h)[i] = h
    BY <1>2, <2>2
  <2> QED BY <1>1, <2>1, <2>2, AppendPositions
<1> QED BY <1>2, <1>3, <1>4 DEF OrderedUpTo

\* The final candles of a series enter the topic in the order the market closed
\* them: over failures, restarts and any host clock, none overtakes another.
THEOREM KafkaOrder == Spec => []TopicInMarketOrder
<1>1. Init => MarketOrder
  <2> SUFFICES ASSUME Init, NEW k \in Key
               PROVE  OrderedUpTo(topic[k], queue[k], openCandle[k])
    BY DEF MarketOrder
  <2>1. DOMAIN topic[k] = {} /\ DOMAIN queue[k] = {}
    BY DEF Init
  <2> QED BY <2>1 DEF OrderedUpTo, InOrder, UpTo, Before
<1>2. TypeOK /\ TypeOK' /\ MarketOrder /\ [Next]_vars => MarketOrder'
  <2> SUFFICES ASSUME TypeOK, TypeOK', MarketOrder, [Next]_vars, NEW k \in Key
               PROVE  OrderedUpTo(topic'[k], queue'[k], openCandle'[k])
    BY DEF MarketOrder
  <2>0. /\ topic[k] \in Seq(Record) /\ queue[k] \in Seq(Record)
        /\ openCandle[k] \in Int /\ openCandle'[k] \in Int
        /\ OrderedUpTo(topic[k], queue[k], openCandle[k])
    BY FeedAssumption DEF TypeOK, MarketOrder
  <2>1. ASSUME NEW j \in Key, Publish(j)
        PROVE  OrderedUpTo(topic'[k], queue'[k], openCandle'[k])
    <3>1. PICK r \in Record :
            /\ r.final => r.candle = openCandle[j] - 1
            /\ Grows(queue, queue', j, r)
            /\ UNCHANGED <<openCandle, topic>>
      BY <2>1, PublishStep
    <3>2. CASE k = j
      BY <2>0, <3>1, <3>2, QueuedInOrder DEF Grows
    <3>3. CASE k # j
      BY <2>0, <3>1, <3>3 DEF Grows
    <3> QED BY <3>2, <3>3
  <2>2. ASSUME NEW j \in Key, Deliver(j)
        PROVE  OrderedUpTo(topic'[k], queue'[k], openCandle'[k])
    <3>1. /\ Shrinks(queue, queue', j)
          /\ Grows(topic, topic', j, Head(queue[j]))
          /\ openCandle' = openCandle
      BY <2>2, DeliverStep
    <3>2. CASE k = j
      BY <2>0, <3>1, <3>2, DeliveredInOrder DEF Grows, Shrinks
    <3>3. CASE k # j
      BY <2>0, <3>1, <3>3 DEF Grows, Shrinks
    <3> QED BY <3>2, <3>3
  <2>3. ASSUME NEW j \in Key, DeliveryFails(j)
        PROVE  OrderedUpTo(topic'[k], queue'[k], openCandle'[k])
    <3>1. Shrinks(queue, queue', j) /\ UNCHANGED <<openCandle, topic>>
      BY <2>3, DeliveryFailsStep
    <3>2. CASE k = j
      BY <2>0, <3>1, <3>2, DeliveredInOrder DEF Shrinks
    <3>3. CASE k # j
      BY <2>0, <3>1, <3>3 DEF Shrinks
    <3> QED BY <3>2, <3>3
  <2>4. CASE Restart
    <3>1. topic'[k] = topic[k] /\ openCandle'[k] = openCandle[k] /\ DOMAIN queue'[k] = {}
      BY <2>4 DEF Restart
    <3> QED BY <2>0, <3>1 DEF OrderedUpTo, InOrder, UpTo, Before
  <2>5. CASE UNCHANGED <<queue, topic, openCandle>>
    BY <2>0, <2>5
  <2>6. ASSUME UNCHANGED <<queue, topic>>, NEW j \in Key, CandleCloses(j)
        PROVE  OrderedUpTo(topic'[k], queue'[k], openCandle'[k])
    <3>1. openCandle[k] <= openCandle'[k]
      BY <2>6, OpenCandleTyped DEF TypeOK
    <3>2. \A s \in {topic[k], queue[k]} : UpTo(s, openCandle[k] - 1) => UpTo(s, openCandle'[k] - 1)
      <4> SUFFICES ASSUME NEW s \in {topic[k], queue[k]}, UpTo(s, openCandle[k] - 1),
                          NEW i \in DOMAIN s, s[i].final
                   PROVE  s[i].candle <= openCandle'[k] - 1
        BY DEF UpTo
      <4>1. s[i].candle \in Int
        <5>1. s \in Seq(Record)
          BY <2>0
        <5>2. s[i] \in Record
          BY <5>1, ElementOfSeq, LenProperties
        <5> QED BY <5>2, FeedAssumption DEF Record
      <4>2. s[i].candle <= openCandle[k] - 1
        BY DEF UpTo
      <4> QED BY <2>0, <3>1, <4>1, <4>2
    <3> QED BY <2>0, <2>6, <3>2 DEF OrderedUpTo
  <2> QED BY <2>1, <2>2, <2>3, <2>4, <2>5, <2>6, StepsOfNext DEF vars
<1>3. MarketOrder => TopicInMarketOrder
  BY DEF MarketOrder, OrderedUpTo, InOrder, TopicInMarketOrder
<1> QED BY <1>1, <1>2, <1>3, KafkaTypes, PTL DEF Spec
=============================================================================
