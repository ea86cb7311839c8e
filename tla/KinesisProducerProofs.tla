------------------------ MODULE KinesisProducerProofs ------------------------
(***************************************************************************)
(* KinesisProducer for every set of series, number of candles, batch size, *)
(* number of attempts, host clock and number of faults: its types, and     *)
(* what the stream holds of the candles a poll collected or marked.        *)
(***************************************************************************)
EXTENDS KinesisProducer, MarketFeedProofs

Logs == [Key -> Seq(Record)]

\* Whether, and how often, a log holds candle n.
Holds(log, n) == \E i \in DOMAIN log : log[i].candle = n
Count(log, n) == Cardinality({i \in DOMAIN log : log[i].candle = n})

OneAKey(A) == \A r, s \in A : r.key = s.key => r = s

-----------------------------------------------------------------------------
(* What Kinesis does with the records of a request *)

\* A record is counted a natural number of times.
LEMMA CountTyped ==
  ASSUME NEW log \in Seq(Record), NEW n
  PROVE  Count(log, n) \in Nat
<1>1. {i \in DOMAIN log : log[i].candle = n} \in SUBSET (1 .. Len(log))
  BY LenProperties
<1>2. IsFiniteSet(1 .. Len(log))
  BY LenProperties, FS_Interval
<1> QED BY <1>1, <1>2, FS_Subset, FS_CardinalityType DEF Count

\* A record appended to a log is held and counted there, and nothing else is.
LEMMA AppendHolds ==
  ASSUME NEW log \in Seq(Record), NEW r \in Record, NEW n
  PROVE  /\ Append(log, r) \in Seq(Record)
         /\ Holds(Append(log, r), n) <=> Holds(log, n) \/ r.candle = n
         /\ Count(log, n) \in Nat
         /\ Count(Append(log, r), n) = Count(log, n) + (IF r.candle = n THEN 1 ELSE 0)
<1> DEFINE R == {s \in Record : s.candle = n}
<1>1. Append(log, r) \in Seq(Record) /\ Append(log, r) # << >>
  BY AppendProperties
<1>2. /\ Len(log) \in Nat /\ DOMAIN log = 1 .. Len(log)
      /\ DOMAIN Append(log, r) = 1 .. Len(log) + 1
      /\ \A i \in 1 .. Len(log) : Append(log, r)[i] = log[i]
      /\ Append(log, r)[Len(log) + 1] = r
  BY LenProperties, AppendProperties, <1>1
<1>3. Holds(Append(log, r), n) <=> Holds(log, n) \/ r.candle = n
  <2>1. \A i \in 1 .. Len(log) + 1 : i \in 1 .. Len(log) \/ i = Len(log) + 1
    BY <1>2
  <2>2. Len(log) + 1 \in 1 .. Len(log) + 1 /\ \A i \in 1 .. Len(log) : i \in 1 .. Len(log) + 1
    BY <1>2
  <2> QED BY <1>2, <2>1, <2>2, Zenon DEF Holds
<1>4. ASSUME NEW s \in Seq(Record) PROVE Count(s, n) = Cardinality(Matching(s, R))
  <2>1. {i \in DOMAIN s : s[i].candle = n} = Matching(s, R)
    BY ElementOfSeq, LenProperties DEF Matching
  <2> QED BY <2>1 DEF Count
<1>5. r \in R <=> r.candle = n
  OBVIOUS
<1> HIDE DEF R
<1>6. Cardinality(Matching(log, R)) \in Nat
  BY MatchingFinite
<1>7. Cardinality(Matching(Append(log, r), R))
        = Cardinality(Matching(log, R)) + (IF r \in R THEN 1 ELSE 0)
  BY MatchingAppend
<1> QED BY <1>1, <1>3, <1>4, <1>5, <1>6, <1>7

\* Kinesis appends exactly the records of A, each to the log of its series.
LEMMA AcceptStep ==
  ASSUME stream \in Logs, NEW A \in SUBSET Record, OneAKey(A), Accept(A)
  PROVE  /\ stream' \in Logs
         /\ \A k \in Key, n \in 0 .. MaxCandle :
              /\ Holds(stream'[k], n) <=>
                   Holds(stream[k], n) \/ \E r \in A : event_id(r) = <<k, n>>
              /\ Count(stream[k], n) \in Nat
              /\ (\E r \in A : event_id(r) = <<k, n>>) =>
                   Count(stream'[k], n) = Count(stream[k], n) + 1
              /\ ~(\E r \in A : event_id(r) = <<k, n>>) =>
                   Count(stream'[k], n) = Count(stream[k], n)
<1>1. \A k \in Key : stream[k] \in Seq(Record)
  BY DEF Logs
<1>2. stream' = [k \in Key |-> IF \E r \in A : r.key = k
                                 THEN Append(stream[k], CHOOSE r \in A : r.key = k)
                                 ELSE stream[k]]
  BY DEF Accept
<1>3. ASSUME NEW k \in Key, NEW r \in A, r.key = k
      PROVE  stream'[k] = Append(stream[k], r)
  <2>1. (CHOOSE s \in A : s.key = k) = r
    BY <1>3 DEF OneAKey
  <2> QED BY <1>2, <1>3, <2>1
<1>4. ASSUME NEW k \in Key, ~\E r \in A : r.key = k
      PROVE  stream'[k] = stream[k]
  BY <1>2, <1>4
<1>5. \A r \in A, k \in Key, n \in 0 .. MaxCandle :
        event_id(r) = <<k, n>> <=> r.key = k /\ r.candle = n
  BY DEF event_id
<1>6. ASSUME NEW k \in Key
      PROVE  /\ stream'[k] \in Seq(Record)
             /\ \A n \in 0 .. MaxCandle :
                  /\ Holds(stream'[k], n) <=>
                       Holds(stream[k], n) \/ \E r \in A : event_id(r) = <<k, n>>
                  /\ Count(stream[k], n) \in Nat
                  /\ (\E r \in A : event_id(r) = <<k, n>>) =>
                       Count(stream'[k], n) = Count(stream[k], n) + 1
                  /\ ~(\E r \in A : event_id(r) = <<k, n>>) =>
                       Count(stream'[k], n) = Count(stream[k], n)
  <2>0. \A n : Count(stream[k], n) \in Nat
    BY <1>1, CountTyped
  <2>1. CASE \E r \in A : r.key = k
    <3>1. PICK r \in A : r.key = k
      BY <2>1
    <3>2. stream'[k] = Append(stream[k], r) /\ r \in Record
      BY <1>3, <3>1
    <3>3. ASSUME NEW n \in 0 .. MaxCandle
          PROVE  (\E s \in A : event_id(s) = <<k, n>>) <=> r.candle = n
      BY <1>5, <3>1 DEF OneAKey
    <3>4. Append(stream[k], r) \in Seq(Record)
      BY <1>1, <3>2, AppendHolds
    <3>5. ASSUME NEW n \in 0 .. MaxCandle
          PROVE  /\ Holds(Append(stream[k], r), n) <=> Holds(stream[k], n) \/ r.candle = n
                 /\ Count(Append(stream[k], r), n)
                      = Count(stream[k], n) + (IF r.candle = n THEN 1 ELSE 0)
      BY <1>1, <3>2, AppendHolds
    <3> QED BY <2>0, <3>2, <3>3, <3>4, <3>5
  <2>2. CASE ~\E r \in A : r.key = k
    <3>1. stream'[k] = stream[k]
      BY <1>4, <2>2
    <3>2. \A n \in 0 .. MaxCandle : ~\E r \in A : event_id(r) = <<k, n>>
      BY <1>5, <2>2
    <3> QED BY <1>1, <2>0, <3>1, <3>2
  <2> QED BY <2>1, <2>2
<1>7. stream' \in Logs
  BY <1>2, <1>6 DEF Logs
<1> QED BY <1>6, <1>7

-----------------------------------------------------------------------------
(* The steps, by what they do to the stream *)

\* The requests of a poll go on: Kinesis takes A, the rest is still to be sent.
GoesOn(A) ==
  /\ phase = "publish" /\ phase' = "publish"
  /\ A \in SUBSET pending /\ Accept(A)
  /\ pending' \cup rest' = (pending \cup rest) \ A
  /\ pending' \cap rest' = {}
  /\ UNCHANGED <<openCandle, lastEventIds, todo, records, faults>>

\* The poll is given up: Kinesis may have taken A, nothing is marked.
GivenUp(A) ==
  /\ phase = "publish"
  /\ A \in SUBSET pending /\ Accept(A)
  /\ Sleep
  /\ faults' = faults + 1 /\ faults < MaxFaults
  /\ UNCHANGED <<openCandle, lastEventIds>>

\* The client sends a request again of which Kinesis has taken A.
SentAgain(A) ==
  /\ phase = "publish"
  /\ A \in SUBSET pending /\ Accept(A)
  /\ faults' = faults + 1 /\ faults < MaxFaults
  /\ UNCHANGED <<openCandle, lastEventIds, phase, todo, records, rest, pending>>

\* Nothing is sent: a poll begins, ends empty, or hands over what it collected.
Quiet ==
  /\ UNCHANGED <<lastEventIds, stream, faults>>
  /\ \/ phase' = "fetch" /\ records' = {} /\ todo' = Key /\ pending' = {} /\ rest' = {}
        /\ phase # "publish" /\ openCandle' = openCandle
     \/ Sleep /\ phase = "fetch" /\ openCandle' = openCandle
     \/ /\ phase = "fetch" /\ phase' = "publish"
        /\ pending' \cup rest' = records /\ pending' \cap rest' = {}
        /\ UNCHANGED <<records, todo, openCandle>>
     \/ /\ phase = "fetch" /\ \E k \in Key : todo' = todo \ {k}
        /\ UNCHANGED <<phase, records, rest, pending, openCandle>>
     \/ /\ UNCHANGED <<phase, todo, records, rest, pending>>
        /\ openCandle' = openCandle \/ \E k \in Key : CandleCloses(k)

\* A batch is taken from what is left to send, and the rest stays.
LEMMA BatchTaken ==
  ASSUME NEW from, NextBatch(from)
  PROVE  /\ pending' \cup rest' = from /\ pending' \cap rest' = {}
         /\ attempt' = 1
BY DEF NextBatch

\* Every step is one of the producer's on its records, or sends nothing.
LEMMA StepsOfNext ==
  ASSUME Next, pending \cap rest = {}
  PROVE  \/ \E k \in Key : Fetch(k)
         \/ \E A \in SUBSET pending : GoesOn(A)
         \/ PollPublished
         \/ \E A \in SUBSET pending : GivenUp(A)
         \/ \E A \in SUBSET pending : SentAgain(A)
         \/ Restart
         \/ Quiet
<1>1. ASSUME NEW k \in Key, FetchFails(k) PROVE Quiet
  BY <1>1 DEF FetchFails, Quiet
<1>2. CASE StartPublishing
  BY <1>2, BatchTaken DEF StartPublishing, Quiet
<1>3. CASE NothingToPublish
  BY <1>3 DEF NothingToPublish, Quiet
<1>4. CASE BatchAccepted
  BY <1>4, BatchTaken DEF BatchAccepted, GoesOn
<1>5. CASE PartlyRejected
  <2>1. PICK failed \in (SUBSET pending) \ {{}} : Accept(pending \ failed) /\ pending' = failed
    BY <1>5 DEF PartlyRejected
  <2>2. GoesOn(pending \ failed)
    BY <1>5, <2>1 DEF PartlyRejected, GoesOn
  <2> QED BY <2>2
<1>6. CASE AttemptsExhausted
  <2>1. PICK failed \in (SUBSET pending) \ {{}} : Accept(pending \ failed)
    BY <1>6 DEF AttemptsExhausted
  <2>2. GivenUp(pending \ failed)
    BY <1>6, <2>1 DEF AttemptsExhausted, GivenUp
  <2> QED BY <2>2
<1>7. CASE PutRaises
  BY <1>7 DEF PutRaises, GivenUp
<1>8. CASE WakeUp
  BY <1>8 DEF WakeUp, NewPoll, Quiet
<1>9. ASSUME NEW k \in Key, MarketMoves(k) PROVE Quiet
  BY <1>9 DEF MarketMoves, poll, Quiet
<1>10. CASE ClientResends
  BY <1>10 DEF ClientResends, SentAgain, poll
<1> QED BY <1>1, <1>2, <1>3, <1>4, <1>5, <1>6, <1>7, <1>8, <1>9, <1>10 DEF Next, Loop

\* A record that is fetched for k is of k, and its candle is not marked.
LEMMA FetchStep ==
  ASSUME openCandle \in [Key -> 0 .. MaxCandle], NEW k \in Key, Fetch(k)
  PROVE  \/ records' = records
         \/ \E r \in Record : /\ records' = records \cup {r}
                              /\ r.key = k /\ event_id(r) \notin lastEventIds
<1>1. PICK clock \in HostClock :
        records' = IF event_id(FetchLatest(k, clock)) \in lastEventIds
                     THEN records ELSE records \cup {FetchLatest(k, clock)}
  BY DEF Fetch
<1> QED BY <1>1, FetchLatestTyped

-----------------------------------------------------------------------------
(* Types and the shape of a poll *)

\* The retries of a batch never exceed MaxAttempts.
LEMMA AttemptTyped ==
  ASSUME Next, attempt \in 1 .. MaxAttempts
  PROVE  attempt' \in 1 .. MaxAttempts
<1>1. 1 \in 1 .. MaxAttempts /\ (attempt < MaxAttempts => attempt + 1 \in 1 .. MaxAttempts)
  BY KinesisAssumption DEF KinesisAssumption
<1>2. attempt' = 1 \/ (attempt < MaxAttempts /\ attempt' = attempt + 1) \/ attempt' = attempt
  BY BatchTaken DEF Next, Loop, Fetch, FetchFails, StartPublishing, NothingToPublish, BatchAccepted,
       PollPublished, PartlyRejected, AttemptsExhausted, PutRaises, ClientResends, WakeUp, Restart, MarketMoves,
       NewPoll, Sleep, poll
<1> QED BY <1>1, <1>2

\* The records of a poll are of different series, none of them fetched again in
\* it or marked; what is to be sent is split between a batch and the rest.
PollShape ==
  /\ OneAKey(records)
  /\ phase = "fetch" => \A r \in records : r.key \notin todo
  /\ phase # "publish" => pending = {} /\ rest = {}
  /\ phase = "sleep" => records = {}
  /\ pending \cap rest = {}
  /\ \A r \in records : event_id(r) \notin lastEventIds

TypedPoll == TypeOK /\ PollShape

\* Nothing but the records of the poll reaches the stream.
LEMMA AcceptTyped ==
  ASSUME TypedPoll, NEW A \in SUBSET pending
  PROVE  stream \in Logs /\ A \in SUBSET Record /\ OneAKey(A)
BY DEF TypedPoll, TypeOK, PollShape, OneAKey, Logs

\* The shape of a poll is preserved by every step.
LEMMA PollStaysTyped == TypedPoll /\ [Next]_vars => TypedPoll'
<1> SUFFICES ASSUME TypedPoll, [Next]_vars
             PROVE  TypedPoll'
  OBVIOUS
<1>0. /\ openCandle \in [Key -> 0 .. MaxCandle] /\ lastEventIds \subseteq EventId
      /\ phase \in {"fetch", "publish", "sleep"}
      /\ todo \subseteq Key /\ records \subseteq Record
      /\ rest \subseteq records /\ pending \subseteq records
      /\ attempt \in 1 .. MaxAttempts /\ stream \in Logs /\ faults \in 0 .. MaxFaults
      /\ OneAKey(records)
      /\ phase = "fetch" => \A r \in records : r.key \notin todo
      /\ phase # "publish" => pending = {} /\ rest = {}
      /\ phase = "sleep" => records = {}
      /\ pending \cap rest = {}
      /\ \A r \in records : event_id(r) \notin lastEventIds
  BY DEF TypedPoll, TypeOK, PollShape, Logs
<1>1. CASE UNCHANGED vars
  BY <1>1 DEF vars, TypedPoll, TypeOK, PollShape
<1>2. CASE Next
  <2>0. attempt' \in 1 .. MaxAttempts
    BY <1>0, <1>2, AttemptTyped
  <2>a. \A r \in records : event_id(r) \in EventId
    BY <1>0 DEF event_id, EventId, Record
  <2>b. faults < MaxFaults => faults + 1 \in 0 .. MaxFaults
    BY <1>0, KinesisAssumption DEF KinesisAssumption
  <2>1. ASSUME NEW k \in Key, Fetch(k) PROVE TypedPoll'
    <3>1. /\ records' \subseteq Record /\ records \subseteq records'
          /\ \A r \in records' : r \in records \/ (r.key = k /\ event_id(r) \notin lastEventIds)
          /\ records' = records \/ \E r \in Record : records' = records \cup {r} /\ r.key = k
      BY <1>0, <2>1, FetchStep
    <3>2. /\ phase = "fetch" /\ k \in todo /\ todo' = todo \ {k}
          /\ UNCHANGED <<openCandle, lastEventIds, phase, rest, pending, stream, faults>>
      BY <2>1 DEF Fetch
    <3>3. OneAKey(records')
      BY <1>0, <3>1, <3>2 DEF OneAKey
    <3>4. \A r \in records' : r.key \notin todo'
      BY <1>0, <3>1, <3>2
    <3> QED BY <1>0, <2>0, <3>1, <3>2, <3>3, <3>4 DEF TypedPoll, TypeOK, PollShape, Logs
  <2>2. ASSUME NEW A \in SUBSET pending, GoesOn(A) PROVE TypedPoll'
    <3>1. stream' \in Logs
      BY <2>2, AcceptTyped, AcceptStep DEF GoesOn
    <3> QED BY <1>0, <2>0, <2>2, <3>1 DEF GoesOn, TypedPoll, TypeOK, PollShape, Logs
  <2>3. CASE PollPublished
    <3>1. stream' \in Logs
      BY <2>3, AcceptTyped, AcceptStep DEF PollPublished
    <3> QED BY <1>0, <2>0, <2>a, <2>3, <3>1
            DEF PollPublished, Sleep, TypedPoll, TypeOK, PollShape, OneAKey, Logs
  <2>4. ASSUME NEW A \in SUBSET pending, GivenUp(A) PROVE TypedPoll'
    <3>1. stream' \in Logs
      BY <2>4, AcceptTyped, AcceptStep DEF GivenUp
    <3> QED BY <1>0, <2>0, <2>b, <2>4, <3>1
            DEF GivenUp, Sleep, TypedPoll, TypeOK, PollShape, OneAKey, Logs
  <2>5. CASE Restart
    BY <1>0, <2>0, <2>b, <2>5 DEF Restart, NewPoll, TypedPoll, TypeOK, PollShape, OneAKey, Logs
  <2>6. CASE Quiet
    <3>1. openCandle' \in [Key -> 0 .. MaxCandle]
      BY <1>0, <2>6, FeedAssumption DEF Quiet, CandleCloses, Sleep
    <3> QED BY <1>0, <2>0, <2>6, <3>1 DEF Quiet, Sleep, TypedPoll, TypeOK, PollShape, OneAKey, Logs
  <2>7. ASSUME NEW A \in SUBSET pending, SentAgain(A) PROVE TypedPoll'
    <3>1. stream' \in Logs
      BY <2>7, AcceptTyped, AcceptStep DEF SentAgain
    <3> QED BY <1>0, <2>0, <2>b, <2>7, <3>1
            DEF SentAgain, TypedPoll, TypeOK, PollShape, OneAKey, Logs
  <2> QED BY <1>0, <1>2, <2>1, <2>2, <2>3, <2>4, <2>5, <2>6, <2>7, StepsOfNext
<1> QED BY <1>1, <1>2

\* The shape of a poll holds at the start.
LEMMA TypedFromInit == Init => TypedPoll
<1> SUFFICES ASSUME Init PROVE TypedPoll
  OBVIOUS
<1>1. openCandle \in [Key -> 0 .. MaxCandle]
  BY FeedAssumption DEF Init, FeedInit
<1>2. << >> \in Seq(Record)
  BY EmptySeq
<1> QED BY <1>1, <1>2, KinesisAssumption
        DEF KinesisAssumption, Init, TypedPoll, TypeOK, PollShape, OneAKey

\* The shape of a poll always holds.
LEMMA PollInvariant == Spec => []TypedPoll
BY TypedFromInit, PollStaysTyped, PTL DEF Spec

\* The state of the producer keeps its types: what it collects, sends and marks,
\* and what the stream holds, are candles the market had opened.
THEOREM KinesisTypes == Spec => []TypeOK
<1>1. TypedPoll => TypeOK
  BY DEF TypedPoll
<1> QED BY <1>1, PollInvariant, PTL

-----------------------------------------------------------------------------
(* Nothing dropped, nothing marked that is missing *)

\* The records Kinesis took are in the stream, and what was there stays there.
LEMMA AcceptKeeps ==
  ASSUME TypedPoll, NEW A \in SUBSET pending, Accept(A)
  PROVE  /\ \A id \in EventId : Holds(stream[id[1]], id[2]) => Holds(stream'[id[1]], id[2])
         /\ \A r \in records : \/ Holds(stream[r.key], r.candle)
                              \/ r \in A
                              => Holds(stream'[r.key], r.candle)
<1>1. \A k \in Key, n \in 0 .. MaxCandle :
        Holds(stream'[k], n) <=> Holds(stream[k], n) \/ \E r \in A : event_id(r) = <<k, n>>
  BY AcceptTyped, AcceptStep
<1>2. \A id \in EventId : id[1] \in Key /\ id[2] \in 0 .. MaxCandle
  BY DEF EventId
<1>3. \A r \in records : /\ r.key \in Key /\ r.candle \in 0 .. MaxCandle
                         /\ event_id(r) = <<r.key, r.candle>>
  BY DEF TypedPoll, TypeOK, Record, event_id
<1> QED BY <1>1, <1>2, <1>3

AllThere ==
  /\ \A id \in lastEventIds : Holds(stream[id[1]], id[2])
  /\ phase = "publish" =>
       \A r \in records : r \in pending \cup rest \/ Holds(stream[r.key], r.candle)

\* No step marks or drops a record the stream does not have.
LEMMA AllThereStep == TypedPoll /\ AllThere /\ [Next]_vars => AllThere'
<1> SUFFICES ASSUME TypedPoll, AllThere, [Next]_vars
             PROVE  AllThere'
  OBVIOUS
<1>0. /\ lastEventIds \subseteq EventId /\ records \subseteq Record
      /\ pending \cap rest = {} /\ pending \subseteq records
  BY DEF TypedPoll, TypeOK, PollShape
<1>1. ASSUME NEW k \in Key, Fetch(k) PROVE AllThere'
  BY <1>1 DEF Fetch, AllThere
<1>2. ASSUME NEW A \in SUBSET pending, GoesOn(A) PROVE AllThere'
  BY <1>0, <1>2, AcceptKeeps DEF GoesOn, AllThere
<1>3. CASE PollPublished
  <2>1. /\ phase = "publish" /\ rest = {} /\ Accept(pending)
        /\ lastEventIds' = lastEventIds \cup {event_id(r) : r \in records}
        /\ phase' = "sleep"
    BY <1>3 DEF PollPublished, Sleep
  <2>2. \A id \in lastEventIds : Holds(stream'[id[1]], id[2])
    BY <1>0, <2>1, AcceptKeeps DEF AllThere
  <2>3. \A r \in records : Holds(stream'[r.key], r.candle)
    BY <2>1, AcceptKeeps DEF AllThere
  <2>4. \A r \in records : event_id(r)[1] = r.key /\ event_id(r)[2] = r.candle
    BY DEF event_id
  <2> QED BY <2>1, <2>2, <2>3, <2>4 DEF AllThere
<1>4. ASSUME NEW A \in SUBSET pending, GivenUp(A) PROVE AllThere'
  BY <1>0, <1>4, AcceptKeeps DEF GivenUp, Sleep, AllThere
<1>5. CASE Restart
  BY <1>5 DEF Restart, NewPoll, AllThere
<1>6. CASE Quiet
  BY <1>6 DEF Quiet, Sleep, AllThere
<1>7. CASE UNCHANGED vars
  BY <1>7 DEF vars, AllThere
<1>8. ASSUME NEW A \in SUBSET pending, SentAgain(A) PROVE AllThere'
  BY <1>0, <1>8, AcceptKeeps DEF SentAgain, AllThere
<1> QED BY <1>0, <1>1, <1>2, <1>3, <1>4, <1>5, <1>6, <1>7, <1>8, StepsOfNext

\* Marked records are always in the stream, and no record of a poll is dropped.
LEMMA AllThereInvariant == Spec => []AllThere
<1>1. Init => AllThere
  BY DEF Init, AllThere
<1> QED BY <1>1, AllThereStep, PollInvariant, PTL DEF Spec

\* A marked candle is one Kinesis took: neither partial rejections nor exhausted
\* retries nor errors mark a record the stream does not hold.
THEOREM KinesisMarks == Spec => []MarkedWereAccepted
<1>1. AllThere => MarkedWereAccepted
  BY DEF AllThere, Holds, MarkedWereAccepted, Accepted
<1> QED BY <1>1, AllThereInvariant, PTL

\* While a poll is published, no batch boundary and no retry drops a record.
THEOREM KinesisKeepsAll == Spec => []NothingDropped
<1>1. AllThere => NothingDropped
  BY DEF AllThere, Holds, NothingDropped, Accepted
<1> QED BY <1>1, AllThereInvariant, PTL

-----------------------------------------------------------------------------
(* Copies *)

\* What this poll has put in the stream and not marked yet.
Sent == IF phase = "publish" THEN records \ (pending \cup rest) ELSE {}

\* The inductive form: one copy per fault, and one more for a candle that is
\* marked, or that this poll already sent and does not send again.
Bound(k, n, marked, sent, f) ==
  f + (IF <<k, n>> \in marked \/ \E r \in sent : event_id(r) = <<k, n>> THEN 1 ELSE 0)

CopiesAccounted ==
  \A k \in Key, n \in 0 .. MaxCandle :
    Count(stream[k], n) <= Bound(k, n, lastEventIds, Sent, faults)

\* A request that goes to Kinesis holds no candle that is marked or sent before.
LEMMA RequestIsNew ==
  ASSUME TypedPoll, phase = "publish", NEW r \in pending
  PROVE  event_id(r) \notin lastEventIds /\ \A s \in Sent : event_id(s) # event_id(r)
<1>1. r \in records /\ OneAKey(records) /\ event_id(r) \notin lastEventIds
  BY DEF TypedPoll, TypeOK, PollShape
<1>2. ASSUME NEW s \in Sent, event_id(s) = event_id(r) PROVE FALSE
  <2>1. s \in records /\ s \notin pending /\ s.key = r.key
    BY <1>2 DEF Sent, event_id
  <2> QED BY <1>1, <2>1 DEF OneAKey
<1> QED BY <1>1, <1>2

\* So an accepted request adds a copy only where the bound has room for it.
LEMMA RequestFits ==
  ASSUME TypedPoll, CopiesAccounted, phase = "publish", NEW A \in SUBSET pending, Accept(A),
         NEW k \in Key, NEW n \in 0 .. MaxCandle, faults \in Nat
  PROVE  /\ Count(stream'[k], n) \in Nat
         /\ (\E r \in A : event_id(r) = <<k, n>>) => Count(stream'[k], n) <= faults + 1
         /\ ~(\E r \in A : event_id(r) = <<k, n>>) =>
               Count(stream'[k], n) <= Bound(k, n, lastEventIds, Sent, faults)
<1>1. /\ Count(stream[k], n) \in Nat
      /\ (\E r \in A : event_id(r) = <<k, n>>) => Count(stream'[k], n) = Count(stream[k], n) + 1
      /\ ~(\E r \in A : event_id(r) = <<k, n>>) => Count(stream'[k], n) = Count(stream[k], n)
  BY AcceptTyped, AcceptStep
<1>2. Count(stream[k], n) <= Bound(k, n, lastEventIds, Sent, faults)
  BY DEF CopiesAccounted
<1>3. CASE \E r \in A : event_id(r) = <<k, n>>
  <2>1. <<k, n>> \notin lastEventIds /\ \A s \in Sent : event_id(s) # <<k, n>>
    BY <1>3, RequestIsNew
  <2>2. Bound(k, n, lastEventIds, Sent, faults) = faults
    BY <2>1 DEF Bound
  <2> QED BY <1>1, <1>2, <1>3, <2>2
<1>4. CASE ~\E r \in A : event_id(r) = <<k, n>>
  BY <1>1, <1>2, <1>4
<1> QED BY <1>3, <1>4

\* The bound of a candle the step leaves alone does not shrink.
LEMMA QuietFits ==
  ASSUME NEW k, NEW n, NEW f \in Nat, NEW marked, NEW sent, NEW marked2, NEW sent2,
         <<k, n>> \in marked => <<k, n>> \in marked2 \/ \E r \in sent2 : event_id(r) = <<k, n>>,
         \A r \in sent : event_id(r) \in marked2 \/ r \in sent2
  PROVE  Bound(k, n, marked, sent, f) <= Bound(k, n, marked2, sent2, f)
<1>1. CASE <<k, n>> \in marked \/ \E r \in sent : event_id(r) = <<k, n>>
  <2>1. <<k, n>> \in marked2 \/ \E r \in sent2 : event_id(r) = <<k, n>>
    BY <1>1
  <2> QED BY <1>1, <2>1 DEF Bound
<1>2. CASE ~(<<k, n>> \in marked \/ \E r \in sent : event_id(r) = <<k, n>>)
  BY <1>2 DEF Bound
<1> QED BY <1>1, <1>2

\* The bound on the copies of a candle is a natural number.
LEMMA BoundTyped ==
  ASSUME NEW k, NEW n, NEW f \in Nat, NEW marked, NEW sent
  PROVE  /\ Bound(k, n, marked, sent, f) \in Nat
         /\ f <= Bound(k, n, marked, sent, f) /\ Bound(k, n, marked, sent, f) <= f + 1
         /\ <<k, n>> \in marked \/ (\E r \in sent : event_id(r) = <<k, n>>) =>
              Bound(k, n, marked, sent, f) = f + 1
BY DEF Bound

\* The accounting of copies is preserved by every step.
LEMMA CopiesStep == TypedPoll /\ TypedPoll' /\ CopiesAccounted /\ [Next]_vars => CopiesAccounted'
<1> SUFFICES ASSUME TypedPoll, TypedPoll', CopiesAccounted, [Next]_vars,
                    NEW k \in Key, NEW n \in 0 .. MaxCandle
             PROVE  Count(stream'[k], n) <= Bound(k, n, lastEventIds', Sent', faults')
  BY DEF CopiesAccounted, Bound, Count, event_id
<1>0. /\ faults \in Nat /\ faults' \in Nat
      /\ stream \in Logs /\ Count(stream[k], n) \in Nat
      /\ Count(stream[k], n) <= Bound(k, n, lastEventIds, Sent, faults)
      /\ pending \subseteq records /\ rest \subseteq records /\ pending \cap rest = {}
  <2>1. /\ faults \in Nat /\ faults' \in Nat /\ stream \in Logs
        /\ pending \subseteq records /\ rest \subseteq records /\ pending \cap rest = {}
    BY KinesisAssumption DEF TypedPoll, TypeOK, PollShape, Logs, KinesisAssumption
  <2>2. stream[k] \in Seq(Record)
    BY <2>1 DEF Logs
  <2> QED BY <2>1, <2>2, CountTyped DEF CopiesAccounted
<1>a. /\ Bound(k, n, lastEventIds, Sent, faults) \in Nat
      /\ Bound(k, n, lastEventIds, Sent, faults) <= faults + 1
      /\ Bound(k, n, lastEventIds', Sent', faults') \in Nat
      /\ faults' <= Bound(k, n, lastEventIds', Sent', faults')
  BY <1>0, BoundTyped
<1>1. ASSUME NEW j \in Key, Fetch(j) PROVE Count(stream'[k], n) <= Bound(k, n, lastEventIds', Sent', faults')
  <2>1. UNCHANGED <<stream, faults, lastEventIds>> /\ Sent' = Sent
    BY <1>1 DEF Fetch, Sent
  <2> QED BY <1>0, <2>1
<1>2. ASSUME NEW A \in SUBSET pending, GoesOn(A)
      PROVE  Count(stream'[k], n) <= Bound(k, n, lastEventIds', Sent', faults')
  <2>1. /\ phase = "publish" /\ Accept(A)
        /\ UNCHANGED <<lastEventIds, faults>>
        /\ Sent' = Sent \cup A
    BY <1>0, <1>2 DEF GoesOn, Sent
  <2>2. CASE \E r \in A : event_id(r) = <<k, n>>
    <3>1. Count(stream'[k], n) <= faults + 1 /\ Count(stream'[k], n) \in Nat
      BY <1>0, <2>1, <2>2, RequestFits
    <3>2. Bound(k, n, lastEventIds', Sent', faults') = faults + 1
      BY <1>0, <2>1, <2>2, BoundTyped
    <3> QED BY <3>1, <3>2
  <2>3. CASE ~\E r \in A : event_id(r) = <<k, n>>
    <3>1. Count(stream'[k], n) <= Bound(k, n, lastEventIds, Sent, faults) /\ Count(stream'[k], n) \in Nat
      BY <1>0, <2>1, <2>3, RequestFits
    <3>2. Bound(k, n, lastEventIds, Sent, faults) <= Bound(k, n, lastEventIds', Sent', faults')
      BY <1>0, <2>1, QuietFits
    <3> QED BY <1>a, <3>1, <3>2
  <2> QED BY <2>2, <2>3
<1>3. CASE PollPublished
  <2>1. /\ phase = "publish" /\ rest = {} /\ Accept(pending) /\ faults' = faults
        /\ lastEventIds' = lastEventIds \cup {event_id(r) : r \in records}
    BY <1>3 DEF PollPublished, Sleep
  <2>2. CASE \E r \in pending : event_id(r) = <<k, n>>
    <3>1. Count(stream'[k], n) <= faults + 1 /\ Count(stream'[k], n) \in Nat
      BY <1>0, <2>1, <2>2, RequestFits
    <3>2. <<k, n>> \in lastEventIds'
      BY <1>0, <2>1, <2>2
    <3>3. Bound(k, n, lastEventIds', Sent', faults') = faults + 1
      BY <1>0, <2>1, <3>2, BoundTyped
    <3> QED BY <3>1, <3>3
  <2>3. CASE ~\E r \in pending : event_id(r) = <<k, n>>
    <3>1. Count(stream'[k], n) <= Bound(k, n, lastEventIds, Sent, faults) /\ Count(stream'[k], n) \in Nat
      BY <1>0, <2>1, <2>3, RequestFits
    <3>2. Sent \subseteq records
      BY DEF Sent
    <3>3. Bound(k, n, lastEventIds, Sent, faults) <= Bound(k, n, lastEventIds', Sent', faults')
      BY <1>0, <2>1, <3>2, QuietFits
    <3> QED BY <1>a, <3>1, <3>3
  <2> QED BY <2>2, <2>3
<1>4. ASSUME NEW A \in SUBSET pending, GivenUp(A)
      PROVE  Count(stream'[k], n) <= Bound(k, n, lastEventIds', Sent', faults')
  <2>1. phase = "publish" /\ Accept(A) /\ faults' = faults + 1
    BY <1>4 DEF GivenUp
  <2>2. Count(stream'[k], n) \in Nat /\ Count(stream'[k], n) <= faults + 1
    <3>1. CASE \E r \in A : event_id(r) = <<k, n>>
      BY <1>0, <2>1, <3>1, RequestFits
    <3>2. CASE ~\E r \in A : event_id(r) = <<k, n>>
      <4>1. Count(stream'[k], n) <= Bound(k, n, lastEventIds, Sent, faults) /\ Count(stream'[k], n) \in Nat
        BY <1>0, <2>1, <3>2, RequestFits
      <4> QED BY <1>0, <1>a, <4>1
    <3> QED BY <3>1, <3>2
  <2> QED BY <1>0, <1>a, <2>1, <2>2
<1>5. CASE Restart
  <2>1. stream' = stream /\ faults' = faults + 1
    BY <1>5 DEF Restart
  <2> QED BY <1>0, <1>a, <2>1
<1>6. CASE Quiet
  <2>1. UNCHANGED <<stream, faults, lastEventIds>> /\ Sent' = Sent
    BY <1>6 DEF Quiet, Sleep, Sent
  <2> QED BY <1>0, <2>1
<1>7. CASE UNCHANGED vars
  <2>1. UNCHANGED <<stream, faults, lastEventIds>> /\ Sent' = Sent
    BY <1>7 DEF vars, Sent
  <2> QED BY <1>0, <2>1
<1>8. ASSUME NEW A \in SUBSET pending, SentAgain(A)
      PROVE  Count(stream'[k], n) <= Bound(k, n, lastEventIds', Sent', faults')
  <2>1. /\ phase = "publish" /\ Accept(A) /\ faults' = faults + 1
        /\ lastEventIds' = lastEventIds /\ Sent' = Sent
    BY <1>8 DEF SentAgain, Sent
  <2>2. Count(stream'[k], n) \in Nat /\ Count(stream'[k], n) <= faults + 1
    <3>1. CASE \E r \in A : event_id(r) = <<k, n>>
      BY <1>0, <2>1, <3>1, RequestFits
    <3>2. CASE ~\E r \in A : event_id(r) = <<k, n>>
      <4>1. Count(stream'[k], n) <= Bound(k, n, lastEventIds, Sent, faults) /\ Count(stream'[k], n) \in Nat
        BY <1>0, <2>1, <3>2, RequestFits
      <4> QED BY <1>0, <1>a, <4>1
    <3> QED BY <3>1, <3>2
  <2> QED BY <1>0, <1>a, <2>1, <2>2
<1> QED BY <1>0, <1>1, <1>2, <1>3, <1>4, <1>5, <1>6, <1>7, <1>8, StepsOfNext

\* A candle is in the stream once, plus at most once per failed publication, restart
\* or request that the client sent again after its answer was lost: a retry of
\* publish_records resends only what Kinesis rejected.
THEOREM KinesisCopies == Spec => []CopiesBoundedByFaults
<1>1. Init => CopiesAccounted
  <2> SUFFICES ASSUME Init, NEW k \in Key, NEW n \in 0 .. MaxCandle
               PROVE  Count(stream[k], n) <= Bound(k, n, lastEventIds, Sent, faults)
    BY DEF CopiesAccounted
  <2>1. DOMAIN stream[k] = {} /\ faults = 0
    BY DEF Init
  <2>2. Count(stream[k], n) = 0
    BY <2>1, FS_EmptySet DEF Count
  <2>3. 0 <= Bound(k, n, lastEventIds, Sent, 0)
    BY BoundTyped
  <2> QED BY <2>1, <2>2, <2>3
<1>2. TypedPoll /\ CopiesAccounted => CopiesBoundedByFaults
  <2> SUFFICES ASSUME TypedPoll, CopiesAccounted, NEW k \in Key, NEW n \in 0 .. MaxCandle
               PROVE  Copies(k, n) <= 1 + faults
    BY DEF CopiesBoundedByFaults
  <2>1. faults \in Nat /\ stream[k] \in Seq(Record)
    BY KinesisAssumption DEF TypedPoll, TypeOK, KinesisAssumption
  <2>2. Count(stream[k], n) \in Nat
    BY <2>1, CountTyped
  <2>3. Count(stream[k], n) <= Bound(k, n, lastEventIds, Sent, faults)
    BY DEF CopiesAccounted
  <2>4. /\ Bound(k, n, lastEventIds, Sent, faults) \in Nat
        /\ Bound(k, n, lastEventIds, Sent, faults) <= faults + 1
    BY <2>1, BoundTyped
  <2>5. Count(stream[k], n) <= 1 + faults
    BY <2>1, <2>2, <2>3, <2>4
  <2> QED BY <2>5 DEF Copies, Count
<1> QED BY <1>1, <1>2, CopiesStep, PollInvariant, PTL DEF Spec
=============================================================================
