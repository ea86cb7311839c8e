------------------------- MODULE StreamingLakeProofs -------------------------
(***************************************************************************)
(* StreamingLake for every set of events and payloads, delay, error sink,  *)
(* number of messages and number of stops: its types, Raw exactly once,    *)
(* what Bronze holds and what it lacks, and the copies in the error sink.  *)
(***************************************************************************)
EXTENDS StreamingLake, FiniteSetTheorems, FunctionTheorems, SequenceTheorems,
        WellFoundedInduction, TLAPS

-----------------------------------------------------------------------------
(* Maxima *)

\* A finite set of integers that is not empty has a greatest element: of the sets
\* of what lies above an element, which are finite, a smallest one is empty.
LEMMA HasMax ==
  ASSUME NEW S \in SUBSET Int, S # {}, IsFiniteSet(S)
  PROVE  Max(S) \in S /\ \A y \in S : y <= Max(S)
<1> DEFINE Above(x) == {y \in S : y > x}
           T == {Above(x) : x \in S}
           R == StrictSubsetOrdering(S)
<1>1. IsWellFoundedOn(R, FiniteSubsetsOf(S))
  BY FS_StrictSubsetOrderingWellFounded
<1>2. T \subseteq FiniteSubsetsOf(S) /\ T # {}
  <2>1. \A x \in S : Above(x) \in SUBSET S /\ IsFiniteSet(Above(x))
    BY FS_Subset
  <2> QED BY <2>1 DEF FiniteSubsetsOf
<1>3. PICK U \in T : \A V \in T : <<V, U>> \notin R
  <2> HIDE DEF T, R
  <2> QED BY <1>1, <1>2, WFMin
<1>4. PICK x \in S : U = Above(x)
  BY <1>3
<1>5. ASSUME NEW y \in S, y > x PROVE FALSE
  <2>0. x \in Int /\ y \in Int /\ \A z \in S : z \in Int
    OBVIOUS
  <2>a. ~(y > y) /\ \A z \in S : z > y => z > x
    BY <1>5, <2>0
  <2>1. Above(y) \subseteq Above(x) /\ y \in Above(x) /\ y \notin Above(y)
    BY <1>5, <2>a
  <2>2. <<Above(y), U>> \in R
    BY <1>4, <2>1 DEF StrictSubsetOrdering
  <2> QED BY <1>3, <1>5, <2>2
<1>6. \A y \in S : x >= y
  BY <1>5
<1>7. Max(S) \in S /\ \A y \in S : Max(S) >= y
  BY <1>6 DEF Max
<1> QED BY <1>7

-----------------------------------------------------------------------------
(* Files *)

\* What one batch of Raw may hold of the first n messages.
Files(n) == (SUBSET (1 .. n)) \ {{}}

Disjoint(files) == \A i, j \in DOMAIN files : i # j => files[i] \cap files[j] = {}

\* The rows of the first n files.
Rows(files, n) == UNION {files[i] : i \in 1 .. n}

\* Files that are not empty and share no message are at most as many as the
\* messages: each has one that no other has.
LEMMA FewFiles ==
  ASSUME NEW n \in Nat, NEW files \in Seq(Files(n)), Disjoint(files)
  PROVE  Len(files) <= n
<1> DEFINE f == [i \in 1 .. Len(files) |-> CHOOSE o \in 1 .. n : o \in files[i]]
<1>1. Len(files) \in Nat /\ DOMAIN files = 1 .. Len(files)
  BY LenProperties
<1>2. \A i \in 1 .. Len(files) : files[i] \in Files(n)
  BY ElementOfSeq
<1>3. \A i \in 1 .. Len(files) : f[i] \in 1 .. n /\ f[i] \in files[i]
  BY <1>2 DEF Files
<1>4. f \in Injection(1 .. Len(files), 1 .. n)
  <2>1. f \in [1 .. Len(files) -> 1 .. n]
    BY <1>3
  <2>2. \A i, j \in 1 .. Len(files) : f[i] = f[j] => i = j
    BY <1>1, <1>3 DEF Disjoint
  <2> HIDE DEF f
  <2> QED BY <2>1, <2>2, Fun_IsInj
<1>5. /\ IsFiniteSet(1 .. n) /\ Cardinality(1 .. n) = n
      /\ Cardinality(1 .. Len(files)) = Len(files)
  <2>1. IsFiniteSet(1 .. n)
    BY FS_Interval
  <2>2. Cardinality(1 .. n) = IF 1 > n THEN 0 ELSE n - 1 + 1
    BY FS_Interval
  <2>a. 1 \in Int /\ Len(files) \in Int
    BY <1>1
  <2>3. Cardinality(1 .. Len(files)) = IF 1 > Len(files) THEN 0 ELSE Len(files) - 1 + 1
    BY <2>a, FS_Interval
  <2> QED BY <1>1, <2>1, <2>2, <2>3
<1> HIDE DEF f
<1>6. Cardinality(1 .. Len(files)) <= Cardinality(1 .. n)
  BY <1>4, <1>5, FS_Injection
<1> QED BY <1>5, <1>6

\* A file of messages that no earlier file holds, put at the end.
LEMMA AppendFile ==
  ASSUME NEW n \in Nat, NEW files \in Seq(Files(n)), Disjoint(files), NEW rows \in Files(n),
         \A i \in DOMAIN files : files[i] \cap rows = {}
  PROVE  /\ Append(files, rows) \in Seq(Files(n)) /\ Disjoint(Append(files, rows))
         /\ Len(files) \in Nat /\ DOMAIN files = 1 .. Len(files)
         /\ Len(Append(files, rows)) = Len(files) + 1
         /\ DOMAIN Append(files, rows) = 1 .. Len(files) + 1
         /\ \A i \in 1 .. Len(files) : Append(files, rows)[i] = files[i]
         /\ Append(files, rows)[Len(files) + 1] = rows
<1>1. /\ Len(files) \in Nat /\ DOMAIN files = 1 .. Len(files)
      /\ Append(files, rows) \in Seq(Files(n))
      /\ Len(Append(files, rows)) = Len(files) + 1
      /\ \A i \in 1 .. Len(files) : Append(files, rows)[i] = files[i]
      /\ Append(files, rows)[Len(files) + 1] = rows
  BY LenProperties, AppendProperties
<1>2. DOMAIN Append(files, rows) = 1 .. Len(files) + 1
  BY <1>1, LenProperties
<1>3. Disjoint(Append(files, rows))
  <2>1. \A i \in 1 .. Len(files) + 1 : i \in 1 .. Len(files) \/ i = Len(files) + 1
    BY <1>1
  <2> QED BY <1>1, <1>2, <2>1 DEF Disjoint
<1> QED BY <1>1, <1>2, <1>3

\* The first n files are the same in a log of files that has grown.
LEMMA RowsOfFirst ==
  ASSUME NEW files, NEW files2, NEW n \in Nat, \A i \in 1 .. n : files2[i] = files[i]
  PROVE  Rows(files2, n) = Rows(files, n)
BY DEF Rows

\* A batch of files adds exactly its own rows to those of the files before it.
LEMMA RowsOfBatch ==
  ASSUME NEW n \in Nat, NEW files \in Seq(Files(n)), Disjoint(files),
         NEW m \in Nat, NEW l \in Nat, m < l, l <= Len(files)
  PROVE  LET batch == UNION {files[i] : i \in (m + 1) .. l}
         IN  /\ batch \subseteq 1 .. n /\ Rows(files, l) \subseteq 1 .. n
             /\ Rows(files, l) = Rows(files, m) \cup batch
             /\ batch \cap Rows(files, m) = {}
<1> DEFINE batch == UNION {files[i] : i \in (m + 1) .. l}
<1>1. /\ Len(files) \in Nat /\ DOMAIN files = 1 .. Len(files)
      /\ \A i \in 1 .. Len(files) : files[i] \subseteq 1 .. n
  BY LenProperties, ElementOfSeq DEF Files
<1>2. /\ \A i \in 1 .. l : i \in 1 .. Len(files) /\ (i \in 1 .. m \/ i \in (m + 1) .. l)
      /\ \A i \in 1 .. m : i \in 1 .. l
      /\ \A i \in (m + 1) .. l : i \in 1 .. l /\ i \notin 1 .. m
  BY <1>1
<1>3. batch \subseteq 1 .. n /\ Rows(files, l) \subseteq 1 .. n
  BY <1>1, <1>2 DEF Rows
<1>4. Rows(files, l) = Rows(files, m) \cup batch
  BY <1>2 DEF Rows
<1>5. batch \cap Rows(files, m) = {}
  BY <1>1, <1>2 DEF Rows, Disjoint
<1> QED BY <1>3, <1>4, <1>5

-----------------------------------------------------------------------------
(* Queries *)

\* Through(q) is the last input position the sink of q has taken.
Through(q) == IF status[q] \in {"written", "recovered"} THEN last[q] ELSE next[q] - 1

Shape ==
  /\ platform \in {"aws", "local"}
  /\ topic \in Seq(Message) /\ Len(topic) <= MaxMessages
  /\ expired \in 0 .. Len(topic)
  /\ raw \in Seq(Files(Len(topic)))
  /\ next \in [Query -> Nat \ {0}] /\ last \in [Query -> Nat]
  /\ status \in [Query -> Status]
  /\ up \in [App -> BOOLEAN]
  /\ crashes \in 0 .. MaxCrashes /\ retries \in 0 .. MaxRetries

\* A query does not read past its input, and a batch is not empty.
Control ==
  \A q \in Query :
    /\ next[q] <= Available(q) + 1 /\ last[q] <= Available(q)
    /\ status[q] # "none" => next[q] <= last[q]

\* The files of Raw hold what the Raw query has taken, and each message once.
Copied ==
  /\ Disjoint(raw)
  /\ \A i \in DOMAIN raw : raw[i] \subseteq 1 .. Through("raw")
  /\ \A o \in 1 .. Through("raw") : o > expired => \E i \in DOMAIN raw : o \in raw[i]

Lake == Shape /\ Control /\ Copied

\* There are at most as many files of raw as messages.
LEMMA LakeBounds ==
  ASSUME Lake
  PROVE  /\ Len(topic) \in Nat /\ Len(raw) \in Nat
         /\ Len(raw) <= Len(topic) /\ Len(topic) <= MaxMessages
         /\ DOMAIN raw = 1 .. Len(raw)
         /\ \A q \in Query : Available(q) \in Nat /\ Available(q) <= MaxMessages
<1>1. Len(topic) \in Nat
  BY LenProperties DEF Lake, Shape
<1>2. Len(raw) \in Nat /\ DOMAIN raw = 1 .. Len(raw)
  BY LenProperties DEF Lake, Shape
<1>3. Len(raw) <= Len(topic)
  BY <1>1, FewFiles DEF Lake, Shape, Copied
<1>4. Len(topic) <= MaxMessages /\ MaxMessages \in Nat
  BY LakeAssumption DEF Lake, Shape
<1> QED BY <1>1, <1>2, <1>3, <1>4 DEF Available

\* The topic, Raw and the inputs stay, and the query q goes on to its next step.
Turns(q) ==
  /\ UNCHANGED <<topic, expired, raw, up, crashes, retries>>
  /\ next' \in [Query -> Nat \ {0}] /\ last' \in [Query -> Nat] /\ status' \in [Query -> Status]
  /\ \A p \in Query \ {q} :
       next'[p] = next[p] /\ last'[p] = last[p] /\ status'[p] = status[p]

\* Plan logs the range of the next batch of a query.
LEMMA PlanStep ==
  ASSUME Lake, NEW q \in Query, Plan(q)
  PROVE  /\ Turns(q) /\ UNCHANGED <<bronze, errors, watermark>>
         /\ next'[q] = next[q] /\ last'[q] \in next[q] .. Available(q)
         /\ status[q] = "none" /\ status'[q] = "planned"
<1>1. PICK n \in next[q] .. Available(q) : last' = [last EXCEPT ![q] = n]
  BY DEF Plan
<1>2. n \in Nat
  BY <1>1, LakeBounds DEF Lake, Shape
<1> QED BY <1>1, <1>2 DEF Plan, Turns, Lake, Shape, Status, sources, sinks, faults

\* Commit moves a query past the batch it has written.
LEMMA CommitStep ==
  ASSUME Lake, NEW q \in Query, Commit(q)
  PROVE  /\ Turns(q) /\ UNCHANGED <<bronze, errors>>
         /\ next'[q] = last[q] + 1 /\ last'[q] = last[q]
         /\ status[q] \in {"written", "recovered"} /\ status'[q] = "none"
BY DEF Commit, Turns, Lake, Shape, Status, sources, faults

\* A write ends a planned batch and touches one sink.
LEMMA WritesStep ==
  ASSUME Lake, NEW q \in Query, Writes(q)
  PROVE  /\ raw' = raw => Turns(q)
         /\ UNCHANGED <<topic, expired, next, last, up, crashes, retries, watermark>>
         /\ status[q] = "planned" /\ status'[q] = "written"
         /\ status' \in [Query -> Status]
         /\ \A p \in Query \ {q} : status'[p] = status[p]
BY DEF Writes, Turns, Lake, Shape, Status, sources, faults

\* A stop leaves a written batch to be recovered, or to be sent again.
LEMMA StopStep ==
  ASSUME Lake, NEW a \in App, Stop(a)
  PROVE  /\ UNCHANGED <<topic, expired, raw, bronze, watermark, next, last, retries>>
         /\ up' \in [App -> BOOLEAN] /\ crashes' \in 0 .. MaxCrashes /\ crashes' = crashes + 1
         /\ status' \in [Query -> Status]
         /\ \A q \in Query :
              \/ status'[q] = status[q] /\ status[q] # "written"
              \/ status'[q] = status[q] /\ AppOf(q) # a
              \/ status[q] = "written" /\ status'[q] = "recovered"
              \/ status[q] = "written" /\ status'[q] = "planned" /\ q = "errors" /\ KafkaErrorSink
<1>1. UNCHANGED <<topic, expired, raw, bronze, watermark, next, last, retries>>
  BY DEF Stop, sources
<1>2. up' \in [App -> BOOLEAN] /\ crashes' \in 0 .. MaxCrashes /\ crashes' = crashes + 1
  BY LakeAssumption DEF Stop, Lake, Shape
<1>3. \A q \in Query : status'[q] = IF AppOf(q) = a THEN AfterStop(q) ELSE status[q]
  BY DEF Stop
<1>4. \A q \in Query :
        \/ AfterStop(q) = status[q] /\ status[q] # "written"
        \/ status[q] = "written" /\ AfterStop(q) = "recovered"
        \/ status[q] = "written" /\ AfterStop(q) = "planned" /\ q = "errors" /\ KafkaErrorSink
  BY Zenon DEF AfterStop
<1>5. \A q \in Query : status[q] \in Status /\ AfterStop(q) \in Status
  BY <1>4 DEF Lake, Shape, Status
<1>6. status' \in [Query -> Status]
  BY <1>5 DEF Stop
<1> QED BY <1>1, <1>2, <1>3, <1>4, <1>6

\* A task that is run again has sent some rejected rows, and leaves the batch as it is.
LEMMA RetryStep ==
  ASSUME Lake, RetryTask
  PROVE  /\ UNCHANGED <<topic, expired, raw, bronze, watermark, next, last, status, up, crashes>>
         /\ KafkaErrorSink /\ status["errors"] = "planned"
         /\ retries' \in 0 .. MaxRetries /\ retries' = retries + 1
         /\ \E part \in SUBSET {o \in Batch("errors") : Rejected(o)} : errors' = Sent(part)
<1>1. retries \in 0 .. MaxRetries /\ MaxRetries \in Nat
  BY LakeAssumption DEF Lake, Shape
<1> QED BY <1>1 DEF RetryTask, sources, control

\* Nothing changes the platform, and with it the kind of error sink.
LEMMA PlatformStays ==
  ASSUME [Next]_vars
  PROVE  UNCHANGED platform
BY DEF Next, Plan, Commit, WriteRaw, WriteBronze, WriteErrors, Writes, RetryTask, Stop, Start,
       Publish, Expire, sources, vars

-----------------------------------------------------------------------------
(* Raw *)

\* What WriteRaw appends lies in the batch, and is what the topic still holds.
LEMMA WriteRawStep ==
  ASSUME Lake, WriteRaw
  PROVE  /\ raw' \in Seq(Files(Len(topic))) /\ Disjoint(raw')
         /\ Len(raw') \in Nat /\ Len(raw') >= Len(raw)
         /\ \A i \in 1 .. Len(raw) : raw'[i] = raw[i]
         /\ \A i \in DOMAIN raw' : raw'[i] \subseteq 1 .. last["raw"]
         /\ \A o \in 1 .. last["raw"] : o > expired => \E i \in DOMAIN raw' : o \in raw'[i]
<1> DEFINE rows == {o \in next["raw"] .. last["raw"] : o > expired}
<1>1. /\ status["raw"] = "planned" /\ "raw" \in Query
      /\ next["raw"] \in Nat \ {0} /\ last["raw"] \in Nat
      /\ next["raw"] <= last["raw"] /\ last["raw"] <= Len(topic)
      /\ expired \in Nat /\ Len(topic) \in Nat
  BY LakeBounds DEF WriteRaw, Writes, Query, Lake, Shape, Control, Available
<1>2. Through("raw") = next["raw"] - 1
  BY <1>1 DEF Through
<1>3. /\ Disjoint(raw) /\ raw \in Seq(Files(Len(topic)))
      /\ Len(raw) \in Nat /\ DOMAIN raw = 1 .. Len(raw)
      /\ \A i \in DOMAIN raw : raw[i] \subseteq 1 .. next["raw"] - 1
      /\ \A o \in 1 .. next["raw"] - 1 : o > expired => \E i \in DOMAIN raw : o \in raw[i]
  BY <1>2, LakeBounds DEF Lake, Shape, Copied
<1>4. /\ rows \subseteq 1 .. Len(topic) /\ rows \subseteq 1 .. last["raw"]
      /\ \A i \in DOMAIN raw : raw[i] \cap rows = {} /\ raw[i] \subseteq 1 .. last["raw"]
      /\ \A o \in 1 .. last["raw"] : o > expired => o \in 1 .. next["raw"] - 1 \/ o \in rows
  BY <1>1, <1>3
<1>5. raw' = IF rows = {} THEN raw ELSE Append(raw, rows)
  BY DEF WriteRaw
<1> HIDE DEF rows
<1>6. CASE rows = {}
  BY <1>3, <1>4, <1>5, <1>6
<1>7. CASE rows # {}
  <2>1. rows \in Files(Len(topic)) /\ raw' = Append(raw, rows)
    BY <1>4, <1>5, <1>7 DEF Files
  <2>2. /\ raw' \in Seq(Files(Len(topic))) /\ Disjoint(raw')
        /\ Len(raw') = Len(raw) + 1 /\ DOMAIN raw' = 1 .. Len(raw) + 1
        /\ \A i \in 1 .. Len(raw) : raw'[i] = raw[i]
        /\ raw'[Len(raw) + 1] = rows
    <3>1. \A i \in DOMAIN raw : raw[i] \cap rows = {}
      BY <1>4
    <3> HIDE <1>4
    <3>2. /\ Append(raw, rows) \in Seq(Files(Len(topic))) /\ Disjoint(Append(raw, rows))
          /\ Len(Append(raw, rows)) = Len(raw) + 1
          /\ DOMAIN Append(raw, rows) = 1 .. Len(raw) + 1
          /\ \A i \in 1 .. Len(raw) : Append(raw, rows)[i] = raw[i]
          /\ Append(raw, rows)[Len(raw) + 1] = rows
      BY <1>1, <1>3, <2>1, <3>1, AppendFile
    <3> QED BY <2>1, <3>2
  <2>3. /\ \A i \in DOMAIN raw' : i \in 1 .. Len(raw) \/ i = Len(raw) + 1
        /\ \A i \in 1 .. Len(raw) : i \in DOMAIN raw'
        /\ Len(raw) + 1 \in DOMAIN raw'
    BY <1>3, <2>2
  <2>4. Len(raw') \in Nat /\ Len(raw') >= Len(raw)
    BY <1>3, <2>2
  <2>5. \A i \in DOMAIN raw' : raw'[i] \subseteq 1 .. last["raw"]
    BY <1>3, <1>4, <2>2, <2>3
  <2>6. \A o \in 1 .. last["raw"] : o > expired => \E i \in DOMAIN raw' : o \in raw'[i]
    BY <1>3, <1>4, <2>2, <2>3
  <2> QED BY <2>2, <2>4, <2>5, <2>6
<1> QED BY <1>6, <1>7

\* The invariant of the queries holds at the start.
LEMMA LakeInit == Init => Lake
<1> SUFFICES ASSUME Init PROVE Lake
  OBVIOUS
<1>1. topic = << >> /\ raw = << >>
  BY DEF Init
<1>2. topic \in Seq(Message) /\ Len(topic) = 0 /\ raw \in Seq(Files(0)) /\ Len(raw) = 0
  BY <1>1, EmptySeq
<1>3. DOMAIN raw = {}
  BY <1>2, LenProperties
<1>4. Shape
  <2>1. /\ platform \in {"aws", "local"} /\ expired \in 0 .. Len(topic)
        /\ raw \in Seq(Files(Len(topic)))
        /\ next \in [Query -> Nat \ {0}] /\ last \in [Query -> Nat]
        /\ status \in [Query -> Status] /\ up \in [App -> BOOLEAN]
    BY <1>2 DEF Init, Status
  <2>2. Len(topic) <= MaxMessages /\ crashes \in 0 .. MaxCrashes /\ retries \in 0 .. MaxRetries
    BY <1>2, LakeAssumption DEF Init
  <2> QED BY <1>2, <2>1, <2>2 DEF Shape
<1>5. Control
  BY <1>2 DEF Init, Control, Available
<1>6. Through("raw") = 0
  BY DEF Init, Through, Query
<1>7. Copied
  BY <1>3, <1>6 DEF Copied, Disjoint
<1> QED BY <1>4, <1>5, <1>7 DEF Lake

\* Where the topic and Raw stay, Lake is about the queries alone.
LEMMA LakeTurns ==
  ASSUME Lake, UNCHANGED <<platform, topic, raw>>, expired' \in expired .. Len(topic),
         next' \in [Query -> Nat \ {0}], last' \in [Query -> Nat], status' \in [Query -> Status],
         up' \in [App -> BOOLEAN], crashes' \in 0 .. MaxCrashes, retries' \in 0 .. MaxRetries,
         \A q \in Query : /\ next'[q] <= Available(q) + 1 /\ last'[q] <= Available(q)
                          /\ status'[q] # "none" => next'[q] <= last'[q],
         Through("raw")' = Through("raw")
  PROVE  Lake'
<1>1. Shape'
  <2>1. expired' \in 0 .. Len(topic)
    BY LakeBounds DEF Lake, Shape
  <2> QED BY <2>1 DEF Lake, Shape
<1>2. Control'
  BY DEF Control, Available
<1>3. Copied'
  <2>1. \A o \in 1 .. Through("raw") : o > expired' => o > expired
    <3>1. Through("raw") \in Int /\ expired \in Int /\ Len(topic) \in Int
      <4>1. next["raw"] \in Int /\ last["raw"] \in Int /\ Len(topic) \in Int
        BY LakeBounds DEF Lake, Shape, Query
      <4>2. expired \in Int
        BY <4>1 DEF Lake, Shape
      <4> QED BY <4>1, <4>2 DEF Through
    <3> QED BY <3>1
  <2> QED BY <2>1 DEF Lake, Copied
<1> QED BY <1>1, <1>2, <1>3 DEF Lake

\* The invariant of the queries is preserved by every step.
LEMMA LakeNext == Lake /\ [Next]_vars => Lake'
<1> SUFFICES ASSUME Lake, [Next]_vars PROVE Lake'
  OBVIOUS
<1> USE DEF Query
<1>0. /\ Len(topic) \in Nat /\ Len(raw) \in Nat /\ expired \in 0 .. Len(topic)
      /\ next \in [Query -> Nat \ {0}] /\ last \in [Query -> Nat] /\ status \in [Query -> Status]
      /\ up \in [App -> BOOLEAN] /\ crashes \in 0 .. MaxCrashes /\ retries \in 0 .. MaxRetries
      /\ platform' = platform /\ platform \in {"aws", "local"}
      /\ \A q \in Query : /\ next[q] <= Available(q) + 1 /\ last[q] <= Available(q)
                          /\ status[q] # "none" => next[q] <= last[q]
                          /\ next[q] \in Nat \ {0} /\ last[q] \in Nat /\ Available(q) \in Nat
  BY LakeBounds, PlatformStays DEF Lake, Shape, Control
<1>a. ASSUME NEW q \in Query, Turns(q),
             next'[q] <= Available(q) + 1, last'[q] <= Available(q),
             status'[q] # "none" => next'[q] <= last'[q],
             q = "raw" => Through("raw")' = Through("raw")
      PROVE  Lake'
  <2>1. Through("raw")' = Through("raw")
    BY <1>a DEF Turns, Through
  <2>2. \A p \in Query : /\ next'[p] <= Available(p) + 1 /\ last'[p] <= Available(p)
                         /\ status'[p] # "none" => next'[p] <= last'[p]
    BY <1>0, <1>a DEF Turns
  <2>3. expired' \in expired .. Len(topic)
    BY <1>0, <1>a DEF Turns
  <2> QED BY <1>0, <1>a, <2>1, <2>2, <2>3, LakeTurns DEF Turns
<1>1. ASSUME NEW q \in Query, Plan(q) PROVE Lake'
  <2>0. /\ next[q] <= Available(q) + 1 /\ last[q] <= Available(q)
        /\ status[q] # "none" => next[q] <= last[q]
        /\ next[q] \in Nat \ {0} /\ last[q] \in Nat /\ Available(q) \in Nat
    BY <1>0
  <2>1. /\ Turns(q) /\ next'[q] = next[q] /\ last'[q] \in next[q] .. Available(q)
        /\ status[q] = "none" /\ status'[q] = "planned"
    BY <1>1, PlanStep
  <2>2. /\ next'[q] <= Available(q) + 1 /\ last'[q] <= Available(q) /\ next'[q] <= last'[q]
    BY <2>0, <2>1
  <2>3. q = "raw" => Through("raw")' = Through("raw")
    BY <2>1 DEF Through
  <2> QED BY <1>a, <2>1, <2>2, <2>3
<1>2. ASSUME NEW q \in Query, Commit(q) PROVE Lake'
  <2>0. /\ next[q] <= Available(q) + 1 /\ last[q] <= Available(q)
        /\ status[q] # "none" => next[q] <= last[q]
        /\ next[q] \in Nat \ {0} /\ last[q] \in Nat /\ Available(q) \in Nat
    BY <1>0
  <2>1. /\ Turns(q) /\ next'[q] = last[q] + 1 /\ last'[q] = last[q]
        /\ status[q] \in {"written", "recovered"} /\ status'[q] = "none"
    BY <1>2, CommitStep
  <2>2. /\ next'[q] <= Available(q) + 1 /\ last'[q] <= Available(q)
    BY <2>0, <2>1
  <2>3. q = "raw" => Through("raw")' = Through("raw")
    BY <2>0, <2>1 DEF Through
  <2> QED BY <1>a, <2>1, <2>2, <2>3
<1>3. CASE WriteRaw
  <2>1. /\ UNCHANGED <<topic, expired, next, last, up, crashes, retries>>
        /\ status["raw"] = "planned" /\ status'["raw"] = "written"
        /\ status' \in [Query -> Status]
        /\ \A p \in Query \ {"raw"} : status'[p] = status[p]
    BY <1>3, WritesStep DEF WriteRaw
  <2>2. Shape'
    BY <1>0, <1>3, <2>1, WriteRawStep DEF Lake, Shape
  <2>3. Control'
    <3>1. \A q \in Query : Available(q)' >= Available(q) /\ Available(q)' \in Nat
      BY <1>0, <1>3, <2>1, WriteRawStep DEF Available
    <3>2. ASSUME NEW q \in Query
          PROVE  /\ next'[q] <= Available(q)' + 1 /\ last'[q] <= Available(q)'
                 /\ status'[q] # "none" => next'[q] <= last'[q]
      <4>1. /\ next'[q] = next[q] /\ last'[q] = last[q]
            /\ status'[q] # "none" => status[q] # "none"
        BY <2>1
      <4>2. /\ next[q] <= Available(q) + 1 /\ last[q] <= Available(q)
            /\ status[q] # "none" => next[q] <= last[q]
            /\ next[q] \in Nat /\ last[q] \in Nat /\ Available(q) \in Nat
        BY <1>0
      <4> QED BY <3>1, <4>1, <4>2
    <3> QED BY <3>2 DEF Control
  <2>4. Through("raw")' = last["raw"]
    BY <2>1 DEF Through
  <2>5. Copied'
    BY <1>3, <2>1, <2>4, WriteRawStep DEF Copied
  <2> QED BY <2>2, <2>3, <2>5 DEF Lake
<1>4. CASE WriteBronze
  BY <1>0, <1>4, <1>a, WritesStep DEF WriteBronze
<1>5. CASE WriteErrors
  BY <1>0, <1>5, <1>a, WritesStep DEF WriteErrors
<1>6. ASSUME NEW a \in App, Stop(a) PROVE Lake'
  <2>0. /\ UNCHANGED <<topic, expired, raw, next, last>>
        /\ \A q \in Query : status'[q] = "none" <=> status[q] = "none"
    BY <1>6, StopStep
  <2>1. Through("raw")' = Through("raw")
    BY <1>6, StopStep DEF Through
  <2>2. \A q \in Query : /\ next'[q] <= Available(q) + 1 /\ last'[q] <= Available(q)
                         /\ status'[q] # "none" => next'[q] <= last'[q]
    BY <1>0, <2>0
  <2>3. expired' \in expired .. Len(topic)
    BY <1>0, <2>0
  <2> QED BY <1>0, <1>6, <2>1, <2>2, <2>3, StopStep, LakeTurns
<1>7. ASSUME NEW a \in App, Start(a) PROVE Lake'
  <2>1. /\ UNCHANGED <<topic, expired, raw, next, last, status, crashes, retries>>
        /\ up' \in [App -> BOOLEAN]
    BY <1>0, <1>7 DEF Start, sources, sinks, control, faults
  <2>2. Through("raw")' = Through("raw") /\ expired' \in expired .. Len(topic)
    BY <1>0, <2>1 DEF Through
  <2> QED BY <1>0, <2>1, <2>2, LakeTurns
<1>8. CASE Publish
  <2>1. PICK m \in Message : topic' = Append(topic, m)
    BY <1>8 DEF Publish
  <2>2. topic' \in Seq(Message) /\ Len(topic') = Len(topic) + 1
    BY <2>1, AppendProperties DEF Lake, Shape
  <2>3. UNCHANGED <<expired, raw, next, last, status, up, crashes, retries>>
    BY <1>8 DEF Publish, sinks, control, faults
  <2>4. raw \in Seq(Files(Len(topic')))
    <3>1. Files(Len(topic)) \subseteq Files(Len(topic'))
      <4>1. 1 .. Len(topic) \subseteq 1 .. Len(topic')
        BY <1>0, <2>2
      <4> QED BY <4>1 DEF Files
    <3> QED BY <3>1, SeqMonotonic DEF Lake, Shape
  <2>5. Len(topic') <= MaxMessages /\ expired \in 0 .. Len(topic')
    BY <1>0, <1>8, <2>2, LakeAssumption DEF Publish
  <2>6. Shape'
    BY <1>0, <2>2, <2>3, <2>4, <2>5 DEF Lake, Shape
  <2>7. Control'
    BY <1>0, <2>2, <2>3 DEF Control, Available
  <2>8. Copied'
    BY <2>3 DEF Lake, Copied, Through
  <2> QED BY <2>6, <2>7, <2>8 DEF Lake
<1>9. CASE Expire
  <2>1. /\ UNCHANGED <<topic, raw, next, last, status, up, crashes, retries>>
        /\ expired' \in expired .. Len(topic)
    BY <1>0, <1>9 DEF Expire, sinks, control, faults
  <2>2. Through("raw")' = Through("raw")
    BY <2>1 DEF Through
  <2> QED BY <1>0, <2>1, <2>2, LakeTurns
<1>10. CASE UNCHANGED vars
  BY <1>10 DEF Lake, Shape, Control, Copied, Through, Available, vars, sources, sinks, control, faults
<1>11. CASE RetryTask
  <2>1. /\ UNCHANGED <<topic, expired, raw, next, last, status, up, crashes>>
        /\ retries' \in 0 .. MaxRetries
    BY <1>0, <1>11, RetryStep
  <2>2. Through("raw")' = Through("raw") /\ expired' \in expired .. Len(topic)
    BY <1>0, <2>1 DEF Through
  <2> QED BY <1>0, <2>1, <2>2, LakeTurns
<1> QED BY <1>1, <1>2, <1>3, <1>4, <1>5, <1>6, <1>7, <1>8, <1>9, <1>10, <1>11 DEF Next

\* The invariant of the queries always holds.
LEMMA LakeAlways == Spec => []Lake
BY LakeInit, LakeNext, PTL DEF Spec

\* Raw holds no message twice over stops and restarts, and what its query passed
\* without copying had left the topic: the Raw consumer's checkpoint and the batch
\* numbers of its Parquet sink.
THEOREM RawOnce == Spec => []RawExactlyOnce
<1>1. Lake => RawExactlyOnce
  <2> SUFFICES ASSUME Lake PROVE RawExactlyOnce
    OBVIOUS
  <2>1. \A o \in 1 .. next["raw"] - 1 : o \in 1 .. Through("raw")
    BY DEF Lake, Shape, Control, Through, Query
  <2> QED BY <2>1 DEF Lake, Copied, Disjoint, RawExactlyOnce
<1> QED BY <1>1, LakeAlways, PTL

-----------------------------------------------------------------------------
(* Bronze *)

\* What Bronze knows of message o: it does not decode, came too late, or its
\* event is there.
Answered(o) == Rejected(o) \/ Late(o) \/ \E p \in bronze : topic[p].event = topic[o].event

WatermarkType == {0} \cup ({e - Delay : e \in Event} \cap Nat)

BronzeRight ==
  /\ bronze \subseteq 1 .. Len(topic) /\ BronzeOnePerEvent
  /\ watermark \in WatermarkType
  /\ \A o \in Rows(raw, Through("bronze")) : Answered(o)

\* The open times of messages are natural numbers.
LEMMA EventTyped ==
  ASSUME Lake, NEW o \in 1 .. Len(topic)
  PROVE  topic[o].event \in Nat /\ (topic[o].event \in Event \/ topic[o].event = 0)
<1>1. topic[o] \in Message
  BY ElementOfSeq DEF Lake, Shape
<1>2. \A m \in Message : m.event \in Nat /\ (m.event \in Event \/ m.event = 0)
  <2>1. \A m \in Message : m.event \in Event \/ m.event = 0
    BY DEF Message, NoEvent
  <2>2. \A e \in Event : e \in Nat
    BY LakeAssumption
  <2>3. 0 \in Nat
    OBVIOUS
  <2> QED BY <2>1, <2>2, <2>3, Zenon
<1> QED BY <1>1, <1>2

\* A watermark is a natural number.
LEMMA WatermarkTyped == WatermarkType \subseteq Nat
BY DEF WatermarkType

\* What a query has taken lies in the topic; the batch it is in adds its rows.
LEMMA RowsTaken ==
  ASSUME Lake, NEW q \in Query \ {"raw"}
  PROVE  /\ Rows(raw, Through(q)) \subseteq 1 .. Len(topic)
         /\ Rows(raw, next[q] - 1) \subseteq Rows(raw, Through(q))
         /\ status[q] # "none" =>
              /\ Batch(q) \subseteq 1 .. Len(topic)
              /\ Rows(raw, last[q]) = Rows(raw, next[q] - 1) \cup Batch(q)
              /\ Batch(q) \cap Rows(raw, next[q] - 1) = {}
<1>1. /\ Len(topic) \in Nat /\ Len(raw) \in Nat /\ DOMAIN raw = 1 .. Len(raw)
      /\ raw \in Seq(Files(Len(topic))) /\ Disjoint(raw)
      /\ next[q] \in Nat \ {0} /\ last[q] \in Nat
      /\ next[q] <= Len(raw) + 1 /\ last[q] <= Len(raw)
      /\ status[q] # "none" => next[q] <= last[q]
  BY LakeBounds DEF Lake, Shape, Control, Available, Copied
<1>2. \A i \in 1 .. Len(raw) : raw[i] \subseteq 1 .. Len(topic)
  BY <1>1, ElementOfSeq DEF Files
<1>3. Through(q) \in Nat /\ Through(q) <= Len(raw) /\ next[q] - 1 <= Through(q)
  BY <1>1 DEF Through
<1>4. Rows(raw, Through(q)) \subseteq 1 .. Len(topic)
  BY <1>1, <1>2, <1>3 DEF Rows
<1>5. Rows(raw, next[q] - 1) \subseteq Rows(raw, Through(q))
  BY <1>1, <1>3 DEF Rows
<1>6. ASSUME status[q] # "none"
      PROVE  /\ Batch(q) \subseteq 1 .. Len(topic)
             /\ Rows(raw, last[q]) = Rows(raw, next[q] - 1) \cup Batch(q)
             /\ Batch(q) \cap Rows(raw, next[q] - 1) = {}
  <2> DEFINE m == next[q] - 1
  <2>1. m \in Nat /\ m < last[q] /\ m + 1 = next[q] /\ last[q] <= Len(raw)
    BY <1>1, <1>6
  <2> HIDE DEF m
  <2>2. LET batch == UNION {raw[i] : i \in (m + 1) .. last[q]}
        IN  /\ batch \subseteq 1 .. Len(topic) /\ Rows(raw, last[q]) \subseteq 1 .. Len(topic)
            /\ Rows(raw, last[q]) = Rows(raw, m) \cup batch
            /\ batch \cap Rows(raw, m) = {}
    BY <1>1, <2>1, RowsOfBatch
  <2> USE DEF m
  <2> QED BY <2>1, <2>2 DEF Batch
<1> QED BY <1>4, <1>5, <1>6

\* Steps that leave the sinks of Raw's readers and what they have taken.
LEMMA RowsStay ==
  ASSUME Lake, Lake', NEW q \in Query \ {"raw"}, Through(q)' = Through(q),
         raw' = raw \/ WriteRaw
  PROVE  Rows(raw, Through(q))' = Rows(raw, Through(q))
<1>1. Through(q) \in Nat /\ Through(q) <= Len(raw) /\ Len(raw) \in Nat
  <2>1. /\ next[q] \in Nat \ {0} /\ last[q] \in Nat /\ Len(raw) \in Nat
        /\ next[q] <= Len(raw) + 1 /\ last[q] <= Len(raw)
    BY LakeBounds DEF Lake, Shape, Control, Available
  <2> QED BY <2>1 DEF Through
<1>2. \A i \in 1 .. Through(q) : raw'[i] = raw[i]
  BY <1>1, WriteRawStep
<1> QED BY <1>1, <1>2, RowsOfFirst

\* The topic grows at its end: its messages stay as they are.
LEMMA TopicStays ==
  ASSUME Lake, [Next]_vars
  PROVE  \/ UNCHANGED topic
         \/ /\ Publish /\ Len(topic') = Len(topic) + 1
            /\ \A o \in 1 .. Len(topic) : topic'[o] = topic[o]
<1>1. ASSUME Publish
      PROVE  /\ Len(topic') = Len(topic) + 1
             /\ \A o \in 1 .. Len(topic) : topic'[o] = topic[o]
  BY <1>1, AppendProperties DEF Publish, Lake, Shape
<1>2. UNCHANGED topic \/ Publish
  BY DEF Next, Plan, Commit, WriteRaw, WriteBronze, WriteErrors, Writes, RetryTask, Stop, Start,
         Expire, sources, vars
<1> QED BY <1>1, <1>2

\* The watermark a batch of Bronze leaves is never below the one it found.
LEMMA NextWatermarkRight ==
  ASSUME Lake, watermark \in WatermarkType, status["bronze"] # "none"
  PROVE  NextWatermark("bronze") \in WatermarkType /\ NextWatermark("bronze") >= watermark
<1> DEFINE B == Batch("bronze")
           T == {topic[o].event - Delay : o \in B}
           S == {watermark} \cup T
<1>1. /\ B \subseteq 1 .. Len(topic) /\ Len(topic) \in Nat
      /\ \A o \in B : topic[o].event \in Nat /\ (topic[o].event \in Event \/ topic[o].event = 0)
  BY RowsTaken, EventTyped, LakeBounds DEF Query
<1>2. IsFiniteSet(B)
  <2>1. IsFiniteSet(1 .. Len(topic))
    BY <1>1, FS_Interval
  <2> QED BY <1>1, <2>1, FS_Subset
<1>3. IsFiniteSet(T)
  <2> DEFINE f == [o \in B |-> topic[o].event - Delay]
  <2>1. f \in Surjection(B, T)
    BY DEF Surjection
  <2> HIDE DEF f, B, T
  <2> QED BY <1>2, <2>1, FS_Surjection
<1>4. S # {} /\ S \subseteq Int /\ watermark \in S /\ watermark \in Nat
  BY <1>1, WatermarkTyped, LakeAssumption
<1>5. IsFiniteSet(S)
  <2> HIDE DEF T
  <2>1. IsFiniteSet(T \cup {watermark})
    BY <1>3, FS_AddElement
  <2> QED BY <2>1
<1>6. Max(S) \in S /\ \A y \in S : y <= Max(S)
  <2> HIDE DEF S
  <2> QED BY <1>4, <1>5, HasMax
<1>7. \A y \in S : y >= watermark => y \in WatermarkType
  BY <1>1, <1>4, LakeAssumption DEF WatermarkType
<1>8. Max(S) >= watermark /\ Max(S) \in WatermarkType
  <2> HIDE DEF S
  <2> QED BY <1>4, <1>6, <1>7
<1> QED BY <1>8 DEF NextWatermark

\* What a batch writes to Bronze: new events, each once, and all that is not late.
LEMMA WriteBronzeStep ==
  ASSUME Lake, bronze \subseteq 1 .. Len(topic), BronzeOnePerEvent, WriteBronze
  PROVE  /\ bronze \subseteq bronze' /\ bronze' \subseteq 1 .. Len(topic)
         /\ \A o, p \in bronze' : topic[o].event = topic[p].event => o = p
         /\ \A o \in Batch("bronze") :
              Rejected(o) \/ Late(o) \/ \E p \in bronze' : topic[p].event = topic[o].event
<1> DEFINE clean == {o \in Batch("bronze") : ~Rejected(o) /\ ~Late(o)}
           rows == Unseen(clean)
<1>1. PICK chosen \in SUBSET rows : IsDeduplicated(chosen, rows) /\ bronze' = bronze \cup chosen
  BY DEF WriteBronze
<1>2. Batch("bronze") \subseteq 1 .. Len(topic) /\ Len(topic) \in Nat
  BY RowsTaken, LakeBounds DEF Query, WriteBronze, Writes
<1>3. rows \subseteq 1 .. Len(topic)
  BY <1>2 DEF Unseen
<1>4. \A o \in rows, p \in bronze : topic[p].event # topic[o].event
  BY DEF Unseen
<1>5. \A o \in clean : o \in rows \/ \E p \in bronze : topic[p].event = topic[o].event
  BY DEF Unseen
<1> HIDE DEF rows
<1>6. ASSUME NEW o \in rows
      PROVE  \E x : {p \in chosen : topic[p].event = topic[o].event} = {x}
  <2>1. IsFiniteSet(1 .. Len(topic))
    BY <1>2, FS_Interval
  <2>2. {p \in chosen : topic[p].event = topic[o].event} \in SUBSET (1 .. Len(topic))
    BY <1>3
  <2>3. IsFiniteSet({p \in chosen : topic[p].event = topic[o].event})
    BY <2>1, <2>2, FS_Subset
  <2>4. Cardinality({p \in chosen : topic[p].event = topic[o].event}) = 1
    BY <1>1 DEF IsDeduplicated
  <2> QED BY <2>3, <2>4, FS_Singleton
<1>7. ASSUME NEW o \in rows PROVE \E p \in chosen : topic[p].event = topic[o].event
  BY <1>6
<1>8. ASSUME NEW o \in chosen, NEW p \in chosen, topic[o].event = topic[p].event PROVE o = p
  <2>1. PICK x : {r \in chosen : topic[r].event = topic[p].event} = {x}
    BY <1>6
  <2> QED BY <1>8, <2>1
<1>9. \A o, p \in bronze' : topic[o].event = topic[p].event => o = p
  BY <1>1, <1>4, <1>8 DEF BronzeOnePerEvent
<1>10. \A o \in Batch("bronze") :
         Rejected(o) \/ Late(o) \/ \E p \in bronze' : topic[p].event = topic[o].event
  BY <1>1, <1>5, <1>7
<1> QED BY <1>1, <1>3, <1>9, <1>10

\* The steps, by what they do to each sink and to what its query has taken.
LEMMA StepsOfNext ==
  ASSUME Lake, [Next]_vars
  PROVE  /\ raw' = raw \/ WriteRaw
         /\ bronze' = bronze \/ WriteBronze
         /\ \/ watermark' = watermark
            \/ status["bronze"] # "none" /\ watermark' = NextWatermark("bronze")
         /\ \/ UNCHANGED <<errors, crashes, retries>>
            \/ WriteErrors
            \/ RetryTask
            \/ \E a \in App : Stop(a)
         /\ Through("bronze")' = Through("bronze") \/ WriteBronze
         /\ Through("errors")' = Through("errors") \/ WriteErrors \/ \E a \in App : Stop(a)
<1> USE DEF Query
<1>0. \A q \in Query : next[q] \in Nat \ {0} /\ last[q] \in Nat
  BY DEF Lake, Shape
<1>a. ASSUME NEW q \in Query, Turns(q), UNCHANGED <<bronze, errors>>,
             Through(q)' = Through(q),
             \/ watermark' = watermark
             \/ status["bronze"] # "none" /\ watermark' = NextWatermark("bronze")
      PROVE  /\ UNCHANGED <<raw, bronze, errors, crashes, retries>>
             /\ Through("bronze")' = Through("bronze") /\ Through("errors")' = Through("errors")
  BY <1>a DEF Turns, Through
<1>1. ASSUME NEW q \in Query, Plan(q)
      PROVE  /\ UNCHANGED <<raw, bronze, errors, crashes, retries>>
             /\ Through("bronze")' = Through("bronze") /\ Through("errors")' = Through("errors")
             /\ watermark' = watermark
  <2>1. /\ Turns(q) /\ UNCHANGED <<bronze, errors, watermark>> /\ next'[q] = next[q]
        /\ status[q] = "none" /\ status'[q] = "planned"
    BY <1>1, PlanStep
  <2>2. Through(q)' = Through(q)
    BY <2>1 DEF Through
  <2> QED BY <1>a, <2>1, <2>2
<1>2. ASSUME NEW q \in Query, Commit(q)
      PROVE  /\ UNCHANGED <<raw, bronze, errors, crashes, retries>>
             /\ Through("bronze")' = Through("bronze") /\ Through("errors")' = Through("errors")
             /\ \/ watermark' = watermark
                \/ status["bronze"] # "none" /\ watermark' = NextWatermark("bronze")
  <2>1. /\ Turns(q) /\ UNCHANGED <<bronze, errors>> /\ next'[q] = last[q] + 1
        /\ status[q] \in {"written", "recovered"} /\ status'[q] = "none"
    BY <1>2, CommitStep
  <2>2. Through(q)' = Through(q)
    BY <1>0, <2>1 DEF Through
  <2>3. \/ watermark' = watermark
        \/ status["bronze"] # "none" /\ watermark' = NextWatermark("bronze")
    BY <1>2 DEF Commit
  <2> QED BY <1>a, <2>1, <2>2, <2>3
<1>3. CASE WriteRaw \/ WriteBronze \/ WriteErrors
  <2>1. \A q \in Query : Writes(q) =>
          /\ UNCHANGED <<next, last, crashes, retries, watermark>>
          /\ \A p \in Query \ {q} : status'[p] = status[p]
    BY WritesStep
  <2>2. CASE WriteRaw
    BY <2>1, <2>2 DEF WriteRaw, Through
  <2>3. CASE WriteBronze
    BY <2>1, <2>3 DEF WriteBronze, Through
  <2>4. CASE WriteErrors
    BY <2>1, <2>4 DEF WriteErrors, Through
  <2> QED BY <1>3, <2>2, <2>3, <2>4
<1>4. ASSUME NEW a \in App, Stop(a)
      PROVE  /\ raw' = raw /\ bronze' = bronze /\ watermark' = watermark
             /\ Through("bronze")' = Through("bronze")
  BY <1>4, StopStep DEF Through
<1>5. CASE UNCHANGED <<raw, bronze, watermark, errors, crashes, retries, next, last, status>>
  BY <1>5 DEF Through
<1>7. CASE RetryTask
  BY <1>7, RetryStep DEF Through
<1>6. \/ \E q \in Query : Plan(q) \/ Commit(q)
      \/ WriteRaw \/ WriteBronze \/ WriteErrors
      \/ \E a \in App : Stop(a)
      \/ RetryTask
      \/ UNCHANGED <<raw, bronze, watermark, errors, crashes, retries, next, last, status>>
  BY DEF Next, Start, Publish, Expire, sources, sinks, control, faults, vars
<1> QED BY <1>1, <1>2, <1>3, <1>4, <1>5, <1>6, <1>7

\* What Bronze holds is right at the start.
LEMMA BronzeInit == Init => BronzeRight
<1> SUFFICES ASSUME Init PROVE BronzeRight
  OBVIOUS
<1>1. Through("bronze") = 0
  BY DEF Init, Through, Query
<1>2. Rows(raw, 0) = {}
  BY DEF Rows
<1> QED BY <1>1, <1>2 DEF Init, BronzeRight, BronzeOnePerEvent, WatermarkType

\* What Bronze holds stays right over every step.
LEMMA BronzeNext == Lake /\ Lake' /\ BronzeRight /\ [Next]_vars => BronzeRight'
<1> SUFFICES ASSUME Lake, Lake', BronzeRight, [Next]_vars PROVE BronzeRight'
  OBVIOUS
<1> USE DEF Query
<1>0. Len(topic) \in Nat /\ watermark \in Nat
  BY LakeBounds, WatermarkTyped DEF BronzeRight
<1>1. /\ watermark' \in WatermarkType /\ watermark' >= watermark /\ watermark' \in Nat
  <2>1. \/ watermark' = watermark
        \/ status["bronze"] # "none" /\ watermark' = NextWatermark("bronze")
    BY StepsOfNext
  <2>2. watermark \in WatermarkType
    BY DEF BronzeRight
  <2>3. watermark' \in WatermarkType /\ watermark' >= watermark
    BY <1>0, <2>1, <2>2, NextWatermarkRight
  <2> QED BY <2>3, WatermarkTyped
<1>2. CASE WriteBronze
  <2>1. /\ UNCHANGED <<topic, raw, watermark, next, last>>
        /\ status["bronze"] = "planned" /\ status'["bronze"] = "written"
    BY <1>2, WritesStep DEF WriteBronze
  <2>2. Through("bronze") = next["bronze"] - 1 /\ Through("bronze")' = last["bronze"]
    BY <2>1 DEF Through
  <2>3. Rows(raw, Through("bronze"))' = Rows(raw, Through("bronze")) \cup Batch("bronze")
    BY <2>1, <2>2, RowsTaken
  <2>4. /\ bronze \subseteq bronze' /\ bronze' \subseteq 1 .. Len(topic)
        /\ \A o, p \in bronze' : topic[o].event = topic[p].event => o = p
        /\ \A o \in Batch("bronze") :
             Rejected(o) \/ Late(o) \/ \E p \in bronze' : topic[p].event = topic[o].event
    BY <1>2, WriteBronzeStep DEF BronzeRight
  <2>5. \A o \in Rows(raw, Through("bronze"))' : Answered(o)'
    BY <2>1, <2>3, <2>4 DEF BronzeRight, Answered, Rejected, Late
  <2> QED BY <1>1, <2>1, <2>4, <2>5 DEF BronzeRight, BronzeOnePerEvent
<1>3. CASE ~WriteBronze
  <2>1. /\ bronze' = bronze /\ Through("bronze")' = Through("bronze")
        /\ raw' = raw \/ WriteRaw
    BY <1>3, StepsOfNext
  <2>2. Rows(raw, Through("bronze"))' = Rows(raw, Through("bronze"))
    BY <2>1, RowsStay
  <2>3. Rows(raw, Through("bronze")) \subseteq 1 .. Len(topic) /\ bronze \subseteq 1 .. Len(topic)
    BY RowsTaken DEF BronzeRight
  <2>4. /\ \A o \in 1 .. Len(topic) : topic'[o] = topic[o] /\ topic[o].event \in Nat
        /\ 1 .. Len(topic) \subseteq 1 .. Len(topic')
    BY <1>0, TopicStays, EventTyped
  <2>5. ASSUME NEW o \in 1 .. Len(topic), Answered(o) PROVE Answered(o)'
    <3>1. CASE Rejected(o)
      BY <2>4, <3>1 DEF Rejected, Answered
    <3>2. CASE Late(o)
      <4>1. topic[o].event <= watermark'
        BY <1>0, <1>1, <2>4, <3>2 DEF Late
      <4> QED BY <2>4, <3>2, <4>1 DEF Late, Answered
    <3>3. CASE \E p \in bronze : topic[p].event = topic[o].event
      BY <2>1, <2>3, <2>4, <3>3 DEF Answered
    <3> QED BY <2>5, <3>1, <3>2, <3>3 DEF Answered
  <2>6. BronzeOnePerEvent'
    BY <2>1, <2>3, <2>4 DEF BronzeRight, BronzeOnePerEvent
  <2> QED BY <1>1, <2>1, <2>2, <2>3, <2>4, <2>5, <2>6 DEF BronzeRight
<1> QED BY <1>2, <1>3

\* What Bronze holds is always right.
LEMMA BronzeAlways == Spec => [](Lake /\ BronzeRight)
BY LakeInit, LakeNext, BronzeInit, BronzeNext, PTL DEF Spec

\* Bronze holds one row per event_id: the state of dropDuplicates and what is
\* written never disagree, over batches, stops and candles published again.
THEOREM BronzeNoDuplicates == Spec => []BronzeOnePerEvent
<1>1. BronzeRight => BronzeOnePerEvent
  BY DEF BronzeRight
<1> QED BY <1>1, BronzeAlways, PTL

\* What the bronze query consumed and Bronze does not hold was rejected or came
\* at or below the watermark: a stop between the write and the commit of a batch
\* loses nothing.
THEOREM BronzeMissesOnlyLate == Spec => []MissingFromBronzeIsLate
<1>1. Lake /\ BronzeRight => MissingFromBronzeIsLate
  <2> SUFFICES ASSUME Lake, BronzeRight PROVE MissingFromBronzeIsLate
    OBVIOUS
  <2>1. Consumed("bronze") \subseteq Rows(raw, Through("bronze"))
    BY RowsTaken DEF Consumed, Rows, Query
  <2> QED BY <2>1 DEF BronzeRight, Answered, MissingFromBronzeIsLate
<1> QED BY <1>1, BronzeAlways, PTL

-----------------------------------------------------------------------------
(* The error sink *)

\* A Kafka sink gets rows again after a stop and from a task that is run again; a
\* Parquet sink does not.
Again == IF KafkaErrorSink THEN crashes + retries ELSE 0

\* A step that sends part of the batch in progress, and counts that as one more
\* time, leaves the error sink right.
PartSent(part) ==
  /\ KafkaErrorSink /\ status["errors"] = "planned"
  /\ part \in SUBSET {o \in Batch("errors") : Rejected(o)} /\ errors' = Sent(part)

ErrorsRight ==
  /\ errors \in [Offset -> Nat]
  /\ \A o \in Offset :
       /\ ~(o \in 1 .. Len(topic) /\ Rejected(o)) => errors[o] = 0
       /\ o \in Rows(raw, Through("errors")) /\ Rejected(o) => errors[o] >= 1
       /\ errors[o] <= (IF o \in Rows(raw, Through("errors")) THEN 1 ELSE 0) + Again

\* Sending rows adds one copy of each of them.
LEMMA SentOnce ==
  ASSUME errors \in [Offset -> Nat], NEW rows, errors' = Sent(rows)
  PROVE  /\ errors' \in [Offset -> Nat]
         /\ \A o \in rows \cap Offset : errors'[o] = errors[o] + 1
         /\ \A o \in Offset \ rows : errors'[o] = errors[o]
<1>1. \A o \in Offset : errors[o] + (IF o \in rows THEN 1 ELSE 0) \in Nat
  OBVIOUS
<1> QED BY <1>1 DEF Sent

\* The error sink is right at the start.
LEMMA ErrorsInit == Init => ErrorsRight
<1> SUFFICES ASSUME Init PROVE ErrorsRight
  OBVIOUS
<1>1. Through("errors") = 0 /\ Again = 0
  BY DEF Init, Through, Query, Again
<1>2. Rows(raw, 0) = {}
  BY DEF Rows
<1> QED BY <1>1, <1>2 DEF Init, ErrorsRight

\* The error sink stays right over every step.
LEMMA ErrorsNext == Lake /\ Lake' /\ ErrorsRight /\ [Next]_vars => ErrorsRight'
<1> SUFFICES ASSUME Lake, Lake', ErrorsRight, [Next]_vars PROVE ErrorsRight'
  OBVIOUS
<1> USE DEF Query
<1>0. /\ Len(topic) \in Nat /\ Len(topic) <= MaxMessages /\ MaxMessages \in Nat
      /\ crashes \in Nat /\ retries \in Nat /\ Again \in Nat /\ UNCHANGED platform
      /\ errors \in [Offset -> Nat] /\ \A o \in Offset : errors[o] \in Nat
  <2>1. Len(topic) \in Nat /\ Len(topic) <= MaxMessages /\ MaxMessages \in Nat
    BY LakeBounds, LakeAssumption
  <2>2. crashes \in Nat /\ retries \in Nat
    BY LakeAssumption DEF Lake, Shape
  <2>3. Again \in Nat
    BY <2>2 DEF Again
  <2>4. errors \in [Offset -> Nat]
    BY DEF ErrorsRight
  <2> QED BY <2>1, <2>2, <2>3, <2>4, PlatformStays
<1>1. 1 .. Len(topic) \subseteq Offset
  BY <1>0 DEF Offset
<1>2. ASSUME NEW o \in Offset
      PROVE  /\ ~(o \in 1 .. Len(topic) /\ Rejected(o)) => errors[o] = 0
             /\ o \in Rows(raw, Through("errors")) /\ Rejected(o) => errors[o] >= 1
             /\ o \in Rows(raw, Through("errors")) => errors[o] <= 1 + Again
             /\ o \notin Rows(raw, Through("errors")) => errors[o] <= Again
  BY <1>0 DEF ErrorsRight
<1>b. ASSUME NEW part, PartSent(part),
             UNCHANGED <<topic, raw>>, Again' = Again + 1,
             \A o \in Offset : Rejected(o)' <=> Rejected(o),
             Rows(raw, Through("errors"))' = Rows(raw, Through("errors"))
      PROVE  ErrorsRight'
  <2>1. Through("errors") = next["errors"] - 1
    BY <1>b DEF Through, PartSent
  <2>2. /\ Batch("errors") \subseteq 1 .. Len(topic)
        /\ Batch("errors") \cap Rows(raw, Through("errors")) = {}
    BY <1>b, <2>1, RowsTaken DEF PartSent
  <2>3. /\ errors' \in [Offset -> Nat]
        /\ \A o \in part \cap Offset : errors'[o] = errors[o] + 1
        /\ \A o \in Offset \ part : errors'[o] = errors[o]
    BY <1>0, <1>b, SentOnce DEF PartSent
  <2>4. part \subseteq {o \in Batch("errors") : Rejected(o)}
    BY <1>b DEF PartSent
  <2>5. ASSUME NEW o \in Offset
        PROVE  /\ ~(o \in 1 .. Len(topic') /\ Rejected(o)') => errors'[o] = 0
               /\ o \in Rows(raw, Through("errors"))' /\ Rejected(o)' => errors'[o] >= 1
               /\ errors'[o] <= (IF o \in Rows(raw, Through("errors"))' THEN 1 ELSE 0) + Again'
    <3>1. CASE o \in part
      BY <1>0, <1>2, <1>b, <2>2, <2>3, <2>4, <3>1
    <3>2. CASE o \notin part
      BY <1>0, <1>2, <1>b, <2>2, <2>3, <3>2
    <3> QED BY <3>1, <3>2
  <2> QED BY <2>3, <2>5 DEF ErrorsRight
<1>3. CASE WriteErrors
  <2>1. /\ UNCHANGED <<topic, raw, next, last, crashes, retries>>
        /\ status["errors"] = "planned" /\ status'["errors"] = "written"
    BY <1>3, WritesStep DEF WriteErrors
  <2>2. Through("errors") = next["errors"] - 1 /\ Through("errors")' = last["errors"]
    BY <2>1 DEF Through
  <2>3. /\ Rows(raw, Through("errors"))' = Rows(raw, Through("errors")) \cup Batch("errors")
        /\ Batch("errors") \subseteq 1 .. Len(topic)
        /\ Batch("errors") \cap Rows(raw, Through("errors")) = {}
    BY <2>1, <2>2, RowsTaken
  <2> DEFINE rows == {o \in Batch("errors") : Rejected(o)}
  <2>4. errors' = Sent(rows)
    BY <1>3 DEF WriteErrors
  <2>5. /\ errors' \in [Offset -> Nat]
        /\ \A o \in rows \cap Offset : errors'[o] = errors[o] + 1
        /\ \A o \in Offset \ rows : errors'[o] = errors[o]
    <3> HIDE DEF rows
    <3> QED BY <1>0, <2>4, SentOnce
  <2>6. Again' = Again /\ \A o \in Offset : Rejected(o)' <=> Rejected(o)
    BY <1>0, <2>1 DEF Again, Rejected, KafkaErrorSink
  <2>7. ASSUME NEW o \in Offset
        PROVE  /\ ~(o \in 1 .. Len(topic') /\ Rejected(o)') => errors'[o] = 0
               /\ o \in Rows(raw, Through("errors"))' /\ Rejected(o)' => errors'[o] >= 1
               /\ errors'[o] <= (IF o \in Rows(raw, Through("errors"))' THEN 1 ELSE 0) + Again'
    <3>1. CASE o \in rows
      BY <1>0, <1>2, <2>1, <2>3, <2>5, <2>6, <3>1
    <3>2. CASE o \notin rows
      BY <1>0, <1>2, <2>1, <2>3, <2>5, <2>6, <3>2
    <3> QED BY <3>1, <3>2
  <2> QED BY <2>5, <2>7 DEF ErrorsRight
<1>4. ASSUME NEW a \in App, Stop(a) PROVE ErrorsRight'
  <2>1. UNCHANGED <<topic, raw, next, last, retries>> /\ crashes' = crashes + 1
    BY <1>4, StopStep
  <2>2. /\ \A o \in Offset : Rejected(o)' <=> Rejected(o)
        /\ Again' = Again + (IF KafkaErrorSink THEN 1 ELSE 0)
    BY <1>0, <2>1 DEF Again, Rejected, KafkaErrorSink
  <2>3. /\ Rows(raw, Through("errors"))' \subseteq Rows(raw, Through("errors"))
        /\ ~KafkaErrorSink \/ status["errors"] # "written" =>
             Rows(raw, Through("errors"))' = Rows(raw, Through("errors"))
    <3>1. Rows(raw, next["errors"] - 1) \subseteq Rows(raw, Through("errors"))
      BY RowsTaken
    <3>2. \/ Through("errors")' = Through("errors")
          \/ /\ KafkaErrorSink /\ status["errors"] = "written"
             /\ Through("errors")' = next["errors"] - 1
      BY <1>4, StopStep DEF Through
    <3> QED BY <2>1, <3>1, <3>2
  <2>4. CASE UNCHANGED errors
    <3>1. ASSUME NEW o \in Offset
          PROVE  /\ ~(o \in 1 .. Len(topic') /\ Rejected(o)') => errors'[o] = 0
                 /\ o \in Rows(raw, Through("errors"))' /\ Rejected(o)' => errors'[o] >= 1
                 /\ errors'[o] <= (IF o \in Rows(raw, Through("errors"))' THEN 1 ELSE 0) + Again'
      <4>1. CASE KafkaErrorSink
        BY <1>0, <1>2, <2>1, <2>2, <2>3, <2>4, <4>1
      <4>2. CASE ~KafkaErrorSink
        BY <1>0, <1>2, <2>1, <2>2, <2>3, <2>4, <4>2
      <4> QED BY <4>1, <4>2
    <3> QED BY <1>0, <2>4, <3>1 DEF ErrorsRight
  <2>5. ASSUME NEW part, PartSent(part) PROVE ErrorsRight'
    <3>1. /\ Again' = Again + 1
          /\ Rows(raw, Through("errors"))' = Rows(raw, Through("errors"))
      BY <2>2, <2>3, <2>5 DEF PartSent
    <3> QED BY <1>b, <2>1, <2>2, <2>5, <3>1
  <2> QED BY <1>4, <2>4, <2>5 DEF Stop, PartSent
<1>6. CASE RetryTask
  <2>1. /\ UNCHANGED <<topic, raw, next, last, status, crashes>> /\ retries' = retries + 1
        /\ KafkaErrorSink /\ status["errors"] = "planned"
        /\ \E part \in SUBSET {o \in Batch("errors") : Rejected(o)} : errors' = Sent(part)
    BY <1>6, RetryStep
  <2>2. PICK part : PartSent(part)
    BY <2>1 DEF PartSent
  <2>3. /\ Again' = Again + 1 /\ \A o \in Offset : Rejected(o)' <=> Rejected(o)
        /\ Rows(raw, Through("errors"))' = Rows(raw, Through("errors"))
    BY <1>0, <2>1 DEF Again, Rejected, KafkaErrorSink, Through
  <2> QED BY <1>b, <2>1, <2>2, <2>3
<1>5. CASE ~WriteErrors /\ ~RetryTask /\ ~\E a \in App : Stop(a)
  <2>1. /\ UNCHANGED <<errors, crashes, retries>>
        /\ Through("errors")' = Through("errors") /\ (raw' = raw \/ WriteRaw)
    BY <1>5, StepsOfNext
  <2>2. Rows(raw, Through("errors"))' = Rows(raw, Through("errors")) /\ Again' = Again
    BY <1>0, <2>1, RowsStay DEF Again, KafkaErrorSink
  <2>3. Rows(raw, Through("errors")) \subseteq 1 .. Len(topic)
    BY RowsTaken
  <2>4. /\ \A o \in 1 .. Len(topic) : Rejected(o)' <=> Rejected(o)
        /\ 1 .. Len(topic) \subseteq 1 .. Len(topic')
    BY <1>0, TopicStays DEF Rejected
  <2> QED BY <2>1, <2>2, <2>3, <2>4 DEF ErrorsRight
<1> QED BY <1>3, <1>4, <1>5, <1>6

\* The error sink is always right.
LEMMA ErrorsAlways == Spec => [](Lake /\ ErrorsRight)
BY LakeInit, LakeNext, ErrorsInit, ErrorsNext, PTL DEF Spec

\* A rejected message reaches the error sink, once in Parquet and at most once
\* more per stop and per task run again in Kafka; nothing else does.
THEOREM ErrorsAreSent == Spec => []RejectedReachErrorSink
<1>1. Lake /\ ErrorsRight => RejectedReachErrorSink
  <2> SUFFICES ASSUME Lake, ErrorsRight, NEW o \in 1 .. Len(topic)
               PROVE  /\ Rejected(o) /\ o \in Consumed("errors") => errors[o] >= 1
                      /\ errors[o] <= (IF Rejected(o) THEN 1 ELSE 0)
                                        + (IF KafkaErrorSink /\ Rejected(o) THEN crashes + retries ELSE 0)
    BY DEF RejectedReachErrorSink
  <2>1. Consumed("errors") \subseteq Rows(raw, Through("errors"))
    BY RowsTaken DEF Consumed, Rows, Query
  <2>2. o \in Offset /\ crashes \in Nat /\ retries \in Nat /\ errors[o] \in Nat
    <3>1. o \in Offset
      BY LakeBounds, LakeAssumption DEF Offset
    <3>2. crashes \in Nat /\ retries \in Nat
      BY LakeAssumption DEF Lake, Shape
    <3> QED BY <3>1, <3>2 DEF ErrorsRight
  <2>3. CASE Rejected(o)
    BY <2>1, <2>2, <2>3 DEF ErrorsRight, Again
  <2>4. CASE ~Rejected(o)
    BY <2>2, <2>4 DEF ErrorsRight
  <2> QED BY <2>3, <2>4
<1> QED BY <1>1, ErrorsAlways, PTL

-----------------------------------------------------------------------------
(* Types *)

\* Every variable keeps its type: the positions of the queries and the copies in
\* the error sink stay below their bounds.
THEOREM LakeTypes == Spec => []TypeOK
<1>1. Lake /\ BronzeRight /\ ErrorsRight => TypeOK
  <2> SUFFICES ASSUME Lake, BronzeRight, ErrorsRight PROVE TypeOK
    OBVIOUS
  <2>1. next \in [Query -> 1 .. (MaxMessages + 1)] /\ last \in [Query -> 0 .. MaxMessages]
    <3>1. \A q \in Query : next[q] \in 1 .. (MaxMessages + 1) /\ last[q] \in 0 .. MaxMessages
      BY LakeBounds, LakeAssumption DEF Lake, Shape, Control
    <3> QED BY <3>1 DEF Lake, Shape
  <2>2. errors \in [Offset -> 0 .. (1 + MaxCrashes + MaxRetries)]
    <3>1. Again \in 0 .. (MaxCrashes + MaxRetries) /\ MaxCrashes \in Nat /\ MaxRetries \in Nat
      BY LakeAssumption DEF Again, Lake, Shape
    <3>2. \A o \in Offset : errors[o] \in 0 .. (1 + MaxCrashes + MaxRetries)
      BY <3>1 DEF ErrorsRight
    <3> QED BY <3>2 DEF ErrorsRight
  <2> QED BY <2>1, <2>2 DEF Lake, Shape, BronzeRight, WatermarkType, Files, TypeOK
<1> QED BY <1>1, BronzeAlways, ErrorsAlways, PTL
=============================================================================
