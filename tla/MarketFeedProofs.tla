-------------------------- MODULE MarketFeedProofs --------------------------
(***************************************************************************)
(* What both producers' proofs need: which row fetch_latest returns, and   *)
(* how many records of a kind a log holds when it grows or is consumed.    *)
(***************************************************************************)
EXTENDS MarketFeed, FiniteSets, Sequences, FiniteSetTheorems, FunctionTheorems,
        SequenceTheorems, TLAPS

\* The rows of one request are the open candle and, if there is one, the candle
\* before it: whatever the host clock says, fetch_latest returns one of the two,
\* and a final one is the last the market closed.
LEMMA FetchLatestTyped ==
  ASSUME openCandle \in [Key -> 0 .. MaxCandle], NEW k \in Key, NEW clock \in HostClock
  PROVE  /\ FetchLatest(k, clock) \in Record
         /\ FetchLatest(k, clock).key = k
         /\ FetchLatest(k, clock).candle \in {openCandle[k] - 1, openCandle[k]}
         /\ FetchLatest(k, clock).final => FetchLatest(k, clock).candle = openCandle[k] - 1
<1> DEFINE closed == ClosedRows(k, clock)
           rows   == IF closed # {} THEN closed ELSE Rows(k)
           last   == CHOOSE n \in rows : \A m \in rows : m <= n
<1>1. openCandle[k] \in 0 .. MaxCandle /\ openCandle[k] \in Int /\ MaxCandle \in Nat
  BY FeedAssumption
<1>2. Rows(k) \subseteq {openCandle[k] - 1, openCandle[k]} /\ openCandle[k] \in Rows(k)
  BY <1>1 DEF Rows
<1>3. closed \subseteq Rows(k)
  BY FeedAssumption DEF ClosedRows
<1>4. rows # {} /\ rows \subseteq Rows(k)
  BY <1>2, <1>3
<1>5. \E n \in rows : \A m \in rows : m <= n
  <2>1. CASE openCandle[k] \in rows
    BY <1>1, <1>2, <1>4, <2>1
  <2>2. CASE openCandle[k] \notin rows
    <3>1. rows = {openCandle[k] - 1}
      BY <1>2, <1>4, <2>2
    <3> QED BY <1>1, <3>1
  <2> QED BY <2>1, <2>2
<1>6. last \in rows
  BY <1>5
<1>7. last \in 0 .. MaxCandle /\ last \in {openCandle[k] - 1, openCandle[k]}
  BY <1>1, <1>2, <1>4, <1>6 DEF Rows
<1>8. FetchLatest(k, clock) = [key |-> k, candle |-> last, is_closed |-> last \in closed,
                               final |-> last < openCandle[k]]
  BY DEF FetchLatest
<1> HIDE DEF last
<1>9. FetchLatest(k, clock).final = (last < openCandle[k])
  BY <1>8
<1>10. last < openCandle[k] => last = openCandle[k] - 1
  BY <1>1, <1>7
<1>11. /\ FetchLatest(k, clock) \in Record
       /\ FetchLatest(k, clock).key = k
       /\ FetchLatest(k, clock).candle = last
  BY <1>7, <1>8 DEF Record
<1>12. FetchLatest(k, clock).final => last < openCandle[k]
  BY <1>9, Zenon
<1> QED BY <1>7, <1>10, <1>11, <1>12

-----------------------------------------------------------------------------
(* Records of a kind R in a log of records *)

Matching(log, R) == {i \in DOMAIN log : log[i] \in R}

\* The positions are finitely many, none in an empty log.
LEMMA MatchingFinite ==
  ASSUME NEW log \in Seq(Record), NEW R
  PROVE  /\ IsFiniteSet(Matching(log, R))
         /\ Cardinality(Matching(log, R)) \in Nat
         /\ Matching(log, R) \subseteq 1 .. Len(log)
<1>1. Matching(log, R) \in SUBSET (1 .. Len(log)) /\ Len(log) \in Nat
  BY LenProperties DEF Matching
<1>2. IsFiniteSet(1 .. Len(log))
  BY <1>1, FS_Interval
<1> QED BY <1>1, <1>2, FS_Subset, FS_CardinalityType

\* An appended record counts once.
LEMMA MatchingAppend ==
  ASSUME NEW log \in Seq(Record), NEW r \in Record, NEW R
  PROVE  Cardinality(Matching(Append(log, r), R))
           = Cardinality(Matching(log, R)) + (IF r \in R THEN 1 ELSE 0)
<1> DEFINE n == Len(log) + 1
<1>1. Len(log) \in Nat /\ DOMAIN log = 1 .. Len(log) /\ Append(log, r) \in Seq(Record)
  BY LenProperties, AppendProperties
<1>2. DOMAIN Append(log, r) = 1 .. n
  BY LenProperties, AppendProperties, <1>1
<1>3. \A i \in 1 .. Len(log) : Append(log, r)[i] = log[i]
  BY AppendProperties
<1>4. Append(log, r)[n] = r
  BY AppendProperties
<1>5. n \notin Matching(log, R)
  BY <1>1 DEF Matching
<1>6. Matching(Append(log, r), R) = IF r \in R THEN Matching(log, R) \cup {n} ELSE Matching(log, R)
  BY <1>1, <1>2, <1>3, <1>4 DEF Matching
<1>7. Cardinality(Matching(log, R) \cup {n}) = Cardinality(Matching(log, R)) + 1
  BY <1>5, MatchingFinite, FS_AddElement
<1> QED BY <1>6, <1>7, MatchingFinite

\* What leaves at the head counts once: the other positions move down by one.
LEMMA MatchingTail ==
  ASSUME NEW log \in Seq(Record), log # << >>, NEW R
  PROVE  Cardinality(Matching(log, R))
           = Cardinality(Matching(Tail(log), R)) + (IF Head(log) \in R THEN 1 ELSE 0)
<1> DEFINE after == Matching(log, R) \ {1}
           shift == [i \in Matching(Tail(log), R) |-> i + 1]
<1>1. /\ Len(log) \in Nat /\ Len(log) > 0 /\ DOMAIN log = 1 .. Len(log)
      /\ Tail(log) \in Seq(Record) /\ DOMAIN Tail(log) = 1 .. Len(log) - 1
      /\ Head(log) = log[1]
      /\ \A i \in 1 .. Len(log) - 1 : Tail(log)[i] = log[i + 1]
  BY LenProperties, EmptySeq, HeadTailProperties
<1>2. shift \in Bijection(Matching(Tail(log), R), after)
  <2>1. shift \in [Matching(Tail(log), R) -> after]
    BY <1>1 DEF Matching
  <2>2. ASSUME NEW i \in Matching(Tail(log), R), NEW j \in Matching(Tail(log), R),
               shift[i] = shift[j]
        PROVE  i = j
    BY <1>1, <2>2 DEF Matching
  <2>3. ASSUME NEW j \in after
        PROVE  \E i \in Matching(Tail(log), R) : shift[i] = j
    <3>1. j - 1 \in 1 .. Len(log) - 1 /\ j \in 1 .. Len(log) /\ log[j] \in R
      BY <1>1 DEF Matching
    <3>2. j - 1 \in Matching(Tail(log), R)
      BY <1>1, <3>1 DEF Matching
    <3> QED BY <3>1, <3>2
  <2> QED BY <2>1, <2>2, <2>3, Fun_IsBij
<1>3. Cardinality(after) = Cardinality(Matching(Tail(log), R))
  BY <1>1, <1>2, MatchingFinite, FS_Bijection, Fun_ExistsBij DEF ExistsBijection
<1>4. 1 \in Matching(log, R) <=> Head(log) \in R
  BY <1>1 DEF Matching
<1>5. Cardinality(after) = IF Head(log) \in R THEN Cardinality(Matching(log, R)) - 1
                                              ELSE Cardinality(Matching(log, R))
  BY <1>4, MatchingFinite, FS_RemoveElement
<1> QED BY <1>1, <1>3, <1>5, MatchingFinite
=============================================================================
