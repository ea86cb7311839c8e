------------------------- MODULE ServingLayerProofs -------------------------
(***************************************************************************)
(* ServingLayer for every set of keys, clients and invocations, all limits *)
(* and numbers of rebuilds: its types, the pages a client receives, and    *)
(* what the projection does to the items.                                  *)
(***************************************************************************)
EXTENDS ServingLayer, FiniteSetTheorems, FunctionTheorems, SequenceTheorems, TLAPS

-----------------------------------------------------------------------------
(* Pages *)

\* The position a page of a result of n rows ends at, the header counted.
LastOf(n, limit, token) == Smaller(token + MaxResults(limit, token), n + 1)

\* A page is never empty while there are rows left, and the first one holds what
\* the limit and the cap of GetQueryResults let through, beside the header.
LEMMA LastOfRange ==
  ASSUME NEW n \in Nat, NEW limit \in Nat \ {0}, NEW token \in 0 .. n
  PROVE  /\ LastOf(n, limit, token) \in (token + 1) .. (n + 1)
         /\ token = 0 => LastOf(n, limit, token) = Smaller(n, Smaller(limit, AthenaMax - 1)) + 1
BY AthenaAssumption DEF LastOf, MaxResults, Smaller

\* The header and the rows of a query, position by position.
LEMMA HeaderAndRows ==
  ASSUME NEW q \in Seq(Row)
  PROVE  /\ <<Header>> \o q \in Seq(Row \cup {Header})
         /\ Len(<<Header>> \o q) = Len(q) + 1
         /\ (<<Header>> \o q)[1] = Header
         /\ \A j \in 2 .. Len(q) + 1 : (<<Header>> \o q)[j] = q[j - 1]
<1> DEFINE head == <<Header>>
<1>1. head \in Seq(Row \cup {Header}) /\ Len(head) = 1 /\ head[1] = Header
  OBVIOUS
<1>2. q \in Seq(Row \cup {Header}) /\ Len(q) \in Nat
  BY SeqMonotonic, LenProperties
<1> HIDE DEF head
<1>3. /\ head \o q \in Seq(Row \cup {Header}) /\ Len(head \o q) = Len(head) + Len(q)
      /\ \A j \in 1 .. Len(head) + Len(q) :
           (head \o q)[j] = IF j <= Len(head) THEN head[j] ELSE q[j - Len(head)]
  BY <1>1, <1>2, ConcatProperties
<1>4. (head \o q)[1] = Header
  BY <1>1, <1>2, <1>3
<1>5. \A j \in 2 .. Len(q) + 1 : (head \o q)[j] = q[j - 1]
  BY <1>1, <1>2, <1>3
<1> QED BY <1>1, <1>3, <1>4, <1>5 DEF head

\* A stretch of a sequence, position by position.
LEMMA StretchIs ==
  ASSUME NEW S, NEW all \in Seq(S), NEW token \in Nat, NEW last \in (token + 1) .. Len(all)
  PROVE  /\ SubSeq(all, token + 1, last) \in Seq(S)
         /\ Len(SubSeq(all, token + 1, last)) = last - token
         /\ \A j \in 1 .. last - token : SubSeq(all, token + 1, last)[j] = all[token + j]
<1>1. Len(all) \in Nat
  BY LenProperties
<1>2. token + 1 \in 1 .. (Len(all) + 1) /\ last \in ((token + 1) - 1) .. Len(all)
  BY <1>1
<1>3. /\ SubSeq(all, token + 1, last) \in Seq(S)
      /\ Len(SubSeq(all, token + 1, last)) = (last - (token + 1)) + 1
      /\ \A j \in 1 .. (last - (token + 1)) + 1 :
           SubSeq(all, token + 1, last)[j] = all[((token + 1) + j) - 1]
  BY <1>2, SubSeqProperties
<1>4. /\ (last - (token + 1)) + 1 = last - token
      /\ \A j \in Int : ((token + 1) + j) - 1 = token + j
  BY <1>1
<1> QED BY <1>3, <1>4

\* A sequence whose elements are in S is a sequence over S.
LEMMA Retyped ==
  ASSUME NEW S, NEW T, NEW s \in Seq(T), \A j \in 1 .. Len(s) : s[j] \in S
  PROVE  s \in Seq(S)
<1>1. Len(s) \in Nat /\ s \in [1 .. Len(s) -> T]
  BY LenProperties
<1>2. s \in [1 .. Len(s) -> S]
  BY <1>1
<1> QED BY <1>1, <1>2, SeqDef

\* What the code keeps of a page, the header dropped: rows of the query, from the
\* token on, up to the next token or to the end.
LEMMA StrippedPage ==
  ASSUME NEW i, query[i].rows \in Seq(Row),
         NEW limit \in Nat \ {0}, NEW token \in 0 .. Len(query[i].rows)
  PROVE  LET t     == query[i].rows
             page  == Page(i, limit, token)
             kept  == StripHeader(page.rows)
             first == IF token = 0 THEN 1 ELSE token
             last  == LastOf(Len(t), limit, token)
         IN  /\ kept \in Seq(Row) /\ Len(kept) = last - first
             /\ \A j \in 1 .. last - first : kept[j] = t[(first + j) - 1]
             /\ page.next = IF last < Len(t) + 1 THEN last ELSE 0
             /\ token = 0 => kept = Tail(page.rows)
<1> DEFINE t    == query[i].rows
           page == Page(i, limit, token)
           last == LastOf(Len(t), limit, token)
           all  == <<Header>> \o t
           kept == StripHeader(page.rows)
<1> SUFFICES
      /\ page.next = IF last < Len(t) + 1 THEN last ELSE 0
      /\ token = 0 => /\ kept = Tail(page.rows) /\ kept \in Seq(Row) /\ Len(kept) = last - 1
                      /\ \A j \in 1 .. last - 1 : kept[j] = t[j]
      /\ token # 0 => /\ kept \in Seq(Row) /\ Len(kept) = last - token
                      /\ \A j \in 1 .. last - token : kept[j] = t[(token + j) - 1]
  <2>1. \A j \in Int : (1 + j) - 1 = j
    OBVIOUS
  <2>2. last \in Int
    <3>1. Len(t) \in Nat
      BY LenProperties
    <3>2. last \in (token + 1) .. (Len(t) + 1)
      BY <3>1, LastOfRange
    <3> QED BY <3>1, <3>2
  <2> HIDE DEF page, last, t, kept
  <2>3. \A j \in 1 .. last - 1 : (1 + j) - 1 = j
    BY <2>1, <2>2
  <2> QED BY <2>3 DEF page, last, t, kept
<1>1. /\ Len(t) \in Nat /\ token \in Nat
      /\ all \in Seq(Row \cup {Header}) /\ Len(all) = Len(t) + 1
      /\ all[1] = Header /\ \A j \in 2 .. Len(t) + 1 : all[j] = t[j - 1]
  BY HeaderAndRows, LenProperties
<1>2. last \in (token + 1) .. Len(all)
  BY <1>1, LastOfRange
<1>3. page.rows = SubSeq(all, token + 1, last) /\ page.next = IF last < Len(t) + 1 THEN last ELSE 0
  BY <1>1 DEF Page, LastOf
<1> HIDE DEF all, last, page, kept
<1>4. /\ page.rows \in Seq(Row \cup {Header}) /\ Len(page.rows) = last - token
      /\ \A j \in 1 .. last - token : page.rows[j] = all[token + j]
  BY <1>1, <1>2, <1>3, StretchIs
<1>5. page.rows # <<>> /\ Head(page.rows) = page.rows[1]
  <2>1. Len(page.rows) # 0 /\ Len(<<>>) = 0
    BY <1>1, <1>2, <1>4
  <2> QED BY <2>1, <1>4
<1>6. Header \notin Row
  BY AthenaAssumption DEF Header, Row
<1>7. CASE token = 0
  <2>1. Head(page.rows) = Header
    BY <1>1, <1>2, <1>4, <1>5, <1>7
  <2>2. kept = Tail(page.rows)
    BY <1>5, <2>1 DEF StripHeader, kept
  <2> DEFINE tail == Tail(page.rows)
  <2>3. /\ tail \in Seq(Row \cup {Header}) /\ Len(tail) = last - 1
        /\ \A j \in 1 .. last - 1 : tail[j] = page.rows[j + 1]
    BY <1>1, <1>2, <1>4, <1>5, <1>7, HeadTailProperties
  <2> HIDE DEF tail
  <2>4. ASSUME NEW j \in 1 .. last - 1 PROVE tail[j] = t[j]
    <3>1. tail[j] = page.rows[j + 1] /\ j + 1 \in 1 .. last
      BY <1>1, <1>2, <2>3
    <3>2. page.rows[j + 1] = all[j + 1]
      BY <1>4, <1>7, <1>2, <1>1, <3>1
    <3>3. j + 1 \in 2 .. Len(t) + 1 /\ (j + 1) - 1 = j
      BY <1>1, <1>2
    <3> QED BY <1>1, <3>1, <3>2, <3>3
  <2>5. \A j \in 1 .. last - 1 : tail[j] \in Row
    <3>1. \A j \in 1 .. last - 1 : j \in 1 .. Len(t)
      BY <1>1, <1>2
    <3>2. \A j \in 1 .. Len(t) : t[j] \in Row
      BY ElementOfSeq
    <3> QED BY <2>4, <3>1, <3>2
  <2>6. tail \in Seq(Row)
    BY <2>3, <2>5, Retyped
  <2>7. kept = tail
    BY <2>2 DEF tail
  <2>8. /\ tail \in Seq(Row) /\ Len(tail) = last - 1
        /\ \A j \in 1 .. last - 1 : tail[j] = t[j]
    BY <2>3, <2>4, <2>6
  <2> QED BY <1>3, <1>7, <2>2, <2>7, <2>8
<1>8. CASE token # 0
  <2>1. ASSUME NEW j \in 1 .. last - token
        PROVE  page.rows[j] = t[(token + j) - 1] /\ (token + j) - 1 \in 1 .. Len(t)
    <3>1. token + j \in 2 .. Len(t) + 1
      BY <1>1, <1>2, <1>8
    <3>2. page.rows[j] = all[token + j] /\ all[token + j] = t[(token + j) - 1]
      BY <1>1, <1>4, <3>1
    <3>3. (token + j) - 1 \in 1 .. Len(t)
      BY <1>1, <3>1
    <3> QED BY <3>2, <3>3
  <2>2. \A j \in 1 .. last - token : page.rows[j] \in Row
    <3>1. \A j \in 1 .. Len(t) : t[j] \in Row
      BY ElementOfSeq
    <3> QED BY <2>1, <3>1
  <2>3. 1 \in 1 .. last - token
    BY <1>1, <1>2
  <2>4. Head(page.rows) # Header
    BY <1>5, <1>6, <2>2, <2>3
  <2>5. kept = page.rows
    BY <2>4 DEF StripHeader, kept
  <2>6. page.rows \in Seq(Row)
    BY <1>4, <2>2, Retyped
  <2> QED BY <1>3, <1>4, <1>8, <2>1, <2>5, <2>6
<1> QED BY <1>7, <1>8

-----------------------------------------------------------------------------
(* The inductive invariant *)

QueryShape == [state : {"none", "running", "succeeded"}, rows : Seq(Row)]

SessionShape == [limit : 0 .. MaxLimit, received : Seq(Row), next : Nat]

Shape ==
  /\ gen \in 0 .. MaxGen /\ candles \in 0 .. gen
  /\ latest \in [Key -> {0, gen}]
  /\ phase \in [Invocation -> Phase]
  /\ query \in [Invocation -> QueryShape]
  /\ item \in [Key -> 0 .. gen]
  /\ rows \in [Projection -> Seq(Row)]
  /\ raced \subseteq Projection
  /\ session \in [Client -> SessionShape]

\* What a client in phase ph with query q has in its session s: while it waits,
\* nothing; when it has been answered, the rows of q up to its token, or all.
ClientRight(ph, q, s) ==
  /\ q.state = "running" => ph = "waiting"
  /\ Len(q.rows) <= MaxGen
  /\ s.next > 0 => ph = "ok" /\ s.limit > 0
  /\ ph = "waiting" => s.limit > 0 /\ s.received = <<>> /\ s.next = 0
  /\ ph = "ok" /\ s.limit > 0 =>
       /\ s.next <= Len(q.rows)
       /\ Len(s.received) = IF s.next > 0 THEN s.next - 1 ELSE Len(q.rows)
       /\ \A j \in 1 .. Len(s.received) : s.received[j] = q.rows[j]

Clients == \A c \in Client : ClientRight(phase[c], query[c], session[c])

\* The rows of one page of a projection's query.
PageSize(t) == Smaller(Len(t), Smaller(QueryLimit, AthenaMax - 1))

\* t holds one row per key, of rebuild g at most.
Table(t, g) ==
  /\ Len(t) <= Cardinality(Key)
  /\ \A j \in 1 .. Len(t) : t[j].key \in Key /\ t[j].gen <= g
  /\ \A j, l \in 1 .. Len(t) : t[j].key = t[l].key => j = l

\* What a projection in phase ph still has to put: the end of its page.
Remaining(ph, t, s) ==
  IF ph = "putting"
  THEN /\ Len(s) <= PageSize(t)
       /\ \A j \in 1 .. Len(s) : s[j] = t[(PageSize(t) - Len(s)) + j]
  ELSE s = <<>>

ProjectionRight(ph, q, s, g) ==
  /\ q.state = "running" => ph = "waiting" /\ q.rows = <<>>
  /\ Table(q.rows, g)
  /\ Remaining(ph, q.rows, s)

Projections == \A p \in Projection : ProjectionRight(phase[p], query[p], rows[p], gen)

\* Of two invocations under way each has been overlapped.
Races ==
  /\ raced \subseteq {p \in Projection : IsBusy(p)}
  /\ \A p, o \in Projection : p # o /\ IsBusy(p) /\ IsBusy(o) => p \in raced

\* No item is newer than the row t has for it, and those put are as new.
UpToDate(ph, t, s, it) ==
  /\ \A j \in 1 .. Len(t) : it[t[j].key] <= t[j].gen
  /\ ph = "putting" => \A j \in 1 .. (PageSize(t) - Len(s)) : it[t[j].key] = t[j].gen

Fresh ==
  \A p \in Projection : IsBusy(p) /\ p \notin raced =>
    UpToDate(phase[p], query[p].rows, rows[p], item)

Inv == Shape /\ Clients /\ Projections /\ Races /\ Fresh

-----------------------------------------------------------------------------
(* Results *)

\* The result of the projection's query: a row for every key of the table that
\* has one, each once, with what the table holds for it.
LEMMA OrderingIs ==
  ASSUME NEW g \in 0 .. MaxGen, NEW table \in [Key -> 0 .. g], NEW t \in Orderings(table)
  PROVE  /\ t \in Seq(Row) /\ Table(t, g)
         /\ \A j \in 1 .. Len(t) : t[j].gen = table[t[j].key] /\ t[j].gen > 0
<1> DEFINE Present == {k \in Key : table[k] > 0}
           RowOf   == [k \in Present |-> [key |-> k, gen |-> table[k]]]
           All     == {[key |-> k, gen |-> table[k]] : k \in Present}
<1>1. IsFiniteSet(Present) /\ Cardinality(Present) <= Cardinality(Key)
  BY FS_Subset, AthenaAssumption
<1>2. RowOf \in Surjection(Present, All)
  BY DEF Surjection
<1>3. IsFiniteSet(All) /\ Cardinality(All) <= Cardinality(Present)
  <2> HIDE DEF Present, RowOf, All
  <2> QED BY <1>1, <1>2, FS_Surjection
<1>4. /\ Cardinality(All) \in Nat /\ Cardinality(Present) \in Nat
      /\ Cardinality(Key) \in Nat
  BY <1>1, <1>3, FS_CardinalityType, AthenaAssumption
<1>5. /\ t \in [1 .. Cardinality(All) -> All]
      /\ \A i, j \in 1 .. Cardinality(All) : i # j => t[i] # t[j]
  BY DEF Orderings, SetToSeqs
<1>6. ASSUME NEW r \in All
      PROVE  r \in Row /\ r.key \in Key /\ r.gen = table[r.key] /\ r.gen > 0 /\ r.gen <= g
  <2>1. PICK k \in Present : r = [key |-> k, gen |-> table[k]]
    OBVIOUS
  <2>2. table[k] \in 0 .. g /\ table[k] > 0 /\ MaxGen \in Nat /\ g \in 0 .. MaxGen
    BY AthenaAssumption
  <2>3. table[k] \in 1 .. MaxGen /\ table[k] <= g
    BY <2>2
  <2> QED BY <2>1, <2>2, <2>3 DEF Row
<1>7. \A r, s \in All : r.key = s.key => r = s
  OBVIOUS
<1> HIDE DEF Present, RowOf, All
<1>8. t \in Seq(All) /\ Len(t) = Cardinality(All)
  BY <1>4, <1>5, SeqDef, LenProperties
<1>9. \A j \in 1 .. Len(t) : t[j] \in All
  BY <1>5, <1>8
<1>10. t \in Seq(Row)
  BY <1>6, <1>8, <1>9, Retyped
<1>11. Len(t) <= Cardinality(Key)
  BY <1>1, <1>3, <1>4, <1>8
<1>12. \A j, l \in 1 .. Len(t) : t[j].key = t[l].key => j = l
  BY <1>5, <1>7, <1>8, <1>9
<1> QED BY <1>6, <1>9, <1>10, <1>11, <1>12 DEF Table

\* The result of the query for the history of a series.
LEMMA HistoryIs ==
  ASSUME candles \in 0 .. MaxGen, NEW limit \in Nat
  PROVE  HistoryRows(limit) \in Seq(Row) /\ Len(HistoryRows(limit)) <= MaxGen
<1> DEFINE n == Smaller(limit, candles)
           t == HistoryRows(limit)
<1>1. n \in Nat /\ n <= candles /\ candles <= MaxGen /\ candles \in Nat /\ MaxGen \in Nat
  BY AthenaAssumption DEF Smaller
<1>2. \A j \in 1 .. n : t[j] \in Row
  <2> SUFFICES ASSUME NEW j \in 1 .. n PROVE t[j] \in Row
    OBVIOUS
  <2>1. t[j] = [key |-> "candle", gen |-> (candles + 1) - j]
    BY DEF HistoryRows
  <2> HIDE DEF n
  <2>2. (candles + 1) - j \in 1 .. MaxGen
    BY <1>1
  <2> QED BY <2>1, <2>2 DEF Row
<1>3. t \in [1 .. n -> Row]
  BY <1>2 DEF HistoryRows
<1> HIDE DEF n, t
<1>4. t \in Seq(Row) /\ Len(t) = n
  BY <1>1, <1>3, SeqDef, LenProperties
<1> QED BY <1>1, <1>4 DEF t

-----------------------------------------------------------------------------
(* A step of a client *)

ApiStep(c) ==
  \/ Refuse(c) \/ GetLatest(c)
  \/ \E limit \in 1 .. MaxLimit : GetHistory(c, limit) \/ NextPage(c, limit)
  \/ HistoryQuerySucceeds(c)
  \/ Handle(c)
  \/ (PollFailed(c) \/ Breaks(c)) /\ session' = [session EXCEPT ![c] = NoSession]

\* Client c turns to phase ph, query q and session s.
ClientBecomes(c, ph, q, s) ==
  /\ phase' = [phase EXCEPT ![c] = ph]
  /\ query' = [query EXCEPT ![c] = q]
  /\ session' = [session EXCEPT ![c] = s]

\* NoQuery has no rows and is not running.
LEMMA EmptyQuery == NoQuery \in QueryShape /\ Len(NoQuery.rows) = 0 /\ NoQuery.state = "none"
<1>1. <<>> \in Seq(Row) /\ Len(<<>>) = 0
  OBVIOUS
<1> QED BY <1>1 DEF NoQuery, QueryShape

\* A session that has received nothing.
LEMMA EmptySession ==
  ASSUME NEW limit \in 0 .. MaxLimit
  PROVE  /\ [limit |-> limit, received |-> <<>>, next |-> 0] \in SessionShape
         /\ NoSession \in SessionShape
<1>1. <<>> \in Seq(Row) /\ 0 \in 0 .. MaxLimit /\ 0 \in Nat
  BY ApiAssumption
<1> QED BY <1>1 DEF NoSession, SessionShape

\* A client that receives a page as its first, or with the token of the one before.
LEMMA PageReceived ==
  ASSUME NEW c \in Client, query[c] \in QueryShape, Len(query[c].rows) <= MaxGen,
         query[c].state # "running",
         NEW s \in SessionShape, s.limit > 0,
         NEW limit \in Nat \ {0}, NEW token \in 0 .. Len(query[c].rows),
         Len(s.received) = IF token = 0 THEN 0 ELSE token - 1,
         \A j \in 1 .. Len(s.received) : s.received[j] = query[c].rows[j],
         NEW next, next = [s EXCEPT !.received = @ \o StripHeader(Page(c, limit, token).rows),
                                    !.next = Page(c, limit, token).next]
  PROVE  next \in SessionShape /\ ClientRight("ok", query[c], next)
<1> DEFINE t     == query[c].rows
           page  == Page(c, limit, token)
           kept  == StripHeader(page.rows)
           first == IF token = 0 THEN 1 ELSE token
           last  == LastOf(Len(t), limit, token)
           got   == s.received
<1>1. /\ t \in Seq(Row) /\ Len(t) \in Nat /\ token \in Nat /\ s.limit \in 0 .. MaxLimit
      /\ got \in Seq(Row) /\ Len(got) \in Nat
  BY LenProperties DEF QueryShape, SessionShape
<1>2. last \in (token + 1) .. (Len(t) + 1)
  BY <1>1, LastOfRange
<1>3. /\ kept \in Seq(Row) /\ Len(kept) = last - first
      /\ \A j \in 1 .. last - first : kept[j] = t[(first + j) - 1]
      /\ page.next = IF last < Len(t) + 1 THEN last ELSE 0
  BY <1>1, StrippedPage
<1>4. /\ next.limit = s.limit /\ next.received = got \o kept /\ next.next = page.next
      /\ next = [limit |-> s.limit, received |-> got \o kept, next |-> page.next]
  BY DEF SessionShape
<1>5. Len(got) = first - 1 /\ first \in 1 .. last
  BY <1>1, <1>2
<1> HIDE DEF t, page, kept, first, last, got
<1>6. /\ got \o kept \in Seq(Row) /\ Len(got \o kept) = Len(got) + Len(kept)
      /\ \A j \in 1 .. Len(got) + Len(kept) :
           (got \o kept)[j] = IF j <= Len(got) THEN got[j] ELSE kept[j - Len(got)]
  BY <1>1, <1>3, ConcatProperties
<1>7. Len(got) + Len(kept) = last - 1 /\ last - 1 <= Len(t)
  BY <1>1, <1>2, <1>3, <1>5
<1>8. ASSUME NEW j \in 1 .. last - 1 PROVE (got \o kept)[j] = t[j]
  <2>1. j \in 1 .. Len(got) + Len(kept) /\ j \in Int /\ Len(got) \in Int
    BY <1>1, <1>2, <1>7
  <2>2. CASE j <= Len(got)
    <3>1. (got \o kept)[j] = got[j] /\ j \in 1 .. Len(got)
      BY <1>6, <2>1, <2>2
    <3>2. got[j] = t[j]
      BY <3>1 DEF got, t
    <3> QED BY <3>1, <3>2
  <2>3. CASE ~(j <= Len(got))
    <3>1. (got \o kept)[j] = kept[j - Len(got)]
      BY <1>6, <2>1, <2>3
    <3>2. j - Len(got) \in 1 .. last - first /\ (first + (j - Len(got))) - 1 = j
      <4>1. first \in Int /\ last \in Int
        BY <1>1, <1>2, <1>5
      <4>2. j <= last - 1 /\ j \in Int
        BY <4>1
      <4> HIDE DEF got
      <4> QED BY <1>5, <2>1, <2>3, <4>1, <4>2
    <3>3. kept[j - Len(got)] = t[(first + (j - Len(got))) - 1]
      BY <1>3, <3>2
    <3> QED BY <3>1, <3>2, <3>3
  <2> QED BY <2>2, <2>3
<1>9. page.next \in Nat /\ (page.next > 0 => page.next = last /\ last <= Len(t))
      /\ (~(page.next > 0) => last = Len(t) + 1)
  BY <1>1, <1>2, <1>3
<1>10. next \in SessionShape
  BY <1>1, <1>4, <1>6, <1>9 DEF SessionShape
<1>11. /\ next.next <= Len(t)
       /\ Len(next.received) = IF next.next > 0 THEN next.next - 1 ELSE Len(t)
       /\ \A j \in 1 .. Len(next.received) : next.received[j] = t[j]
  <2>1. Len(next.received) = last - 1
    BY <1>4, <1>6, <1>7
  <2>2. \A j \in 1 .. Len(next.received) : next.received[j] = t[j]
    BY <1>4, <1>8, <2>1
  <2>3. next.next <= Len(t)
    BY <1>1, <1>4, <1>9
  <2>4. Len(next.received) = IF next.next > 0 THEN next.next - 1 ELSE Len(t)
    BY <1>1, <1>2, <1>4, <1>9, <2>1
  <2> QED BY <2>2, <2>3, <2>4
<1> QED BY <1>4, <1>10, <1>11 DEF ClientRight, t

\* A client that forgets what it had.
LEMMA Forgotten ==
  ASSUME NEW ph \in {"ok", "failed"}
  PROVE  ClientRight(ph, NoQuery, NoSession)
<1>1. MaxGen \in Nat /\ Len(NoQuery.rows) = 0 /\ NoQuery.state = "none"
  BY AthenaAssumption, EmptyQuery
<1>2. NoSession.limit = 0 /\ NoSession.next = 0
  BY DEF NoSession
<1> QED BY <1>1, <1>2 DEF ClientRight

\* Every step of a client leaves it with a right phase, query and session.
LEMMA ApiStepBecomes ==
  ASSUME Shape, Clients, NEW c \in Client, ApiStep(c)
  PROVE  /\ UNCHANGED goldVars
         /\ \E ph \in Phase, q \in QueryShape, s \in SessionShape :
              ClientRight(ph, q, s) /\ ClientBecomes(c, ph, q, s)
<1> DEFINE Goal == /\ UNCHANGED goldVars
                   /\ \E ph \in Phase, q \in QueryShape, s \in SessionShape :
                        ClientRight(ph, q, s) /\ ClientBecomes(c, ph, q, s)
<1>1. /\ c \in Invocation
      /\ phase \in [Invocation -> Phase] /\ phase[c] \in Phase
      /\ query \in [Invocation -> QueryShape] /\ query[c] \in QueryShape
      /\ session \in [Client -> SessionShape] /\ session[c] \in SessionShape
      /\ ClientRight(phase[c], query[c], session[c])
  BY ApiAssumption DEF Shape, Clients
<1>2. /\ phase = [phase EXCEPT ![c] = phase[c]]
      /\ query = [query EXCEPT ![c] = query[c]]
      /\ session = [session EXCEPT ![c] = session[c]]
  BY <1>1
<1>3. NoQuery \in QueryShape /\ NoSession \in SessionShape /\ 0 \in 0 .. MaxLimit
  <2>1. 0 \in 0 .. MaxLimit
    BY ApiAssumption
  <2> QED BY <2>1, EmptyQuery, EmptySession
<1>4. {"ok", "failed", "waiting"} \subseteq Phase
  BY DEF Phase
<1>5. ASSUME NEW ph \in {"ok", "failed"}, UNCHANGED goldVars, ClientBecomes(c, ph, NoQuery, NoSession)
      PROVE  Goal
  BY <1>3, <1>4, <1>5, Forgotten
<1>6. CASE Refuse(c) \/ GetLatest(c)
  <2>1. UNCHANGED goldVars /\ \E ph \in {"ok", "failed"} : ClientBecomes(c, ph, NoQuery, NoSession)
    BY <1>6 DEF Refuse, GetLatest, Forget, ClientBecomes
  <2> QED BY <1>5, <2>1
<1>7. CASE /\ PollFailed(c) \/ Breaks(c) \/ GivesUp(c)
           /\ session' = [session EXCEPT ![c] = NoSession]
  <2>1. UNCHANGED goldVars /\ ClientBecomes(c, "failed", NoQuery, NoSession)
    BY <1>7 DEF PollFailed, Breaks, GivesUp, Fail, ClientBecomes
  <2> QED BY <1>5, <2>1
<1>8. ASSUME NEW limit \in 1 .. MaxLimit, GetHistory(c, limit) PROVE Goal
  <2> DEFINE q == [state |-> "running", rows |-> <<>>]
             s == [limit |-> limit, received |-> <<>>, next |-> 0]
  <2>1. [NoSession EXCEPT !.limit = limit] = s
    BY DEF NoSession
  <2>2. UNCHANGED goldVars /\ ClientBecomes(c, "waiting", q, s)
    BY <1>8, <2>1 DEF GetHistory, StartQuery, ClientBecomes
  <2>3. /\ q \in QueryShape /\ Len(q.rows) = 0 /\ q.state = "running"
    <3>1. <<>> \in Seq(Row) /\ Len(<<>>) = 0
      OBVIOUS
    <3> QED BY <3>1 DEF QueryShape
  <2>4. s \in SessionShape /\ s.limit > 0 /\ s.received = <<>> /\ s.next = 0
    BY EmptySession, ApiAssumption
  <2> HIDE DEF q, s
  <2>5. ClientRight("waiting", q, s)
    BY <2>3, <2>4, AthenaAssumption DEF ClientRight
  <2> QED BY <1>4, <2>2, <2>3, <2>4, <2>5
<1>9. CASE HistoryQuerySucceeds(c)
  <2> DEFINE t == HistoryRows(session[c].limit)
             q == [state |-> "succeeded", rows |-> t]
  <2>1. session[c].limit \in Nat /\ candles \in 0 .. MaxGen
    BY <1>1, ApiAssumption, AthenaAssumption DEF SessionShape, Shape
  <2>2. t \in Seq(Row) /\ Len(t) <= MaxGen
    BY <2>1, HistoryIs
  <2>3. query[c].state = "running" /\ UNCHANGED goldVars /\ ClientBecomes(c, phase[c], q, session[c])
    BY <1>2, <1>9 DEF HistoryQuerySucceeds, QuerySucceeds, ClientBecomes, goldVars
  <2> HIDE DEF t
  <2>4. q \in QueryShape /\ q.state = "succeeded" /\ q.rows = t
    BY <2>2 DEF QueryShape
  <2>5. ClientRight(phase[c], q, session[c])
    BY <1>1, <2>2, <2>3, <2>4 DEF ClientRight
  <2> QED BY <1>1, <2>3, <2>4, <2>5
<1>10. ASSUME NEW limit \in Nat \ {0}, NEW token \in Nat,
              session[c].limit > 0, query[c].state # "running",
              token <= Len(query[c].rows),
              Len(session[c].received) = IF token = 0 THEN 0 ELSE token - 1,
              \A j \in 1 .. Len(session[c].received) : session[c].received[j] = query[c].rows[j],
              phase' = [phase EXCEPT ![c] = "ok"], UNCHANGED goldVars, UNCHANGED query,
              Receive(c, Page(c, limit, token))
       PROVE  Goal
  <2> DEFINE s == [session[c] EXCEPT !.received = @ \o StripHeader(Page(c, limit, token).rows),
                                     !.next = Page(c, limit, token).next]
  <2>1. session' = [session EXCEPT ![c] = s]
    BY <1>1, <1>10 DEF Receive
  <2>2. token \in 0 .. Len(query[c].rows) /\ Len(query[c].rows) <= MaxGen
    <3>1. Len(query[c].rows) \in Nat
      BY <1>1, LenProperties DEF QueryShape
    <3> QED BY <1>1, <1>10, <3>1 DEF ClientRight
  <2>3. s \in SessionShape /\ ClientRight("ok", query[c], s)
    BY <1>1, <1>10, <2>2, PageReceived
  <2>4. ClientBecomes(c, "ok", query[c], s)
    BY <1>2, <1>10, <2>1 DEF ClientBecomes
  <2> HIDE DEF s
  <2> QED BY <1>1, <1>4, <1>10, <2>3, <2>4
<1>11. CASE FirstPage(c)
  <2>1. /\ phase[c] = "waiting" /\ query[c].state = "succeeded"
        /\ phase' = [phase EXCEPT ![c] = "ok"] /\ UNCHANGED goldVars /\ UNCHANGED query
        /\ Receive(c, Page(c, session[c].limit, 0))
    BY <1>11 DEF FirstPage, Ready, goldVars
  <2>2. /\ session[c].limit \in Nat \ {0} /\ session[c].limit > 0 /\ session[c].received = <<>>
    BY <1>1, <2>1, ApiAssumption DEF ClientRight, SessionShape
  <2>3. Len(session[c].received) = 0 /\ Len(query[c].rows) \in Nat
    BY <1>1, <2>2, LenProperties DEF QueryShape
  <2> QED BY <1>10, <2>1, <2>2, <2>3
<1>12. ASSUME NEW limit \in 1 .. MaxLimit, NextPage(c, limit) PROVE Goal
  <2>1. /\ phase[c] = "ok" /\ session[c].next > 0
        /\ phase' = [phase EXCEPT ![c] = "ok"] /\ UNCHANGED goldVars /\ UNCHANGED query
        /\ Receive(c, Page(c, limit, session[c].next))
    BY <1>2, <1>12 DEF NextPage, goldVars, athenaVars
  <2>2. session[c].next \in Nat /\ session[c].next # 0 /\ limit \in Nat \ {0}
    BY <1>1, <2>1, ApiAssumption DEF SessionShape
  <2>3. /\ session[c].limit > 0 /\ query[c].state # "running"
        /\ session[c].next <= Len(query[c].rows)
        /\ Len(session[c].received) = session[c].next - 1
        /\ \A j \in 1 .. Len(session[c].received) : session[c].received[j] = query[c].rows[j]
    BY <1>1, <2>1 DEF ClientRight
  <2> QED BY <1>10, <2>1, <2>2, <2>3
<1> QED
  BY <1>6, <1>7, <1>8, <1>9, <1>11, <1>12 DEF ApiStep, Handle

-----------------------------------------------------------------------------
(* A step of a projection *)

ProjectionStep(p) == Invoke(p) \/ LatestQuerySucceeds(p) \/ Project(p) \/ BreaksOff(p)

\* Projection p turns to phase ph, query q and rows s to put.
ProjectionBecomes(p, ph, q, s) ==
  /\ phase' = [phase EXCEPT ![p] = ph]
  /\ query' = [query EXCEPT ![p] = q]
  /\ rows' = [rows EXCEPT ![p] = s]

\* A projection with no query and nothing to put.
LEMMA NothingThere ==
  ASSUME NEW q, q.rows = <<>>, q.state # "running", NEW ph, ph # "putting", NEW g
  PROVE  ProjectionRight(ph, q, <<>>, g)
<1>1. Len(q.rows) = 0 /\ Cardinality(Key) \in Nat
  BY FS_CardinalityType, AthenaAssumption
<1> QED BY <1>1 DEF ProjectionRight, Table, Remaining

\* A projection with a page of its query still to put.
LEMMA PageToPut ==
  ASSUME NEW p, query[p].rows \in Seq(Row)
  PROVE  LET t == query[p].rows
             s == Tail(Page(p, QueryLimit, 0).rows)
         IN  s \in Seq(Row) /\ Remaining("putting", t, s)
                /\ PageSize(t) - Len(s) = 0
<1> DEFINE t == query[p].rows
           s == Tail(Page(p, QueryLimit, 0).rows)
           last == LastOf(Len(t), QueryLimit, 0)
<1>1. Len(t) \in Nat /\ 0 \in 0 .. Len(t) /\ QueryLimit \in Nat \ {0}
  BY LenProperties, ProjectionAssumption
<1>2. last = PageSize(t) + 1 /\ last \in 1 .. (Len(t) + 1)
  <2> HIDE DEF t
  <2>1. /\ last \in (0 + 1) .. (Len(t) + 1)
        /\ last = Smaller(Len(t), Smaller(QueryLimit, AthenaMax - 1)) + 1
    BY <1>1, LastOfRange
  <2> QED BY <1>1, <2>1 DEF PageSize
<1>3. /\ s \in Seq(Row) /\ Len(s) = last - 1
      /\ \A j \in 1 .. last - 1 : s[j] = t[(1 + j) - 1]
  <2> DEFINE token == 0
  <2>1. token \in 0 .. Len(query[p].rows) /\ token = 0
    BY <1>1
  <2> HIDE DEF token
  <2>2. LET first == IF token = 0 THEN 1 ELSE token
            end   == LastOf(Len(t), QueryLimit, token)
            kept  == StripHeader(Page(p, QueryLimit, token).rows)
        IN  /\ kept \in Seq(Row) /\ Len(kept) = end - first
            /\ \A j \in 1 .. end - first : kept[j] = t[(first + j) - 1]
            /\ token = 0 => kept = Tail(Page(p, QueryLimit, token).rows)
    BY <1>1, <2>1, StrippedPage
  <2> QED BY <2>1, <2>2
<1>4. PageSize(t) \in Nat
  BY <1>1, AthenaAssumption DEF PageSize, Smaller
<1> HIDE DEF t, s, last
<1>5. Len(s) = PageSize(t)
  BY <1>2, <1>3, <1>4
<1>6. \A j \in Int : (1 + j) - 1 = (PageSize(t) - PageSize(t)) + j
  BY <1>4
<1>7. \A j \in 1 .. Len(s) : s[j] = t[(PageSize(t) - Len(s)) + j]
  <2>1. \A j \in 1 .. Len(s) : s[j] = t[(1 + j) - 1] /\ j \in Int
    BY <1>2, <1>3, <1>4, <1>5
  <2> QED BY <1>5, <1>6, <2>1
<1>8. Remaining("putting", t, s) /\ PageSize(t) - Len(s) = 0
  BY <1>4, <1>5, <1>7 DEF Remaining
<1> QED BY <1>3, <1>8 DEF s, t

\* What is left after one more row has been put.
LEMMA RestToPut ==
  ASSUME NEW t \in Seq(Row), NEW s \in Seq(Row), Remaining("putting", t, s), s # <<>>
  PROVE  /\ Tail(s) \in Seq(Row) /\ Remaining("putting", t, Tail(s))
         /\ PageSize(t) - Len(s) + 1 \in 1 .. Len(t)
         /\ PageSize(t) - Len(Tail(s)) = PageSize(t) - Len(s) + 1
         /\ Head(s) = t[PageSize(t) - Len(s) + 1]
<1> DEFINE n == PageSize(t)
           tail == Tail(s)
<1>1. Len(t) \in Nat /\ n \in Nat /\ n <= Len(t)
  BY LenProperties, AthenaAssumption, ProjectionAssumption DEF PageSize, Smaller
<1>2. /\ Len(s) \in Nat /\ Len(s) # 0 /\ Len(s) <= n
      /\ \A j \in 1 .. Len(s) : s[j] = t[(n - Len(s)) + j]
      /\ Head(s) = s[1]
  BY LenProperties, EmptySeq DEF Remaining
<1>3. /\ tail \in Seq(Row) /\ Len(tail) = Len(s) - 1
      /\ \A j \in 1 .. Len(tail) : tail[j] = s[j + 1]
  BY HeadTailProperties
<1> HIDE DEF n, tail
<1>4. /\ n - Len(s) + 1 \in 1 .. Len(t) /\ n - Len(tail) = n - Len(s) + 1
      /\ n - Len(s) + 1 = (n - Len(s)) + 1 /\ Len(tail) <= n
  BY <1>1, <1>2, <1>3
<1>5. ASSUME NEW j \in 1 .. Len(tail) PROVE tail[j] = t[(n - Len(tail)) + j]
  <2>1. j + 1 \in 1 .. Len(s) /\ (n - Len(s)) + (j + 1) = (n - Len(tail)) + j
    BY <1>1, <1>2, <1>3
  <2>2. tail[j] = s[j + 1] /\ s[j + 1] = t[(n - Len(s)) + (j + 1)]
    BY <1>2, <1>3, <2>1
  <2> QED BY <2>1, <2>2
<1>6. Head(s) = t[(n - Len(s)) + 1]
  <2>1. 1 \in 1 .. Len(s)
    BY <1>2
  <2> QED BY <1>2, <2>1
<1>7. Remaining("putting", t, tail)
  BY <1>4, <1>5 DEF Remaining, n
<1> QED BY <1>3, <1>4, <1>6, <1>7 DEF n, tail

\* Whom p finds under way.
Others == {o \in Projection : IsBusy(o)}

\* What becomes of the items and of the overlaps when p starts, goes on, or ends.
Starts(p, ph, q) ==
  /\ ~IsBusy(p) /\ ph = "waiting" /\ q.rows = <<>>
  /\ raced' = IF Others = {} THEN raced ELSE raced \cup Others \cup {p}
  /\ item' = item

GoesOn(p, ph, q, s) ==
  /\ IsBusy(p) /\ ph \in {"waiting", "putting"}
  /\ raced' = raced
  /\ item' \in [Key -> 0 .. gen]
  /\ p \notin raced => UpToDate(ph, q.rows, s, item')

Ends(p, ph) ==
  /\ ph \notin {"waiting", "putting"}
  /\ raced' = raced \ {p}
  /\ item' = item

\* The put of the next row brings one more item up to date and disturbs no other,
\* since the keys of a result differ.
LEMMA PutKeepsUpToDate ==
  ASSUME NEW t \in Seq(Row), NEW g, Table(t, g), NEW s \in Seq(Row), s # <<>>,
         Remaining("putting", t, s),
         NEW it \in [Key -> Nat], UpToDate("putting", t, s, it),
         NEW new, new = [it EXCEPT ![Head(s).key] = Head(s).gen]
  PROVE  UpToDate("putting", t, Tail(s), new)
<1> DEFINE m == PageSize(t) - Len(s) + 1
<1>1. /\ m \in 1 .. Len(t) /\ PageSize(t) - Len(Tail(s)) = m /\ Head(s) = t[m]
      /\ m - 1 = PageSize(t) - Len(s)
  <2>1. PageSize(t) \in Nat /\ Len(s) \in Nat
    BY LenProperties, AthenaAssumption, ProjectionAssumption DEF PageSize, Smaller
  <2> QED BY <2>1, RestToPut
<1> HIDE DEF m
<1>2. Len(t) \in Nat /\ \A j \in 1 .. Len(t) : t[j] \in Row
  BY LenProperties, ElementOfSeq
<1>3. /\ \A j \in 1 .. Len(t) : t[j].key \in Key
      /\ \A j, l \in 1 .. Len(t) : t[j].key = t[l].key => j = l
  BY DEF Table
<1>4. new[t[m].key] = t[m].gen /\ \A j \in 1 .. Len(t) : j # m => new[t[j].key] = it[t[j].key]
  BY <1>1, <1>3
<1>5. \A j \in 1 .. Len(t) : it[t[j].key] <= t[j].gen
  BY DEF UpToDate
<1>6. \A j \in 1 .. m - 1 : it[t[j].key] = t[j].gen
  BY <1>1 DEF UpToDate
<1>7. t[m].gen <= t[m].gen
  BY <1>1, <1>2, AthenaAssumption DEF Row
<1>8. \A j \in 1 .. Len(t) : new[t[j].key] <= t[j].gen
  BY <1>1, <1>4, <1>5, <1>7
<1>9. ASSUME NEW j \in 1 .. m PROVE new[t[j].key] = t[j].gen
  <2>1. j \in 1 .. Len(t) /\ (j = m \/ (j # m /\ j \in 1 .. m - 1))
    BY <1>1, <1>2
  <2> QED BY <1>4, <1>6, <2>1
<1> QED BY <1>1, <1>8, <1>9 DEF UpToDate

\* Every step of a projection leaves it right, and starts it, goes on or ends it.
LEMMA ProjectionStepBecomes ==
  ASSUME Shape, Projections, Fresh, NEW p \in Projection, ProjectionStep(p)
  PROVE  /\ UNCHANGED goldVars
         /\ \E ph \in Phase, q \in QueryShape, s \in Seq(Row) :
              /\ ProjectionRight(ph, q, s, gen) /\ ProjectionBecomes(p, ph, q, s)
              /\ Starts(p, ph, q) \/ GoesOn(p, ph, q, s) \/ Ends(p, ph)
<1> DEFINE Goal ==
      /\ UNCHANGED goldVars
      /\ \E ph \in Phase, q \in QueryShape, s \in Seq(Row) :
           /\ ProjectionRight(ph, q, s, gen) /\ ProjectionBecomes(p, ph, q, s)
           /\ Starts(p, ph, q) \/ GoesOn(p, ph, q, s) \/ Ends(p, ph)
<1>1. /\ p \in Invocation
      /\ phase \in [Invocation -> Phase] /\ phase[p] \in Phase
      /\ query \in [Invocation -> QueryShape] /\ query[p] \in QueryShape
      /\ query[p].rows \in Seq(Row)
      /\ rows \in [Projection -> Seq(Row)] /\ rows[p] \in Seq(Row)
      /\ ProjectionRight(phase[p], query[p], rows[p], gen)
      /\ item \in [Key -> 0 .. gen] /\ latest \in [Key -> {0, gen}] /\ gen \in 0 .. MaxGen
  BY ProjectionAssumption DEF Shape, Projections, QueryShape
<1>2. /\ phase = [phase EXCEPT ![p] = phase[p]]
      /\ query = [query EXCEPT ![p] = query[p]]
      /\ rows = [rows EXCEPT ![p] = rows[p]]
  BY <1>1
<1>3. /\ NoQuery \in QueryShape /\ NoQuery.rows = <<>> /\ NoQuery.state = "none"
      /\ <<>> \in Seq(Row) /\ Len(<<>>) = 0
      /\ gen \in Nat /\ MaxGen \in Nat
  <2>1. NoQuery.rows = <<>>
    BY DEF NoQuery
  <2>2. <<>> \in Seq(Row) /\ Len(<<>>) = 0
    OBVIOUS
  <2> QED BY <1>1, <2>1, <2>2, EmptyQuery, AthenaAssumption
<1>4. {"ok", "failed", "waiting", "putting"} \subseteq Phase
  BY DEF Phase
<1>5. phase[p] # "putting" => rows[p] = <<>>
  BY <1>1 DEF ProjectionRight, Remaining
<1>6. CASE Invoke(p)
  <2> DEFINE q == [state |-> "running", rows |-> <<>>]
  <2>1. ~IsBusy(p) /\ UNCHANGED goldVars /\ ProjectionBecomes(p, "waiting", q, rows[p])
    BY <1>2, <1>6 DEF Invoke, StartQuery, ProjectionBecomes, goldVars
  <2>2. Starts(p, "waiting", q)
    BY <1>6 DEF Invoke, Starts, Others
  <2>3. q \in QueryShape /\ q.rows = <<>> /\ Len(q.rows) = 0
    BY <1>3 DEF QueryShape
  <2>4. rows[p] = <<>>
    BY <1>5, <2>1 DEF IsBusy
  <2> HIDE DEF q
  <2>5. Cardinality(Key) \in Nat
    BY FS_CardinalityType, AthenaAssumption
  <2>6. ProjectionRight("waiting", q, rows[p], gen)
    BY <2>3, <2>4, <2>5 DEF ProjectionRight, Table, Remaining
  <2> QED BY <1>1, <1>4, <2>1, <2>2, <2>3, <2>6
<1>7. CASE LatestQuerySucceeds(p)
  <2>1. PICK t \in Orderings(latest) : QuerySucceeds(p, t)
    BY <1>7 DEF LatestQuerySucceeds
  <2> DEFINE q == [state |-> "succeeded", rows |-> t]
  <2>2. /\ query[p].state = "running" /\ UNCHANGED goldVars /\ item' = item /\ raced' = raced
        /\ ProjectionBecomes(p, phase[p], q, rows[p])
    BY <1>2, <1>7, <2>1
    DEF LatestQuerySucceeds, QuerySucceeds, ProjectionBecomes, goldVars, projectionVars
  <2>3. latest \in [Key -> 0 .. gen]
    BY <1>1, <1>3
  <2>4. /\ t \in Seq(Row) /\ Table(t, gen)
        /\ \A j \in 1 .. Len(t) : t[j].gen = latest[t[j].key] /\ t[j].gen > 0
    BY <1>1, <2>3, OrderingIs
  <2>5. q \in QueryShape /\ q.rows = t /\ q.state = "succeeded"
    BY <2>4 DEF QueryShape
  <2> HIDE DEF q
  <2>6. phase[p] = "waiting" /\ rows[p] = <<>>
    BY <1>1, <1>5, <2>2 DEF ProjectionRight
  <2>7. ProjectionRight(phase[p], q, rows[p], gen)
    BY <2>4, <2>5, <2>6 DEF ProjectionRight, Remaining
  <2>8. \A j \in 1 .. Len(t) : item[t[j].key] <= t[j].gen
    <3> SUFFICES ASSUME NEW j \in 1 .. Len(t) PROVE item[t[j].key] <= t[j].gen
      OBVIOUS
    <3>1. t[j].key \in Key
      BY <2>4 DEF Table
    <3>2. latest[t[j].key] = gen
      BY <1>1, <1>3, <2>4, <3>1
    <3> QED BY <1>1, <1>3, <2>4, <3>1, <3>2
  <2>9. GoesOn(p, phase[p], q, rows[p])
    BY <1>1, <2>2, <2>5, <2>6, <2>8 DEF GoesOn, IsBusy, UpToDate
  <2> QED BY <1>1, <2>2, <2>5, <2>7, <2>9
<1>8. ASSUME NEW ph \in {"failed", "ok"}, UNCHANGED goldVars,
             ProjectionBecomes(p, ph, NoQuery, <<>>), raced' = raced \ {p}, item' = item
      PROVE  Goal
  <2>1. ProjectionRight(ph, NoQuery, <<>>, gen)
    BY <1>3, NothingThere
  <2>2. Ends(p, ph)
    BY <1>8 DEF Ends
  <2> QED BY <1>3, <1>4, <1>8, <2>1, <2>2
<1>9. CASE GivesUp(p) /\ raced' = raced \ {p} /\ UNCHANGED <<item, rows>>
  <2>1. phase[p] = "waiting" /\ UNCHANGED goldVars
    BY <1>9 DEF GivesUp, Fail
  <2>2. rows = [rows EXCEPT ![p] = <<>>]
    BY <1>2, <1>5, <2>1
  <2>3. ProjectionBecomes(p, "failed", NoQuery, <<>>)
    BY <1>9, <2>2 DEF GivesUp, Fail, ProjectionBecomes
  <2> QED BY <1>8, <1>9, <2>1, <2>3
<1>10. CASE BreaksOff(p)
  <2>1. /\ ProjectionBecomes(p, "failed", NoQuery, <<>>) /\ UNCHANGED goldVars
        /\ raced' = raced \ {p} /\ item' = item
    BY <1>10 DEF BreaksOff, PollFailed, Breaks, Fail, ProjectionBecomes
  <2> QED BY <1>8, <2>1
<1>11. CASE Return(p)
  <2>1. rows = [rows EXCEPT ![p] = <<>>]
    BY <1>2, <1>11 DEF Return
  <2>2. /\ ProjectionBecomes(p, "ok", NoQuery, <<>>) /\ UNCHANGED goldVars
        /\ raced' = raced \ {p} /\ item' = item
    BY <1>11, <2>1 DEF Return, ProjectionBecomes, goldVars
  <2> QED BY <1>8, <2>2
<1>12. CASE FetchRows(p)
  <2> DEFINE s == Tail(Page(p, QueryLimit, 0).rows)
  <2>1. /\ phase[p] = "waiting" /\ query[p].state # "running" /\ UNCHANGED goldVars
        /\ item' = item /\ raced' = raced
        /\ ProjectionBecomes(p, "putting", query[p], s)
    BY <1>2, <1>12 DEF FetchRows, Ready, ProjectionBecomes, goldVars
  <2>2. /\ s \in Seq(Row) /\ Remaining("putting", query[p].rows, s)
        /\ PageSize(query[p].rows) - Len(s) = 0
    BY <1>1, PageToPut
  <2> HIDE DEF s
  <2>3. ProjectionRight("putting", query[p], s, gen)
    BY <1>1, <2>1, <2>2 DEF ProjectionRight
  <2>4. p \notin raced => \A j \in 1 .. Len(query[p].rows) :
                            item[query[p].rows[j].key] <= query[p].rows[j].gen
    BY <2>1 DEF Fresh, IsBusy, UpToDate
  <2>5. GoesOn(p, "putting", query[p], s)
    BY <1>1, <2>1, <2>2, <2>4 DEF GoesOn, IsBusy, UpToDate
  <2> QED BY <1>1, <1>4, <2>1, <2>2, <2>3, <2>5
<1>13. CASE Put(p)
  <2> DEFINE t == query[p].rows
             s == Tail(rows[p])
             h == Head(rows[p])
  <2>1. /\ phase[p] = "putting" /\ rows[p] # <<>> /\ UNCHANGED goldVars /\ raced' = raced
        /\ ProjectionBecomes(p, "putting", query[p], s)
        /\ item' = [item EXCEPT ![h.key] = h.gen]
    BY <1>1, <1>2, <1>13 DEF Put, ProjectionBecomes, goldVars
  <2>2. Remaining("putting", t, rows[p]) /\ Table(t, gen) /\ query[p].state # "running"
    BY <1>1, <2>1 DEF ProjectionRight
  <2>3. /\ s \in Seq(Row) /\ Remaining("putting", t, s)
        /\ \E m \in 1 .. Len(t) : h = t[m]
    BY <1>1, <2>1, <2>2, RestToPut
  <2>4. h.key \in Key /\ h.gen \in 0 .. gen
    <3>1. PICK m \in 1 .. Len(t) : h = t[m]
      BY <2>3
    <3>2. t[m] \in Row /\ t[m].key \in Key /\ t[m].gen <= gen
      BY <1>1, <2>2, ElementOfSeq DEF Table
    <3>3. t[m].gen \in 1 .. MaxGen
      BY <3>2 DEF Row
    <3> QED BY <1>1, <1>3, <3>1, <3>2, <3>3
  <2>5. item' \in [Key -> 0 .. gen]
    BY <1>1, <2>1, <2>4
  <2>6. p \notin raced => UpToDate("putting", t, s, item')
    <3> SUFFICES ASSUME p \notin raced PROVE UpToDate("putting", t, s, item')
      OBVIOUS
    <3>1. UpToDate("putting", t, rows[p], item)
      BY <2>1 DEF Fresh, IsBusy
    <3>2. item \in [Key -> Nat]
      BY <1>1, <1>3
    <3> QED BY <1>1, <2>1, <2>2, <3>1, <3>2, PutKeepsUpToDate
  <2>7. GoesOn(p, "putting", query[p], s)
    BY <2>1, <2>5, <2>6 DEF GoesOn, IsBusy
  <2>8. ProjectionRight("putting", query[p], s, gen)
    BY <2>2, <2>3 DEF ProjectionRight
  <2> QED BY <1>1, <1>4, <2>1, <2>3, <2>7, <2>8
<1> QED
  BY <1>6, <1>7, <1>9, <1>10, <1>11, <1>12, <1>13 DEF ProjectionStep, Project

-----------------------------------------------------------------------------
(* The invariant is inductive *)

\* Every step is one of Gold, a projection, DynamoDB or a client.
LEMMA StepsOfNext ==
  ASSUME [Next]_vars
  PROVE  \/ UNCHANGED vars
         \/ (GoldOverwrites \/ GoldCommits) /\ UNCHANGED <<item, rows, raced, session>>
         \/ \E p \in Projection : ProjectionStep(p) /\ UNCHANGED session
         \/ \E k \in Key : Expire(k) /\ UNCHANGED session
         \/ \E c \in Client : ApiStep(c) /\ UNCHANGED <<item, rows, raced>>
BY DEF Next, ProjectionNext, ApiNext, ProjectionStep, ApiStep, projectionVars

\* The invariant holds at the start.
LEMMA InitInv == Init => Inv
<1> SUFFICES ASSUME Init PROVE Inv
  OBVIOUS
<1> USE DEF Init, AthenaInit, ProjectionInit, ApiInit
<1>1. <<>> \in Seq(Row) /\ gen = 0 /\ MaxGen \in Nat
  BY AthenaAssumption
<1>2. Shape
  <2>1. NoQuery \in QueryShape /\ NoSession \in SessionShape
    <3>1. 0 \in 0 .. MaxLimit
      BY ApiAssumption
    <3> QED BY <3>1, EmptyQuery, EmptySession
  <2> QED BY <1>1, <2>1 DEF Shape, Phase
<1>3. \A i \in Invocation : ~IsBusy(i)
  BY DEF IsBusy
<1>4. Clients
  <2> SUFFICES ASSUME NEW c \in Client PROVE ClientRight(phase[c], query[c], session[c])
    BY DEF Clients
  <2>1. NoQuery.state = "none" /\ Len(NoQuery.rows) = 0 /\ NoSession.next = 0
    BY EmptyQuery DEF NoSession
  <2>2. phase[c] = "idle" /\ query[c] = NoQuery /\ session[c] = NoSession
    BY ApiAssumption
  <2> QED BY <1>1, <2>1, <2>2 DEF ClientRight
<1>5. Projections
  <2> SUFFICES ASSUME NEW p \in Projection
               PROVE  ProjectionRight(phase[p], query[p], rows[p], gen)
    BY DEF Projections
  <2>1. NoQuery.state = "none" /\ NoQuery.rows = <<>>
    BY DEF NoQuery
  <2>2. phase[p] = "idle" /\ query[p] = NoQuery /\ rows[p] = <<>>
    BY ProjectionAssumption
  <2> QED BY <2>1, <2>2, NothingThere
<1>6. Races /\ Fresh
  BY <1>3, ProjectionAssumption DEF Races, Fresh
<1> QED BY <1>2, <1>4, <1>5, <1>6 DEF Inv

\* Gold only moves on: what the invocations have stays right.
LEMMA GoldKeeps ==
  ASSUME Inv, GoldOverwrites \/ GoldCommits, UNCHANGED <<item, rows, raced, session>>
  PROVE  Inv'
<1>1. /\ gen \in 0 .. MaxGen /\ candles \in 0 .. gen /\ MaxGen \in Nat
      /\ item \in [Key -> 0 .. gen] /\ latest \in [Key -> {0, gen}]
  BY AthenaAssumption DEF Inv, Shape
<1>2. /\ gen' \in 0 .. MaxGen /\ gen <= gen' /\ candles' \in 0 .. gen'
      /\ latest' \in [Key -> {0, gen'}] /\ phase' = phase /\ query' = query
  <2>1. CASE GoldOverwrites
    <3>1. gen' = gen + 1 /\ gen < MaxGen /\ candles' = 0 /\ phase' = phase /\ query' = query
      BY <2>1 DEF GoldOverwrites
    <3>2. latest' \in [Key -> {0, gen'}]
      BY <2>1 DEF GoldOverwrites
    <3> QED BY <1>1, <3>1, <3>2
  <2>2. CASE GoldCommits
    <3>1. gen' = gen /\ candles' = gen /\ phase' = phase /\ query' = query
      BY <2>2 DEF GoldCommits
    <3>2. latest' \in [Key -> {0, gen}]
      BY <2>2 DEF GoldCommits
    <3> QED BY <1>1, <3>1, <3>2
  <2> QED BY <2>1, <2>2
<1>3. item' \in [Key -> 0 .. gen']
  BY <1>1, <1>2
<1>4. Shape'
  BY <1>2, <1>3 DEF Inv, Shape
<1>5. Clients'
  BY <1>2 DEF Inv, Clients
<1>6. Projections'
  <2> SUFFICES ASSUME NEW p \in Projection
               PROVE  ProjectionRight(phase[p], query[p], rows[p], gen')
    BY <1>2 DEF Projections
  <2>1. ProjectionRight(phase[p], query[p], rows[p], gen) /\ query[p].rows \in Seq(Row)
    BY ProjectionAssumption DEF Inv, Projections, Shape, QueryShape
  <2>2. ASSUME NEW j \in 1 .. Len(query[p].rows), query[p].rows[j].gen <= gen
        PROVE  query[p].rows[j].gen <= gen'
    <3>1. query[p].rows[j] \in Row
      BY <2>1, ElementOfSeq
    <3>2. query[p].rows[j].gen \in 1 .. MaxGen
      BY <3>1 DEF Row
    <3> QED BY <1>1, <1>2, <2>2, <3>2
  <2> QED BY <2>1, <2>2 DEF ProjectionRight, Table
<1>7. Races' /\ Fresh'
  BY <1>2 DEF Inv, Races, Fresh, IsBusy
<1> QED BY <1>4, <1>5, <1>6, <1>7 DEF Inv

\* A client disturbs no projection.
LEMMA ApiKeeps ==
  ASSUME Inv, NEW c \in Client, ApiStep(c), UNCHANGED <<item, rows, raced>>
  PROVE  Inv'
<1>1. /\ c \in Invocation /\ Client \subseteq Invocation
      /\ \A p \in Projection : p \in Invocation /\ p # c
      /\ phase \in [Invocation -> Phase] /\ query \in [Invocation -> QueryShape]
      /\ session \in [Client -> SessionShape]
  BY ApiAssumption, ProjectionAssumption, LayerAssumption DEF Inv, Shape
<1>2. UNCHANGED goldVars
  BY ApiStepBecomes DEF Inv
<1>3. PICK ph \in Phase, q \in QueryShape, s \in SessionShape :
        ClientRight(ph, q, s) /\ ClientBecomes(c, ph, q, s)
  BY ApiStepBecomes DEF Inv
<1>4. /\ phase' \in [Invocation -> Phase] /\ query' \in [Invocation -> QueryShape]
      /\ session' \in [Client -> SessionShape]
      /\ phase'[c] = ph /\ query'[c] = q /\ session'[c] = s
      /\ \A i \in Invocation : i # c => phase'[i] = phase[i] /\ query'[i] = query[i]
      /\ \A d \in Client : d # c => session'[d] = session[d]
  BY <1>1, <1>3 DEF ClientBecomes
<1>5. Shape'
  BY <1>2, <1>4 DEF Inv, Shape, goldVars
<1>6. Clients'
  BY <1>1, <1>3, <1>4 DEF Inv, Clients
<1>7. \A p \in Projection : phase'[p] = phase[p] /\ query'[p] = query[p]
  BY <1>1, <1>4
<1>8. Projections'
  BY <1>2, <1>7 DEF Inv, Projections, goldVars
<1>9. Races' /\ Fresh'
  BY <1>7 DEF Inv, Races, Fresh, IsBusy
<1> QED BY <1>5, <1>6, <1>8, <1>9 DEF Inv

\* While a projection that is not raced is under way, no other one is.
LEMMA ProjectionKeeps ==
  ASSUME Inv, NEW p \in Projection, ProjectionStep(p), UNCHANGED session
  PROVE  Inv'
<1>1. /\ p \in Invocation /\ Projection \subseteq Invocation
      /\ \A c \in Client : c \in Invocation /\ c # p
      /\ phase \in [Invocation -> Phase] /\ query \in [Invocation -> QueryShape]
      /\ rows \in [Projection -> Seq(Row)] /\ raced \subseteq Projection
      /\ item \in [Key -> 0 .. gen]
  BY ApiAssumption, ProjectionAssumption, LayerAssumption DEF Inv, Shape
<1>2. UNCHANGED goldVars
  BY ProjectionStepBecomes DEF Inv
<1>3. PICK ph \in Phase, q \in QueryShape, s \in Seq(Row) :
        /\ ProjectionRight(ph, q, s, gen) /\ ProjectionBecomes(p, ph, q, s)
        /\ Starts(p, ph, q) \/ GoesOn(p, ph, q, s) \/ Ends(p, ph)
  BY ProjectionStepBecomes DEF Inv
<1>4. /\ phase' \in [Invocation -> Phase] /\ query' \in [Invocation -> QueryShape]
      /\ rows' \in [Projection -> Seq(Row)]
      /\ phase'[p] = ph /\ query'[p] = q /\ rows'[p] = s
      /\ \A i \in Invocation : i # p => phase'[i] = phase[i] /\ query'[i] = query[i]
      /\ \A o \in Projection : o # p => rows'[o] = rows[o]
  BY <1>1, <1>3 DEF ProjectionBecomes
<1>5. raced' \subseteq Projection /\ item' \in [Key -> 0 .. gen]
  BY <1>1, <1>3 DEF Starts, GoesOn, Ends, Others
<1>6. Shape'
  BY <1>2, <1>4, <1>5 DEF Inv, Shape, goldVars
<1>7. Clients'
  BY <1>1, <1>4 DEF Inv, Clients
<1>8. Projections'
  BY <1>1, <1>2, <1>3, <1>4 DEF Inv, Projections, goldVars
<1>9. /\ \A o \in Projection : o # p => (IsBusy(o)' <=> IsBusy(o))
      /\ IsBusy(p)' <=> ph \in {"waiting", "putting"}
  BY <1>1, <1>4 DEF IsBusy
<1>10. /\ raced \subseteq {o \in Projection : IsBusy(o)}
       /\ \A a, b \in Projection : a # b /\ IsBusy(a) /\ IsBusy(b) => a \in raced
  BY DEF Inv, Races
<1>11. Races'
  <2>1. ASSUME NEW o \in raced' PROVE o \in Projection /\ IsBusy(o)'
    BY <1>3, <1>5, <1>9, <1>10, <2>1 DEF Starts, GoesOn, Ends, Others
  <2>2. ASSUME NEW a \in Projection, NEW b \in Projection, a # b, IsBusy(a)', IsBusy(b)'
        PROVE  a \in raced'
    <3>1. CASE Starts(p, ph, q)
      <4>1. a \in Others \/ b \in Others
        BY <1>9, <2>2 DEF Others
      <4>2. raced' = raced \cup Others \cup {p}
        BY <3>1, <4>1 DEF Starts
      <4> QED BY <1>9, <2>2, <4>2 DEF Others
    <3>2. CASE GoesOn(p, ph, q, s)
      BY <1>9, <1>10, <2>2, <3>2 DEF GoesOn
    <3>3. CASE Ends(p, ph)
      BY <1>9, <1>10, <2>2, <3>3 DEF Ends
    <3> QED BY <1>3, <3>1, <3>2, <3>3
  <2> QED BY <2>1, <2>2 DEF Races
<1>12. Fresh'
  <2> SUFFICES ASSUME NEW o \in Projection, IsBusy(o)', o \notin raced'
               PROVE  UpToDate(phase'[o], query'[o].rows, rows'[o], item')
    BY DEF Fresh
  <2>1. ASSUME o # p, o \notin raced, IsBusy(o), item' = item
        PROVE  UpToDate(phase'[o], query'[o].rows, rows'[o], item')
    BY <1>1, <1>4, <2>1 DEF Inv, Fresh
  <2>2. CASE Starts(p, ph, q)
    <3>1. CASE o = p
      <4>1. ph = "waiting" /\ q.rows = <<>> /\ Len(q.rows) = 0
        BY <2>2 DEF Starts
      <4> QED BY <1>4, <3>1, <4>1 DEF UpToDate
    <3>2. CASE o # p
      <4>1. o \in Others
        BY <1>9, <3>2 DEF Others
      <4> QED BY <2>2, <4>1 DEF Starts
    <3> QED BY <3>1, <3>2
  <2>3. CASE GoesOn(p, ph, q, s)
    <3>1. raced' = raced /\ IsBusy(p)
      BY <2>3 DEF GoesOn
    <3>2. o = p
      BY <1>9, <1>10, <3>1
    <3> QED BY <1>4, <2>3, <3>1, <3>2 DEF GoesOn
  <2>4. CASE Ends(p, ph)
    <3>1. o # p /\ o \notin raced /\ IsBusy(o) /\ item' = item
      BY <1>9, <2>4 DEF Ends
    <3> QED BY <2>1, <3>1
  <2> QED BY <1>3, <2>2, <2>3, <2>4
<1> QED BY <1>6, <1>7, <1>8, <1>11, <1>12 DEF Inv

\* DynamoDB deletes no item a projection under way has put.
LEMMA ExpireKeeps ==
  ASSUME Inv, NEW k \in Key, Expire(k), UNCHANGED session
  PROVE  Inv'
<1>1. /\ UNCHANGED <<gen, latest, candles, phase, query, rows, raced>>
      /\ item' = [item EXCEPT ![k] = 0]
      /\ \A p \in Projection : phase[p] = "putting" /\ k \in KeysOf(query[p].rows) =>
           k \in KeysOf(rows[p])
  BY DEF Expire
<1>2. /\ item \in [Key -> 0 .. gen] /\ gen \in Nat /\ MaxGen \in Nat
      /\ item' \in [Key -> 0 .. gen]
  <2>1. item \in [Key -> 0 .. gen] /\ gen \in Nat /\ MaxGen \in Nat
    BY AthenaAssumption DEF Inv, Shape
  <2> QED BY <1>1, <2>1
<1>3. Shape'
  BY <1>1, <1>2 DEF Inv, Shape
<1>4. Clients' /\ Projections' /\ Races'
  BY <1>1 DEF Inv, Clients, Projections, Races, IsBusy
<1>5. Fresh'
  <2> SUFFICES ASSUME NEW p \in Projection, IsBusy(p), p \notin raced
               PROVE  UpToDate(phase[p], query[p].rows, rows[p], item')
    BY <1>1 DEF Fresh, IsBusy
  <2> DEFINE t == query[p].rows
             n == PageSize(t) - Len(rows[p])
  <2>1. /\ UpToDate(phase[p], t, rows[p], item) /\ ProjectionRight(phase[p], query[p], rows[p], gen)
        /\ t \in Seq(Row) /\ rows[p] \in Seq(Row)
    BY ProjectionAssumption DEF Inv, Fresh, Projections, Shape, QueryShape
  <2>2. /\ Len(t) \in Nat /\ Len(rows[p]) \in Nat /\ PageSize(t) \in Nat /\ PageSize(t) <= Len(t)
        /\ \A j \in 1 .. Len(t) : t[j] \in Row /\ t[j].key \in Key
        /\ \A j, l \in 1 .. Len(t) : t[j].key = t[l].key => j = l
    <3>1. Len(t) \in Nat /\ Len(rows[p]) \in Nat /\ \A j \in 1 .. Len(t) : t[j] \in Row
      BY <2>1, LenProperties, ElementOfSeq
    <3>2. /\ \A j \in 1 .. Len(t) : t[j].key \in Key
          /\ \A j, l \in 1 .. Len(t) : t[j].key = t[l].key => j = l
      BY <2>1 DEF ProjectionRight, Table
    <3>3. PageSize(t) \in Nat /\ PageSize(t) <= Len(t)
      BY <3>1, AthenaAssumption, ProjectionAssumption DEF PageSize, Smaller
    <3> QED BY <3>1, <3>2, <3>3
  <2>3. ASSUME NEW j \in 1 .. Len(t) PROVE item'[t[j].key] <= t[j].gen
    <3>1. t[j].gen \in 1 .. MaxGen /\ t[j].key \in Key
      BY <2>2 DEF Row
    <3>2. item[t[j].key] <= t[j].gen
      BY <2>1 DEF UpToDate
    <3>3. item'[t[j].key] = 0 \/ item'[t[j].key] = item[t[j].key]
      BY <1>1, <1>2, <3>1
    <3> QED BY <1>2, <3>1, <3>2, <3>3
  <2>4. ASSUME phase[p] = "putting", NEW j \in 1 .. n PROVE item'[t[j].key] = t[j].gen
    <3>1. /\ Len(rows[p]) <= PageSize(t)
          /\ \A l \in 1 .. Len(rows[p]) : rows[p][l] = t[n + l]
      BY <2>1, <2>4 DEF ProjectionRight, Remaining
    <3>2. n \in Nat /\ j \in 1 .. Len(t)
      BY <2>2, <3>1
    <3>3. item[t[j].key] = t[j].gen
      BY <2>1, <2>4 DEF UpToDate
    <3>4. t[j].key # k
      <4> SUFFICES ASSUME t[j].key = k PROVE FALSE
        OBVIOUS
      <4>1. k \in KeysOf(t) /\ DOMAIN t = 1 .. Len(t) /\ DOMAIN rows[p] = 1 .. Len(rows[p])
        <5>1. DOMAIN t = 1 .. Len(t) /\ DOMAIN rows[p] = 1 .. Len(rows[p])
          BY <2>1, LenProperties
        <5> QED BY <3>2, <5>1 DEF KeysOf
      <4>2. k \in KeysOf(rows[p])
        BY <1>1, <2>4, <4>1
      <4>3. PICK l \in 1 .. Len(rows[p]) : rows[p][l].key = k
        BY <4>1, <4>2 DEF KeysOf
      <4>4. n + l \in 1 .. Len(t) /\ n + l # j
        BY <2>2, <3>1, <3>2
      <4> QED BY <2>2, <3>1, <3>2, <4>3, <4>4
    <3> QED BY <1>1, <1>2, <2>2, <3>2, <3>3, <3>4
  <2> QED BY <2>3, <2>4 DEF UpToDate
<1> QED BY <1>3, <1>4, <1>5 DEF Inv

\* Every step preserves the invariant.
LEMMA StepInv == Inv /\ [Next]_vars => Inv'
<1> SUFFICES ASSUME Inv, [Next]_vars PROVE Inv'
  OBVIOUS
<1>1. CASE UNCHANGED vars
  BY <1>1 DEF vars, Inv, Shape, Clients, Projections, Races, Fresh, IsBusy
<1> QED BY <1>1, StepsOfNext, GoldKeeps, ApiKeeps, ProjectionKeeps, ExpireKeeps

\* The invariant always holds.
LEMMA InvAlways == Spec => []Inv
BY InitInv, StepInv, PTL DEF Spec

-----------------------------------------------------------------------------
(* What follows *)

\* Type correctness of the serving layer.
THEOREM ServingTypes == Spec => []TypeOK
<1>1. Inv => TypeOK
  <2> SUFFICES ASSUME Inv PROVE TypeOK
    OBVIOUS
  <2>1. Shape /\ Clients /\ Projections /\ Races
    BY DEF Inv
  <2>2. MaxGen \in Nat /\ MaxLimit \in Nat /\ Cardinality(Key) \in Nat /\ gen \in 0 .. MaxGen
    BY <2>1, AthenaAssumption, ApiAssumption, FS_CardinalityType DEF Shape
  <2>3. AthenaTypeOK
    <3>1. /\ gen \in 0 .. MaxGen /\ latest \in [Key -> 0 .. MaxGen] /\ candles \in 0 .. MaxGen
          /\ phase \in [Invocation -> Phase]
      <4>1. latest \in [Key -> {0, gen}] /\ {0, gen} \subseteq 0 .. MaxGen
        BY <2>1, <2>2 DEF Shape
      <4>2. latest \in [Key -> 0 .. MaxGen]
        BY <4>1
      <4>3. candles \in 0 .. MaxGen
        BY <2>1, <2>2 DEF Shape
      <4> QED BY <2>1, <4>2, <4>3 DEF Shape
    <3>2. ASSUME NEW i \in Invocation
          PROVE  /\ query[i].state \in {"none", "running", "succeeded"}
                 /\ Len(query[i].rows) <= MaxGen + Cardinality(Key)
                 /\ \A j \in DOMAIN query[i].rows : query[i].rows[j] \in Row
      <4>1. query[i] \in QueryShape /\ query[i].rows \in Seq(Row)
        BY <2>1 DEF Shape, QueryShape
      <4>2. /\ Len(query[i].rows) \in Nat
            /\ \A j \in DOMAIN query[i].rows : query[i].rows[j] \in Row
        BY <4>1, LenProperties, ElementOfSeq
      <4>3. Len(query[i].rows) <= MaxGen \/ Len(query[i].rows) <= Cardinality(Key)
        BY <2>1, LayerAssumption DEF Clients, ClientRight, Projections, ProjectionRight, Table
      <4>4. query[i].state \in {"none", "running", "succeeded"}
        BY <4>1 DEF QueryShape
      <4> QED BY <2>2, <4>2, <4>3, <4>4
    <3> QED BY <3>1, <3>2 DEF AthenaTypeOK
  <2>4. ProjectionTypeOK
    <3>1. item \in [Key -> 0 .. MaxGen] /\ raced \subseteq {p \in Projection : IsBusy(p)}
      BY <2>1, <2>2 DEF Shape, Races
    <3>2. ASSUME NEW p \in Projection
          PROVE  /\ \A j \in DOMAIN rows[p] : rows[p][j] \in Row
                 /\ rows[p] # <<>> => phase[p] = "putting"
      <4>1. rows[p] \in Seq(Row)
        BY <2>1 DEF Shape
      <4>2. \A j \in DOMAIN rows[p] : rows[p][j] \in Row
        BY <4>1, LenProperties, ElementOfSeq
      <4> QED BY <2>1, <4>2 DEF Projections, ProjectionRight, Remaining
    <3> QED BY <3>1, <3>2 DEF ProjectionTypeOK
  <2>5. ApiTypeOK
    <3> SUFFICES ASSUME NEW c \in Client
                 PROVE  /\ session[c].limit \in 0 .. MaxLimit
                        /\ session[c].next \in 0 .. MaxGen
                        /\ \A j \in DOMAIN session[c].received : session[c].received[j] \in Row
      BY DEF ApiTypeOK
    <3>1. session[c] \in SessionShape /\ query[c].rows \in Seq(Row)
      BY <2>1, ApiAssumption DEF Shape, QueryShape
    <3>2. /\ session[c].limit \in 0 .. MaxLimit /\ session[c].next \in Nat
          /\ session[c].received \in Seq(Row) /\ Len(query[c].rows) \in Nat
      BY <3>1, LenProperties DEF SessionShape
    <3>3. session[c].next = 0 \/ session[c].next <= Len(query[c].rows)
      BY <2>1, <3>2 DEF Clients, ClientRight
    <3>4. session[c].next \in 0 .. MaxGen
      BY <2>1, <2>2, <3>2, <3>3 DEF Clients, ClientRight
    <3>5. \A j \in DOMAIN session[c].received : session[c].received[j] \in Row
      BY <3>2, LenProperties, ElementOfSeq
    <3> QED BY <3>2, <3>4, <3>5
  <2> QED BY <2>3, <2>4, <2>5 DEF TypeOK
<1> QED BY <1>1, InvAlways, PTL

\* A client that follows the tokens has the rows of its query, once each and in
\* order, and all of them at the end, whatever Gold rebuilds in between.
THEOREM PagesHold == Spec => []PagesAreTheQuery
<1>1. Inv => PagesAreTheQuery
  <2> SUFFICES ASSUME Inv, NEW c \in Client, phase[c] = "ok", session[c].limit > 0
               PROVE  /\ session[c].received =
                           SubSeq(query[c].rows, 1, Len(session[c].received))
                      /\ session[c].next = 0 =>
                           Len(session[c].received) = Len(query[c].rows)
    BY DEF PagesAreTheQuery
  <2> DEFINE got == session[c].received
             t   == query[c].rows
             cut == SubSeq(t, 1, Len(got))
  <2>1. /\ got \in Seq(Row) /\ t \in Seq(Row) /\ session[c].next \in Nat
        /\ Len(got) \in Nat /\ Len(t) \in Nat
    BY ApiAssumption, LenProperties DEF Inv, Shape, SessionShape, QueryShape
  <2>2. /\ session[c].next <= Len(t)
        /\ Len(got) = IF session[c].next > 0 THEN session[c].next - 1 ELSE Len(t)
        /\ \A j \in 1 .. Len(got) : got[j] = t[j]
    BY DEF Inv, Clients, ClientRight
  <2> HIDE DEF got, t
  <2>3. Len(got) <= Len(t) /\ (session[c].next = 0 => Len(got) = Len(t))
    BY <2>1, <2>2
  <2>4. \A j \in 1 .. Len(got) : t[j] \in Row
    BY <2>1, <2>3, ElementOfSeq
  <2>5. /\ cut \in Seq(Row) /\ Len(cut) = IF 1 <= Len(got) THEN Len(got) - 1 + 1 ELSE 0
        /\ \A j \in 1 .. Len(got) - 1 + 1 : cut[j] = t[1 + j - 1]
    BY <2>1, <2>4, SubSeqProperties
  <2>6. /\ Len(got) - 1 + 1 = Len(got) /\ \A j \in 1 .. Len(got) : 1 + j - 1 = j
        /\ (~(1 <= Len(got)) => Len(got) = 0)
    BY <2>1
  <2>7. Len(cut) = Len(got) /\ \A j \in 1 .. Len(got) : cut[j] = got[j]
    BY <2>2, <2>5, <2>6
  <2>8. cut = got
    <3> HIDE DEF cut
    <3>1. cut \in Seq(Row)
      BY <2>5 DEF cut
    <3> QED BY <2>1, <2>7, <3>1, SeqEqual
  <2> QED BY <2>3, <2>8 DEF got, t
<1> QED BY <1>1, InvAlways, PTL

\* An item goes back to an older rebuild only by a put of an overlapped projection.
THEOREM ItemsHold == Spec => ItemsNeverGoBack
<1> DEFINE Back == \A k \in Key : 0 < item'[k] /\ item'[k] < item[k] =>
                     \E p \in raced : phase[p] = "putting" /\ Len(rows'[p]) < Len(rows[p])
<1>1. Inv /\ [Next]_vars => Back
  <2> SUFFICES ASSUME Inv, [Next]_vars, NEW k \in Key, 0 < item'[k], item'[k] < item[k]
               PROVE  \E p \in raced : phase[p] = "putting" /\ Len(rows'[p]) < Len(rows[p])
    OBVIOUS
  <2>1. item \in [Key -> 0 .. gen] /\ gen \in Nat
    BY AthenaAssumption DEF Inv, Shape
  <2>2. item' # item
    BY <2>1
  <2>3. CASE \E p \in Projection : ProjectionStep(p)
    <3>1. PICK p \in Projection : Put(p)
      BY <2>2, <2>3 DEF ProjectionStep, Invoke, LatestQuerySucceeds, Project, FetchRows, Return,
                        BreaksOff, projectionVars
    <3> DEFINE t == query[p].rows
               h == Head(rows[p])
               m == PageSize(t) - Len(rows[p]) + 1
    <3>2. /\ phase[p] = "putting" /\ rows[p] # <<>>
          /\ item' = [item EXCEPT ![h.key] = h.gen]
          /\ rows' = [rows EXCEPT ![p] = Tail(rows[p])]
      BY <3>1 DEF Put
    <3>3. /\ t \in Seq(Row) /\ rows \in [Projection -> Seq(Row)] /\ rows[p] \in Seq(Row)
          /\ ProjectionRight(phase[p], query[p], rows[p], gen)
      BY ProjectionAssumption DEF Inv, Projections, Shape, QueryShape
    <3>4. Remaining("putting", t, rows[p]) /\ Table(t, gen)
      BY <3>2, <3>3 DEF ProjectionRight
    <3>5. m \in 1 .. Len(t) /\ h = t[m]
      BY <3>2, <3>3, <3>4, RestToPut
    <3>6. Len(rows'[p]) < Len(rows[p])
      <4>1. rows'[p] = Tail(rows[p])
        BY <3>2, <3>3
      <4>2. Len(Tail(rows[p])) = Len(rows[p]) - 1 /\ Len(rows[p]) \in Nat
        BY <3>2, <3>3, HeadTailProperties, LenProperties
      <4> QED BY <4>1, <4>2
    <3> HIDE DEF t, h, m
    <3>7. h.key = k /\ item'[k] = h.gen
      BY <2>1, <3>2
    <3>8. p \in raced
      <4> SUFFICES ASSUME p \notin raced PROVE FALSE
        OBVIOUS
      <4>1. item[t[m].key] <= t[m].gen
        BY <3>2, <3>5 DEF Inv, Fresh, IsBusy, UpToDate, t
      <4>2. item[k] <= item'[k] /\ item[k] \in Nat
        BY <2>1, <3>5, <3>7, <4>1
      <4>3. item'[k] \in Nat
        <5>1. t[m] \in Row
          BY <3>3, <3>5, ElementOfSeq
        <5>2. t[m].gen \in 1 .. MaxGen
          BY <5>1 DEF Row
        <5> QED BY <3>5, <3>7, <5>2
      <4> QED BY <4>2, <4>3
    <3> QED BY <3>2, <3>6, <3>8
  <2>4. CASE \E x \in Key : Expire(x)
    <3>1. PICK x \in Key : item' = [item EXCEPT ![x] = 0]
      BY <2>4 DEF Expire
    <3>2. item'[k] = 0 \/ item'[k] = item[k]
      BY <2>1, <3>1
    <3> QED BY <2>1, <3>2
  <2> QED BY <2>2, <2>3, <2>4, StepsOfNext DEF vars
<1>2. Spec => [][Back]_vars
  BY <1>1, InvAlways, PTL DEF Spec
<1> QED BY <1>2 DEF ItemsNeverGoBack

\* A projection that nobody overlapped returns with the items of its page as new
\* as its query.
THEOREM RefreshHolds == Spec => ProjectionRefreshesAPage
<1> DEFINE upToDate(p) == {j \in DOMAIN query[p].rows :
                             item[query[p].rows[j].key] = query[p].rows[j].gen}
           Refreshes ==
             \A p \in Projection :
               phase[p] = "putting" /\ phase'[p] = "ok" /\ p \notin raced =>
                 LET fresh == {j \in DOMAIN query[p].rows :
                                 item[query[p].rows[j].key] = query[p].rows[j].gen}
                 IN  Cardinality(fresh) >= Smaller(Len(query[p].rows),
                                                   Smaller(QueryLimit, AthenaMax - 1))
<1>1. Inv /\ [Next]_vars => Refreshes
  <2> SUFFICES ASSUME Inv, [Next]_vars, NEW p \in Projection,
                      phase[p] = "putting", phase'[p] = "ok", p \notin raced
               PROVE  Cardinality(upToDate(p)) >= PageSize(query[p].rows)
    BY DEF PageSize
  <2> DEFINE t == query[p].rows
  <2>1. /\ phase \in [Invocation -> Phase] /\ p \in Invocation
        /\ t \in Seq(Row) /\ Len(t) \in Nat /\ DOMAIN t = 1 .. Len(t)
    BY ProjectionAssumption, LenProperties DEF Inv, Shape, QueryShape
  <2>2. Return(p)
    <3>1. phase' # phase
      BY <2>1
    <3>2. ~(GoldOverwrites \/ GoldCommits) /\ ~\E k \in Key : Expire(k)
      BY <3>1 DEF GoldOverwrites, GoldCommits, Expire
    <3>3. ASSUME NEW c \in Client, ApiStep(c) PROVE FALSE
      <4>1. c # p
        BY LayerAssumption
      <4>2. PICK ph \in Phase : phase' = [phase EXCEPT ![c] = ph]
        BY <3>3, ApiStepBecomes DEF Inv, ClientBecomes
      <4>3. phase'[p] = phase[p]
        BY <2>1, <4>1, <4>2
      <4> QED BY <4>3
    <3>4. PICK o \in Projection : ProjectionStep(o)
      BY <3>1, <3>2, <3>3, StepsOfNext DEF vars
    <3>5. o = p
      <4>1. PICK ph \in Phase : phase' = [phase EXCEPT ![o] = ph]
        BY <3>4, ProjectionStepBecomes DEF Inv, ProjectionBecomes
      <4> QED BY <2>1, <4>1
    <3>6. ~Invoke(p) /\ ~LatestQuerySucceeds(p) /\ ~FetchRows(p) /\ ~Put(p) /\ ~GivesUp(p)
      BY <2>1 DEF Invoke, StartQuery, LatestQuerySucceeds, QuerySucceeds, FetchRows, Ready, Put,
                  GivesUp, IsBusy
    <3>7. ~BreaksOff(p)
      BY <2>1 DEF BreaksOff, PollFailed, Breaks, Fail
    <3> QED BY <3>4, <3>5, <3>6, <3>7 DEF ProjectionStep, Project
  <2>3. rows[p] = <<>> /\ Len(<<>>) = 0
    BY <2>2 DEF Return
  <2>4. PageSize(t) \in Nat /\ PageSize(t) <= Len(t)
    BY <2>1, AthenaAssumption, ProjectionAssumption DEF PageSize, Smaller
  <2>5. \A j \in 1 .. PageSize(t) : item[t[j].key] = t[j].gen
    <3>1. \A j \in 1 .. (PageSize(t) - Len(rows[p])) : item[t[j].key] = t[j].gen
      BY DEF Inv, Fresh, IsBusy, UpToDate
    <3>2. PageSize(t) - Len(rows[p]) = PageSize(t)
      BY <2>3, <2>4
    <3> QED BY <3>1, <3>2
  <2>6. 1 .. PageSize(t) \subseteq upToDate(p) /\ upToDate(p) \subseteq 1 .. Len(t)
    BY <2>1, <2>4, <2>5
  <2>7. IsFiniteSet(1 .. Len(t)) /\ Cardinality(1 .. PageSize(t)) = PageSize(t)
    <3> HIDE DEF t
    <3>1. IsFiniteSet(1 .. Len(t))
      BY <2>1, FS_Interval
    <3>2. \A n \in Nat : Cardinality(1 .. n) = IF 1 > n THEN 0 ELSE n - 1 + 1
      BY FS_Interval
    <3>3. \A n \in Nat : Cardinality(1 .. n) = n
      BY <3>2
    <3> QED BY <2>4, <3>1, <3>3
  <2> HIDE DEF upToDate, t
  <2>8. IsFiniteSet(upToDate(p))
    BY <2>6, <2>7, FS_Subset
  <2>9. Cardinality(1 .. PageSize(t)) <= Cardinality(upToDate(p))
    BY <2>6, <2>8, FS_Subset
  <2> QED BY <2>4, <2>7, <2>8, <2>9, FS_CardinalityType DEF t
<1> QED BY <1>1, InvAlways, PTL DEF Spec, ProjectionRefreshesAPage
=============================================================================
