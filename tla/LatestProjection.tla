-------------------------- MODULE LatestProjection --------------------------
(***************************************************************************)
(* projection_handler.py: copy market_indicators_latest to DynamoDB, one   *)
(* unconditional put per row of one page of one Athena query.  It is       *)
(* invoked by the batch chain and, when enabled, by a schedule of its own, *)
(* so that two invocations may run at the same time.                       *)
(***************************************************************************)
EXTENDS AthenaQuery, SequencesExt

CONSTANTS
  Projection,    \* invocations of the projection Lambda
  QueryLimit     \* PROJECTION_QUERY_LIMIT

VARIABLES
  item,  \* the DynamoDB item of a key: the rebuild it is from, 0 = no item
  rows,  \* rows an invocation still has to put
  raced  \* invocations under way that another one has overlapped

projectionVars == <<item, rows, raced>>

ASSUME ProjectionAssumption == Projection \subseteq Invocation /\ QueryLimit \in Nat \ {0}

\* The rows of the table, in any order: latest_metrics_query has no ORDER BY.
Orderings(table) ==
  SetToSeqs({[key |-> k, gen |-> table[k]] : k \in {j \in Key : table[j] > 0}})

Invoke(p) ==
  /\ ~IsBusy(p)
  /\ StartQuery(p)
  /\ LET others == {o \in Projection : IsBusy(o)} IN
       raced' = IF others = {} THEN raced ELSE raced \cup others \cup {p}
  /\ UNCHANGED <<gen, latest, candles, item, rows>>

LatestQueryReusesResult(p) ==
  /\ \E g \in 1 .. gen :
       \E result \in Orderings([k \in Key |-> g]) : QuerySucceeds(p, result)
  /\ UNCHANGED projectionVars

LatestQuerySucceeds(p) ==
  /\ \E result \in Orderings(latest) : QuerySucceeds(p, result)
  /\ UNCHANGED projectionVars

\* One page, without its header.
FetchRows(p) ==
  /\ Ready(p)
  /\ rows' = [rows EXCEPT ![p] = Tail(Page(p, QueryLimit, 0).rows)]
  /\ phase' = [phase EXCEPT ![p] = "putting"]
  /\ UNCHANGED <<gen, latest, candles, query, item, raced>>

\* put_item, with a new expires_at_epoch.
Put(p) ==
  /\ phase[p] = "putting" /\ rows[p] # <<>>
  /\ item' = [item EXCEPT ![Head(rows[p]).key] = Head(rows[p]).gen]
  /\ rows' = [rows EXCEPT ![p] = Tail(@)]
  /\ UNCHANGED <<gen, latest, candles, phase, query, raced>>

BreaksSilently(p) ==
  /\ phase[p] = "putting" /\ rows[p] # <<>>
  /\ rows' = [rows EXCEPT ![p] = Tail(@)]
  /\ UNCHANGED <<gen, latest, candles, phase, query, item, raced>>

BreaksKeepingRows(p) ==
  /\ PollFailed(p) \/ Breaks(p)
  /\ raced' = raced \ {p}
  /\ UNCHANGED <<item, rows>>

\* The query fails, or something breaks, in the middle of the rows too (DynamoDB
\* refuses a NaN, for one): those put stay, the others are not put.
BreaksOff(p) ==
  /\ PollFailed(p) \/ Breaks(p)
  /\ rows' = [rows EXCEPT ![p] = <<>>]
  /\ raced' = raced \ {p}
  /\ UNCHANGED item

Return(p) ==
  /\ phase[p] = "putting" /\ rows[p] = <<>>
  /\ phase' = [phase EXCEPT ![p] = "ok"]
  /\ query' = [query EXCEPT ![p] = NoQuery]
  /\ raced' = raced \ {p}
  /\ UNCHANGED <<gen, latest, candles, item, rows>>

KeysOf(s) == {s[j].key : j \in DOMAIN s}

\* DynamoDB deletes an item some time after its expires_at_epoch: CACHE_TTL_DAYS
\* after its put, so never while the invocation that put it, of a minute at most,
\* is under way.
Expire(k) ==
  /\ item[k] > 0
  /\ \A p \in Projection : phase[p] = "putting" /\ k \in KeysOf(query[p].rows) => k \in KeysOf(rows[p])
  /\ item' = [item EXCEPT ![k] = 0]
  /\ UNCHANGED <<gen, latest, candles, phase, query, rows, raced>>

-----------------------------------------------------------------------------

ProjectionInit ==
  /\ item = [k \in Key |-> 0]
  /\ rows = [p \in Projection |-> <<>>]
  /\ raced = {}

\* What the Lambda does once invoked, if nothing breaks.
Project(p) ==
  \/ GivesUp(p) /\ raced' = raced \ {p} /\ UNCHANGED <<item, rows>>
  \/ FetchRows(p) \/ Put(p) \/ Return(p)

ProjectionNext ==
  \/ \E p \in Projection :
       Invoke(p) \/ LatestQuerySucceeds(p) \/ Project(p) \/ BreaksOff(p)
  \/ \E k \in Key : Expire(k)

ProjectionTypeOK ==
  /\ item \in [Key -> 0 .. MaxGen]
  /\ \A p \in Projection :
       /\ \A j \in DOMAIN rows[p] : rows[p][j] \in Row
       /\ rows[p] # <<>> => phase[p] = "putting"
  /\ raced \subseteq {p \in Projection : IsBusy(p)}
=============================================================================
