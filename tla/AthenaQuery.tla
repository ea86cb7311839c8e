---------------------------- MODULE AthenaQuery ----------------------------
(***************************************************************************)
(* The life of an Athena query started by a Lambda of aws-serving-api      *)
(* (serving_common.py): start, poll until it ends or a deadline passes,    *)
(* ask for it to be stopped, fetch pages of its result.  Shared by the API *)
(* and the projection.                                                     *)
(*                                                                         *)
(* An invocation runs at most one query.  latest and candles are what      *)
(* Athena finds in trading_gold, which the Gold job rewrites meanwhile.    *)
(***************************************************************************)
EXTENDS Integers, Sequences, FiniteSets

CONSTANTS
  Invocation, \* invocations of the two Lambdas
  Key,        \* pairs of symbol and interval
  MaxGen,     \* bound: rebuilds by Gold
  AthenaMax   \* most rows GetQueryResults returns, 1000

VARIABLES
  gen,    \* rebuilds of Gold so far
  latest, \* market_indicators_latest: the rebuild each row is from, 0 = no row
  candles,\* rows of market_indicators for one series
  phase,  \* what an invocation is doing, or how it ended
  query   \* its Athena query, as long as somebody may ask for its result

goldVars   == <<gen, latest, candles>>
athenaVars == <<gen, latest, candles, phase, query>>

ASSUME AthenaAssumption ==
  MaxGen \in Nat /\ AthenaMax \in Nat \ {0, 1} /\ IsFiniteSet(Key)

\* "failed" stands for every answer but 200: refused with 400 or 404, failed with
\* 500, 502 or 504, and an invocation killed before it answers.
Phase == {"idle", "waiting", "putting", "ok", "failed"}

Row == [key : Key \cup {"candle"}, gen : 1 .. MaxGen]

Header == [key |-> "header", gen |-> 0]

NoQuery == [state |-> "none", rows |-> <<>>]

IsBusy(i) == phase[i] \in {"waiting", "putting"}

Smaller(a, b) == IF a < b THEN a ELSE b

\* An invocation ends without an answer from its query, which nobody will see.
Fail(i) ==
  /\ phase' = [phase EXCEPT ![i] = "failed"]
  /\ query' = [query EXCEPT ![i] = NoQuery]
  /\ UNCHANGED goldVars

-----------------------------------------------------------------------------
(* Gold *)

\* Gold rebuilds: its data sets are emptied...
GoldOverwrites ==
  /\ gen < MaxGen
  /\ gen' = gen + 1
  /\ latest' = [k \in Key |-> 0]
  /\ candles' = 0
  /\ UNCHANGED <<phase, query>>

\* ... and filled again; a series may have left the table.
GoldCommits ==
  /\ gen > 0 /\ candles = 0
  /\ candles' = gen
  /\ \E K \in SUBSET Key : latest' = [k \in Key |-> IF k \in K THEN gen ELSE 0]
  /\ UNCHANGED <<gen, phase, query>>

-----------------------------------------------------------------------------
(* The query *)

\* start_athena_query
StartQuery(i) ==
  /\ query' = [query EXCEPT ![i] = [state |-> "running", rows |-> <<>>]]
  /\ phase' = [phase EXCEPT ![i] = "waiting"]

\* Athena has the result.
QuerySucceeds(i, result) ==
  /\ query[i].state = "running"
  /\ query' = [query EXCEPT ![i] = [state |-> "succeeded", rows |-> result]]
  /\ UNCHANGED <<gen, latest, candles, phase>>

\* wait_for_athena_query finds the query succeeded.
Ready(i) == phase[i] = "waiting" /\ query[i].state = "succeeded"

\* It finds that Athena has FAILED or CANCELLED the query, for instance because Gold has removed a
\* file the query was to read: ServiceFailure.
PollFailed(i) == phase[i] = "waiting" /\ query[i].state = "running" /\ Fail(i)

GivesUpOnceDone(i) == Ready(i) /\ Fail(i)

\* The deadline passes before a poll has seen the query end, which it may have
\* done since the last one.  The query is asked to stop, whether that works or
\* not: ServiceTimeout.
GivesUp(i) == phase[i] = "waiting" /\ Fail(i)

\* Any other call to AWS raises, or the Lambda reaches its own timeout; the items
\* put so far stay.
Breaks(i) == IsBusy(i) /\ Fail(i)

-----------------------------------------------------------------------------
(* get_athena_page *)

\* The header is the first row of the first page only; token 0 is no token.
MaxResults(limit, token) == Smaller(IF token > 0 THEN limit ELSE limit + 1, AthenaMax)

\* GetQueryResults: the rows after token, header included, and the next token.
Page(i, limit, token) ==
  LET all  == <<Header>> \o query[i].rows
      last == Smaller(token + MaxResults(limit, token), Len(all))
  IN  [rows |-> SubSeq(all, token + 1, last),
       next |-> IF last < Len(all) THEN last ELSE 0]

-----------------------------------------------------------------------------

AthenaInit ==
  /\ gen = 0 /\ candles = 0
  /\ latest = [k \in Key |-> 0]
  /\ phase = [i \in Invocation |-> "idle"]
  /\ query = [i \in Invocation |-> NoQuery]

AthenaTypeOK ==
  /\ gen \in 0 .. MaxGen
  /\ latest \in [Key -> 0 .. MaxGen]
  /\ candles \in 0 .. MaxGen
  /\ phase \in [Invocation -> Phase]
  /\ \A i \in Invocation :
       /\ query[i].state \in {"none", "running", "succeeded"}
       /\ Len(query[i].rows) <= MaxGen + Cardinality(Key)
       /\ \A j \in DOMAIN query[i].rows : query[i].rows[j] \in Row
=============================================================================
