------------------------------ MODULE ServingApi ------------------------------
(***************************************************************************)
(* api_handler.py and its client: the latest item of a key from DynamoDB,  *)
(* and the history of a series from Athena, page by page.  The other two   *)
(* routes (/signals, /daily-summary) differ from /metrics/history in the   *)
(* table and the columns only.                                             *)
(*                                                                         *)
(* A client sends one request after another; it may follow the page tokens *)
(* of its last history request while Gold rewrites the table, and with     *)
(* another limit on every page.                                            *)
(***************************************************************************)
EXTENDS AthenaQuery

CONSTANTS
  Client,   \* invocations of the API Lambda, one per client
  MaxLimit  \* HISTORY_MAX_LIMIT

VARIABLE session \* what a client has of its history request

ASSUME ApiAssumption == Client \subseteq Invocation /\ MaxLimit \in Nat \ {0}

NoSession == [limit |-> 0, received |-> <<>>, next |-> 0]

\* The client asks for something else, and forgets the query of its last request.
Forget(c) ==
  /\ session' = [session EXCEPT ![c] = NoSession]
  /\ query' = [query EXCEPT ![c] = NoQuery]
  /\ UNCHANGED goldVars

\* Every check of the parameters comes before any call: a bad method, symbol,
\* interval, limit, date or token is a 400, an unknown route a 404.
Refuse(c) ==
  /\ ~IsBusy(c)
  /\ Forget(c)
  /\ phase' = [phase EXCEPT ![c] = "failed"]

\* latest_metric: the eventually consistent read may miss an item just put and
\* find one that has just expired; expires_at_epoch is not looked at.
GetLatest(c) ==
  /\ ~IsBusy(c)
  /\ Forget(c)
  /\ \E answer \in {"ok", "failed"} : phase' = [phase EXCEPT ![c] = answer]

\* athena_items without a token; bounded_limit has accepted the limit.
GetHistory(c, limit) ==
  /\ ~IsBusy(c)
  /\ StartQuery(c)
  /\ session' = [session EXCEPT ![c] = [NoSession EXCEPT !.limit = limit]]
  /\ UNCHANGED goldVars

\* build_history_query: ORDER BY open_time DESC LIMIT limit
HistoryRows(limit) ==
  [j \in 1 .. Smaller(limit, candles) |-> [key |-> "candle", gen |-> candles + 1 - j]]

HistoryQuerySucceeds(c) ==
  /\ QuerySucceeds(c, HistoryRows(session[c].limit))
  /\ UNCHANGED session

StripFirst(page) == IF page = <<>> THEN page ELSE Tail(page)

\* page_to_response drops the first row when it equals the headers.
StripHeader(page) == IF page # <<>> /\ Head(page) = Header THEN Tail(page) ELSE page

\* The client appends the items of a page to what it has.
Receive(c, page) ==
  session' = [session EXCEPT ![c].received = @ \o StripHeader(page.rows),
                             ![c].next = page.next]

FirstPage(c) ==
  /\ Ready(c)
  /\ Receive(c, Page(c, session[c].limit, 0))
  /\ phase' = [phase EXCEPT ![c] = "ok"]
  /\ UNCHANGED <<gen, latest, candles, query>>

\* athena_items with a token: a page of the same query execution.
NextPage(c, limit) ==
  /\ phase[c] = "ok" /\ session[c].next > 0
  /\ Receive(c, Page(c, limit, session[c].next))
  /\ UNCHANGED athenaVars

-----------------------------------------------------------------------------

ApiInit == session = [c \in Client |-> NoSession]

\* lambda_handler, if nothing breaks.
Handle(c) ==
  \/ GivesUp(c) /\ session' = [session EXCEPT ![c] = NoSession]
  \/ FirstPage(c)

ApiNext ==
  \E c \in Client :
    \/ Refuse(c) \/ GetLatest(c)
    \/ \E limit \in 1 .. MaxLimit : GetHistory(c, limit) \/ NextPage(c, limit)
    \/ HistoryQuerySucceeds(c)
    \/ Handle(c)
    \/ (PollFailed(c) \/ Breaks(c)) /\ session' = [session EXCEPT ![c] = NoSession]

ApiTypeOK ==
  \A c \in Client :
    /\ session[c].limit \in 0 .. MaxLimit
    /\ session[c].next \in 0 .. MaxGen
    /\ \A j \in DOMAIN session[c].received : session[c].received[j] \in Row
=============================================================================
