----------------------------- MODULE MarketFeed -----------------------------
(***************************************************************************)
(* What both producers read: fetch_latest (apps/binance-producer/common.py)*)
(* asks Binance for the last two klines of a series (symbol, interval) and *)
(* keeps the last row the HOST clock says is closed, or the last row of    *)
(* all when it says none is.  normalize_kline names the row by its open    *)
(* time alone: the open and the closed version of a candle share an id.    *)
(*                                                                         *)
(* Candles of a series are numbered; openCandle[k] is the one still open   *)
(* at Binance, those below it are final.                                   *)
(***************************************************************************)
EXTENDS Integers

CONSTANTS
  Key,       \* the series a producer polls
  MaxCandle, \* bound: the last candle the market opens
  HostClock  \* how the host clock may stand to Binance's: late, right, early

VARIABLE openCandle

ASSUME FeedAssumption ==
  /\ MaxCandle \in Nat \ {0}
  /\ HostClock \subseteq {"late", "right", "early"}
  /\ HostClock # {}

EventId == Key \X (0 .. MaxCandle)

\* is_closed is what the record claims, final what is true of its prices.
Record == [key : Key, candle : 0 .. MaxCandle, is_closed : BOOLEAN, final : BOOLEAN]

event_id(r) == <<r.key, r.candle>>

RowsAhead(k) == openCandle[k] .. openCandle[k] + 1

\* The rows of klines?limit=2: a series just listed has only one.
Rows(k) == {n \in 0 .. openCandle[k] : n >= openCandle[k] - 1}

\* close_time < now_ms.  A late host clock has not seen the last candle close;
\* an early one sees the open candle as closed.
ClosedRows(k, clock) ==
  CASE clock = "late"  -> {}
    [] clock = "right" -> Rows(k) \ {openCandle[k]}
    [] clock = "early" -> Rows(k)

\* (closed_rows or rows)[-1], with is_closed evaluated against the same clock.
FetchLatest(k, clock) ==
  LET closed == ClosedRows(k, clock)
      rows   == IF closed # {} THEN closed ELSE Rows(k)
      last   == CHOOSE n \in rows : \A m \in rows : m <= n
  IN  [key |-> k, candle |-> last, is_closed |-> last \in closed,
       final |-> last < openCandle[k]]

FeedInit == openCandle \in [Key -> {0, 1}]

\* The market closes the open candle of a series and opens the next one.
CandleCloses(k) ==
  /\ openCandle[k] < MaxCandle
  /\ openCandle' = [openCandle EXCEPT ![k] = @ + 1]
=============================================================================
