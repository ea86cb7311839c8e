----------------------------- MODULE Indicators -----------------------------
(***************************************************************************)
(* jobs/utils/indicators.py: the moving averages Gold computes with window *)
(* functions.  Spark has no recurrence over a window, so the EMA is        *)
(* written in closed form, with weights 1 / beta^n that grow with the row  *)
(* index n: they are exact on paper and overflow a double on a long series.*)
(*                                                                         *)
(* A series is a function from row indexes 0 .. last to closes (or, for    *)
(* the RSI, from 1 .. last to gains or losses).  alpha is the fraction     *)
(* a / q, so beta is (q - a) / q.  A double is <<numerator>> when it is    *)
(* finite and <<>> when it is Infinity or NaN; rows whose indicator is     *)
(* null are outside the domain of the result.  The macd is a difference of *)
(* two EMAs, and the Bollinger bands are aggregates Spark provides: both   *)
(* are left out.                                                           *)
(***************************************************************************)
EXTENDS Integers, FiniteSets

CONSTANTS
  MaxDouble, \* the largest finite double
  MaxPower   \* the largest 1 / beta^n for which beta^n is not rounded to 0

ASSUME MaxDoubleAssumption == MaxDouble \in Nat /\ MaxPower \in Nat

IsFinite(v) == v # <<>>

Rows(x) == DOMAIN x

LastRow(x) == CHOOSE n \in Rows(x) : \A m \in Rows(x) : m <= n

\* row_number() over (order by open_time) - 1, and the close of each row, for
\* the candles S of one series with the given closes.
Indexed(S, close) ==
  [n \in 0 .. Cardinality(S) - 1 |->
     close[CHOOSE c \in S : Cardinality({d \in S : d < c}) = n]]

-----------------------------------------------------------------------------
(* The EMA *)

\* b to the power of n.
Power(b, n) ==
  LET p[k \in Nat] == IF k = 0 THEN 1 ELSE b * p[k - 1]
  IN  p[n]

\* beta^n is 0 as a double; on a long series that comes some rows after the
\* overflow of x / beta^n for an x of 1.
Vanishes(n, q, b) == Power(q, n) > MaxPower * Power(b, n)

WeightedSumSkippingOverflow(x, start, q, b) ==
  LET N == LastRow(x)
      sum[n \in start .. N] ==
        IF n = start
          THEN <<0>>
          ELSE LET v == sum[n - 1][1] + x[n] * Power(q, n) * Power(b, N - n)
               IN  IF v > MaxDouble * Power(b, N) THEN sum[n - 1] ELSE <<v>>
  IN  sum

\* Running sum of x[n] / beta^n over the rows after start, in units of b^-N for
\* the last row N.  A weighted close or a sum beyond MaxDouble is Infinity, and
\* what is added to Infinity stays there; a division by 0 is null, which a sum
\* skips.
WeightedSum(x, start, q, b) ==
  LET N == LastRow(x)
      sum[n \in start .. N] ==
        IF n = start
          THEN <<0>>
          ELSE LET before == sum[n - 1]
                   v == before[1] + x[n] * Power(q, n) * Power(b, N - n)
               IN  IF Vanishes(n, q, b) THEN before
                   ELSE IF IsFinite(before) /\ v <= MaxDouble * Power(b, N) THEN <<v>> ELSE <<>>
  IN  sum

\* _with_ema: beta^(n - start) * first + alpha * beta^n * sum, for the rows from
\* start on, in units of 1 / (q^(n + 1) * b^N).  An infinite sum gives Infinity,
\* and NaN once beta^n is 0; a finite one then gives 0 (the first summand is at
\* most about the smallest double).
Ema(x, start, a, q) ==
  LET N == LastRow(x)
      b == q - a
      sum == WeightedSum(x, start, q, b)
  IN  [n \in start .. N |->
         LET total == sum[n]
         IN  CASE ~IsFinite(total) -> <<>>
               [] IsFinite(total) /\ Vanishes(n, q, b) -> <<0>>
               [] OTHER -> <<Power(q, start + 1) * Power(b, n - start + N) * x[start]
                               + a * Power(b, n) * total[1]>>]

\* What an EMA is: e[start] = x[start], e[n] = alpha * x[n] + beta * e[n - 1];
\* in units of q^(start - n).
Recurrence(x, start, a, q) ==
  LET e[n \in start .. LastRow(x)] ==
        IF n = start THEN x[n] ELSE a * x[n] * Power(q, n - start - 1) + (q - a) * e[n - 1]
  IN  e

\* The value v of Ema at a row of x is the value e of Recurrence at that row.
SameAverage(x, start, a, q, v, e) ==
  v[1] = e * Power(q, start + 1) * Power(q - a, LastRow(x))

-----------------------------------------------------------------------------
(* The RSI *)

\* greatest(_delta, 0.0); row 0 has no previous close, and nothing reads its gain.
Gain(x) == [n \in Rows(x) \ {0} |-> IF x[n] > x[n - 1] THEN x[n] - x[n - 1] ELSE 0]

\* greatest(-_delta, 0.0); likewise.
Loss(x) == [n \in Rows(x) \ {0} |-> IF x[n] < x[n - 1] THEN x[n - 1] - x[n] ELSE 0]

RsiDividing(gain, loss) == [num |-> 100 * gain[1], den |-> gain[1] + loss[1]]

\* rsi_14 from finite averages, as a fraction: 100 - 100 / (1 + gain / loss), and
\* the two cases in which the average loss is 0.
Rsi(gain, loss) ==
  CASE loss[1] = 0 /\ gain[1] > 0 -> [num |-> 100, den |-> 1]
    [] loss[1] = 0 /\ gain[1] = 0 -> [num |-> 50, den |-> 1]
    [] OTHER -> [num |-> 100 * (gain[1] + loss[1]) - 100 * loss[1],
                 den |-> gain[1] + loss[1]]
=============================================================================
