------------------------------ MODULE Indicators ------------------------------
(***************************************************************************)
(* Technical indicators over a sequence of prices.  The three analytics    *)
(* modules each have their own copy of these functions.  Percentages and   *)
(* the RSI are in hundredths.                                              *)
(***************************************************************************)
EXTENDS ResearchMeta, SequencesExt

(* RSI over the latest 14 changes: 50 when nothing moved.                    *)
Rsi(prices) ==
    LET sample == LatestOf([i \in 1..(Len(prices) - 1) |-> prices[i + 1] - prices[i]], 14)
        gains  == Total({i \in DOMAIN sample : sample[i] > 0}, LAMBDA i : sample[i])
        losses == Total({i \in DOMAIN sample : sample[i] < 0}, LAMBDA i : -sample[i])
    IN  IF gains = 0 /\ losses = 0 THEN 5000 ELSE (10000 * gains) \div (gains + losses)

(* The exponential average after each value.                                 *)
EmaSeries(values, period) ==
    FoldLeft(LAMBDA ema, v : Append(ema, LastOf(ema) + Ratio(2 * (v - LastOf(ema)), period + 1)),
             <<values[1]>>, Tail(values))

(* MACD (12, 26) less its signal (9), in thousandths of the price.           *)
Histogram(prices) ==
    LET scaled == [i \in DOMAIN prices |-> 1000 * prices[i]]
        fast   == EmaSeries(scaled, 12)
        slow   == EmaSeries(scaled, 26)
        macd   == [i \in DOMAIN prices |-> fast[i] - slow[i]]
    IN  LastOf(macd) - EmaSeries(macd, 9)[Len(prices)]

(* The deepest fall from an earlier peak.                                    *)
Drawdown(prices) ==
    LET peak(i) == Max({prices[j] : j \in 1..i})
    IN  Max({(10000 * (peak(i) - prices[i])) \div peak(i) : i \in DOMAIN prices})

(* The indicators need at least twenty prices.                               *)
LongEnough(prices) == Len(prices) >= 20
=============================================================================
