--------------------------- MODULE FuturesResearch ---------------------------
(***************************************************************************)
(* A Binance USD-M perpetual: adapters                                     *)
(* (backend/app/providers/binance_futures.py), analytics                   *)
(* (backend/app/analytics/binance_futures.py) and service                  *)
(* (backend/app/services/binance_futures_service.py).                      *)
(*                                                                         *)
(* Times are minutes.  Rates and shares are integers in ten-thousandths,   *)
(* percentages in hundredths.                                              *)
(***************************************************************************)
EXTENDS ResearchMeta, SequencesExt

CONSTANTS Asset,      \* the perpetual asked for
          Malformed,  \* a payload that is not of the documented form
          Period,     \* the period of the request, in minutes
          Limit       \* the most points a history may have

FuturesParts ==
    [symbols       |-> {"symbols"},
     market        |-> {"market"},
     funding       |-> {"funding"},
     open_interest |-> {"open_interest_current", "open_interest_history"},
     basis         |-> {"basis"},
     positioning   |-> {"positioning_accounts", "positioning_taker"},
     research      |-> {"market", "funding", "open_interest_current",
                        "open_interest_history", "basis", "positioning_accounts",
                        "positioning_taker"}]

FuturesCaptures == {"research"}

-----------------------------------------------------------------------------
(* Adapters                                                                  *)

NormalizePerpetuals(w) ==
    LET tradable == {e.symbol : e \in {x \in w.symbols : x.status = "TRADING" /\ x.perpetual}}
    IN  IF tradable = {} THEN SchemaError ELSE Normalized(tradable, w.server_time)

(* A history is of the asset (taker flow does not say of which), within the  *)
(* limit, strictly ordered and not of the future.                            *)
HistoryOk(w, named) ==
    /\ Len(w) \in 1..Limit
    /\ \A i \in DOMAIN w : /\ named => w[i].symbol = Asset
                           /\ w[i].time <= Now + 1
    /\ \A i \in 2..Len(w) : w[i - 1].time < w[i].time

(* What the provider says of the basis must match its prices to a basis      *)
(* point.                                                                    *)
BasisOk(p) ==
    LET expected == p.futures - p.index
    IN  /\ p.index > 0 /\ p.futures > 0
        /\ 10000 * Magnitude(p.basis - expected) <= p.index
        /\ Magnitude(p.rate * p.index - 10000 * expected) <= p.index

PointOk(component, p) ==
    CASE component = "funding"               -> p.mark > 0
      [] component = "open_interest_history" -> p.quantity >= 0
      [] component = "basis"                 -> BasisOk(p)
      [] component = "positioning_accounts"  ->
            /\ p.long \in 0..10000 /\ p.short \in 0..10000
            /\ Magnitude(p.long + p.short - 10000) <= 10
      [] component = "positioning_taker"     -> p.buy >= 0 /\ p.sell >= 0

FuturesNormalize(component, w) ==
    IF w = Malformed THEN SchemaError ELSE
    CASE component = "symbols" -> NormalizePerpetuals(w)
      [] component = "market" ->
            IF w.symbol = Asset /\ w.mark > 0 /\ w.index > 0
            THEN Normalized(w, w.time) ELSE SchemaError
      [] component = "open_interest_current" ->
            IF w.symbol = Asset /\ w.quantity >= 0
            THEN Normalized(w, w.time) ELSE SchemaError
      [] OTHER ->
            IF /\ HistoryOk(w, component # "positioning_taker")
               /\ \A i \in DOMAIN w : PointOk(component, w[i])
            THEN Normalized(w, LastOf(w).time) ELSE SchemaError

-----------------------------------------------------------------------------
(* Analytics: a signal is None when its input is missing or says nothing.    *)

(* The rate at the spacing of the last settlements, over a year; only when   *)
(* the last two gaps are equal.                                              *)
AnnualizedFunding(points) ==
    LET n   == Len(points)
        gap == points[n].time - points[n - 1].time
    IN  IF n >= 3 /\ gap = points[n - 1].time - points[n - 2].time
        THEN Ratio(points[n].rate * 525600, gap) ELSE None

OpenInterestChange(points) ==
    IF Len(points) >= 2 /\ points[1].quantity > 0
    THEN Ratio(10000 * (LastOf(points).quantity - points[1].quantity), points[1].quantity)
    ELSE None

(* Distance of the last quantity from those before it, in hundredths of      *)
(* their standard deviation.                                                 *)
OpenInterestZ(points) ==
    LET n       == Len(points) - 1
        sum     == Total(1..n, LAMBDA i : points[i].quantity)
        squares == Total(1..n, LAMBDA i : points[i].quantity * points[i].quantity)
        spread  == n * squares - sum * sum
        off     == n * LastOf(points).quantity - sum
    IN  IF n >= 4 /\ spread > 0
        THEN (IF off < 0 THEN -1 ELSE 1) * Root((10000 * off * off) \div spread)
        ELSE None

BasisPercent(points) ==
    LET p == LastOf(points) IN Ratio(10000 * (p.futures - p.index), p.index)

TakerShare(points) ==
    LET p == LastOf(points)
    IN  IF p.buy + p.sell = 0 THEN None ELSE (10000 * p.buy) \div (p.buy + p.sell)

AnalyzeFutures(parts) ==
    LET Of(c, signal(_)) == IF c \in DOMAIN parts THEN signal(parts[c].data) ELSE None
    IN  [funding |-> Of("funding", AnnualizedFunding),
         change  |-> Of("open_interest_history", OpenInterestChange),
         z       |-> Of("open_interest_history", OpenInterestZ),
         basis   |-> Of("basis", BasisPercent),
         long    |-> Of("positioning_accounts", LAMBDA points : LastOf(points).long),
         taker   |-> Of("positioning_taker", TakerShare)]

(* The signals that say which side is crowded, their centre and threshold.   *)
Directional ==
    [funding |-> [centre |-> 0,    threshold |-> 3000],
     long    |-> [centre |-> 5000, threshold |-> 1500],
     taker   |-> [centre |-> 5000, threshold |-> 1500]]

Extreme(a) == {s \in DOMAIN Directional :
                  /\ a[s] # None
                  /\ Magnitude(a[s] - Directional[s].centre) >= Directional[s].threshold}

Crowding(a) ==
    LET sides == {IF a[s] > Directional[s].centre THEN "long" ELSE "short" : s \in Extreme(a)}
    IN  CASE Cardinality(sides) = 2 -> "mixed"
          [] Cardinality(sides) = 1 -> CHOOSE side \in sides : TRUE
          [] sides = {} -> IF \E s \in DOMAIN Directional : a[s] # None
                           THEN "balanced" ELSE "unavailable"

Anomalies(a) ==
    Extreme(a) \cup (IF a.basis # None /\ Magnitude(a.basis) >= 50 THEN {"basis"} ELSE {})
               \cup (IF a.z # None /\ Magnitude(a.z) >= 200 THEN {"z"} ELSE {})

-----------------------------------------------------------------------------
(* Risk                                                                      *)

FuturesWeights ==
    [funding_crowding |-> 30, open_interest_instability |-> 25,
     basis_dislocation |-> 20, positioning_imbalance |-> 25]

(* The signals each component needs.                                         *)
Needed == [funding_crowding          |-> {"funding"},
           open_interest_instability |-> {"change"},
           basis_dislocation         |-> {"basis"},
           positioning_imbalance     |-> {"long", "taker"}]

FuturesScore(name, a) ==
    CASE name = "funding_crowding"          -> 2 * Magnitude(a.funding)
      [] name = "open_interest_instability" ->
            2 * Magnitude(a.change) + 15 * (IF a.z = None THEN 0 ELSE Magnitude(a.z))
      [] name = "basis_dislocation"         -> 100 * Magnitude(a.basis)
      [] name = "positioning_imbalance"     ->
            2 * Magnitude(a.long - 5000) + 2 * Magnitude(a.taker - 5000)

FuturesRisk(a, freshness) ==
    LET named  == {n \in DOMAIN FuturesWeights : \A s \in Needed[n] : a[s] # None}
        scores == [n \in named |-> Clamp(FuturesScore(n, a), 0, 10000)]
    IN  IF named = {} THEN None ELSE WeightedRisk(scores, FuturesWeights, freshness)

-----------------------------------------------------------------------------
(* The service                                                               *)

MaximumAge(component) ==
    CASE component = "funding" -> 1440
      [] component \in {"market", "open_interest_current"} -> 2
      [] OTHER -> 2 * Period + 5

(* A read that arrives fresh may be of an old observation: _fetch says so.   *)
Aged(meta) ==
    IF meta.component # "symbols" /\ meta.staleness > MaximumAge(meta.component)
    THEN [meta EXCEPT !.freshness = "stale",
                      !.warnings = @ \cup {"upstream_observation_old"}]
    ELSE meta

FuturesAggregate(metas, missing) ==
    LET old == StatusOf(metas) = STALE \/ \E m \in metas : m.freshness = "stale"
    IN  Aggregate(metas, missing,
                  IF old THEN STALE ELSE StatusOf(metas),
                  IF old THEN "stale"
                  ELSE IF StatusOf(metas) = HIT THEN "cached" ELSE "live")

FuturesAnswer(op, parts, missing) ==
    LET metas == {parts[c].meta : c \in DOMAIN parts}
        meta  == FuturesAggregate(metas, missing)
        signals == AnalyzeFutures(parts)
    IN  IF parts = <<>> THEN [kind |-> "error", code |-> "unavailable"]
        ELSE [kind  |-> "answer",
              shown |-> DOMAIN parts,
              risk  |-> IF op = "research"
                        THEN FuturesRisk(signals, FreshnessConfidence(meta))
                        ELSE None,
              crowding  |-> IF op = "research" THEN Crowding(signals) ELSE None,
              anomalies |-> IF op = "research" THEN Anomalies(signals) ELSE {},
              meta  |-> IF op \in {"open_interest", "positioning", "research"} THEN meta
                        ELSE CHOOSE m \in metas : TRUE]
=============================================================================
