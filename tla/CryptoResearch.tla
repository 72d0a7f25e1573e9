---------------------------- MODULE CryptoResearch ----------------------------
(***************************************************************************)
(* A CoinGecko coin: adapters (backend/app/providers/coingecko.py),        *)
(* analytics (backend/app/analytics/crypto.py) and service                 *)
(* (backend/app/services/crypto_service.py).                               *)
(*                                                                         *)
(* Market values are integers in millions, scores in hundredths and        *)
(* z-scores in tenths.                                                     *)
(***************************************************************************)
EXTENDS Indicators

CONSTANTS Asset,            \* the coin asked for
          Malformed,        \* a payload that is not of the documented form
          Volatility(_),    \* annualised volatility of a sequence of prices
          LogChange(_, _)   \* percent change, as a logarithm, of a value to a value

(* The reads of each operation, and those that need the coin's overview      *)
(* first.                                                                    *)
CryptoParts ==
    [search     |-> {"search"},
     global     |-> {"global"},
     trending   |-> {"trending"},
     markets    |-> {"markets"},
     overview   |-> {},
     history    |-> {"history"},
     technicals |-> {"history"},
     trend      |-> {"history"},
     anomalies  |-> {"history"},
     risk       |-> {"history"},
     research   |-> {"history"}]

OfOneCoin == {"overview", "history", "technicals", "trend", "anomalies", "risk", "research"}
CryptoCaptures == {"risk", "research"}

-----------------------------------------------------------------------------
(* Adapters                                                                  *)

(* A search never resolves a symbol that several coins share.                *)
NormalizeSearch(w) ==
    LET coins  == SubSeq(w.coins, 1, Least(Len(w.coins), 100))
        Exact(field) == {coins[i].id : i \in {j \in DOMAIN coins : coins[j][field] = w.query}}
    IN  Normalized([coins     |-> coins,
                    ids       |-> Exact("id"),
                    symbols   |-> Exact("symbol"),
                    ambiguous |-> Cardinality({i \in DOMAIN coins :
                                                 coins[i].symbol = w.query}) > 1], None)

MarketOk(c) ==
    /\ c.price = None \/ c.price > 0
    /\ c.cap = None \/ c.cap >= 0
    /\ c.volume = None \/ c.volume >= 0
    /\ {c.low, c.high} \cap {None} = {} => c.low <= c.high

(* Distance to the all-time high, never negative; unknown without both.      *)
DistanceFromAth(c) ==
    IF c.price = None \/ c.ath = None THEN None
    ELSE IF c.ath > 0 THEN Clamp((10000 * (c.ath - c.price)) \div c.ath, 0, 10000) ELSE None

NormalizeMarkets(w) ==
    IF \A i \in DOMAIN w : MarketOk(w[i])
    THEN WithWarning(
            Normalized([i \in DOMAIN w |->
                          w[i] @@ [distance |-> DistanceFromAth(w[i])]],
                       IF w = <<>> THEN None ELSE Max({w[i].updated : i \in DOMAIN w})),
            \E i \in DOMAIN w : None \in {w[i].price, w[i].cap, w[i].volume},
            "coingecko_market_fields_missing")
    ELSE SchemaError

(* Three series of pairs become points in the order of time: of two values   *)
(* for one instant the later counts, a price that is not positive has no     *)
(* point, and a cap or a volume belongs to the price of the same instant.    *)
SeriesOf(pairs) ==
    [t \in {pairs[i][1] : i \in DOMAIN pairs} |->
        pairs[Max({i \in DOMAIN pairs : pairs[i][1] = t})][2]]

(* Fault: the three series are joined by position.                           *)
NormalizeByPosition(w) ==
    LET kept   == {i \in DOMAIN w.prices : w.prices[i][2] > 0}
        Nth(s, i) == IF i \in DOMAIN s THEN s[i][2] ELSE None
        order  == InOrder(kept, <)
        points == [k \in DOMAIN order |->
                     [time |-> w.prices[order[k]][1], price |-> w.prices[order[k]][2],
                      cap |-> Nth(w.caps, order[k]), volume |-> Nth(w.volumes, order[k])]]
    IN  IF Len(points) >= 2 THEN Normalized(points, LastOf(points).time) ELSE SchemaError

NormalizeHistory(w) ==
    LET prices  == SeriesOf(w.prices)
        caps    == SeriesOf(w.caps)
        volumes == SeriesOf(w.volumes)
        At(s, t) == IF t \in DOMAIN s THEN s[t] ELSE None
        times   == InOrder({t \in DOMAIN prices : prices[t] > 0}, <)
        points  == [i \in DOMAIN times |->
                      [time |-> times[i], price |-> prices[times[i]],
                       cap |-> At(caps, times[i]), volume |-> At(volumes, times[i])]]
    IN  IF /\ Len(points) >= 2
           /\ \A i \in DOMAIN points :
                 \A v \in {points[i].cap, points[i].volume} : v = None \/ v >= 0
        THEN WithWarning(Normalized(points, LastOf(points).time),
                         \E i \in DOMAIN points : None \in {points[i].cap, points[i].volume},
                         "coingecko_history_series_misaligned")
        ELSE SchemaError

CryptoNormalize(component, w) ==
    IF w = Malformed THEN SchemaError ELSE
    CASE component = "search"                  -> NormalizeSearch(w)
      [] component \in {"overview", "markets"} -> NormalizeMarkets(w)
      [] component = "history"                 -> NormalizeHistory(w)
      [] component = "global"                  -> Normalized(w, w.updated)
      [] component = "trending" -> Normalized(SubSeq(w, 1, Least(Len(w), 30)), None)

(* An overview without the coin answers that it does not exist.              *)
CoinFound(overview) == overview # <<>> /\ overview[1].id = Asset

-----------------------------------------------------------------------------
(* Technicals                                                                *)

TechnicalsWith(prices, bullish, bearish, distance) ==
    [trend      |-> CASE bullish >= 3 /\ bullish > bearish -> "bullish"
                      [] bearish >= 3 /\ bearish > bullish -> "bearish"
                      [] OTHER                             -> "neutral",
     volatility |-> Volatility(prices),
     drawdown   |-> Drawdown(prices),
     confidence |-> Least(10000, 2500 + 1375 * Magnitude(bullish - bearish) + 4 * distance)]

(* Four pieces of evidence for each side; without fifty points the long      *)
(* average counts for both.                                                  *)
Judged(prices, latest, sum20, long, hist, rsi) ==
    LET Holds(facts) == Cardinality({i \in DOMAIN facts : facts[i]})
    IN  TechnicalsWith(
            prices,
            Holds(<<20 * latest > sum20, long = None \/ 5 * sum20 > 2 * long, hist > 0,
                    rsi >= 5500>>),
            Holds(<<20 * latest < sum20, long = None \/ 5 * sum20 < 2 * long, hist < 0,
                    rsi <= 4500>>),
            (10000 * Magnitude(20 * latest - sum20)) \div sum20)

TechnicalsOf(points) ==
    LET prices == [i \in DOMAIN points |-> points[i].price]
    IN  Judged(prices, LastOf(prices), SumOfSeq(LatestOf(prices, 20)),
               IF Len(prices) >= 50 THEN SumOfSeq(LatestOf(prices, 50)) ELSE None,
               Histogram(prices), Rsi(prices))

-----------------------------------------------------------------------------
(* Anomalies                                                                 *)

(* How far a value lies from those of a base, in tenths of their deviation:  *)
(* nothing if they do not deviate.                                           *)
Deviation(off, spread, n) ==
    IF spread = 0 THEN 0
    ELSE (IF off < 0 THEN -1 ELSE 1) * Root((((100 * off * off) \div spread) * (n - 1)) \div n)

DeviationFrom(base, value, sum, n) ==
    Deviation(n * value - sum,
              n * SumOfSeq([j \in DOMAIN base |-> base[j] * base[j]]) - sum * sum, n)

(* The base of each value is the up to thirty before it; under ten there is  *)
(* no score.                                                                 *)
ZScores(values) ==
    [i \in DOMAIN values |->
        LET base == SubSeq(values, IF i > 30 THEN i - 30 ELSE 1, i - 1)
        IN  IF i <= 10 THEN None ELSE DeviationFrom(base, values[i], SumOfSeq(base), Len(base))]

ReturnsOf(points) ==
    [i \in 1..(Len(points) - 1) |->
        Ratio(100 * (points[i + 1].price - points[i].price), points[i].price)]

(* Only neighbours that both report a volume compare.                        *)
VolumePoints(points) ==
    InOrder({i \in 2..Len(points) : \A j \in {i - 1, i} :
                points[j].volume # None /\ points[j].volume > 0}, <)

VolumeChanges(points) ==
    LET at == VolumePoints(points)
    IN  [k \in DOMAIN at |-> LogChange(points[at[k] - 1].volume, points[at[k]].volume)]

Outliers(kind, at, z) ==
    {[point |-> at[i], kind |-> kind, z |-> z[i]] :
        i \in {j \in DOMAIN z : z[j] # None /\ Magnitude(z[j]) >= 30}}

Events(points) ==
    Outliers("return", [i \in DOMAIN points |-> i + 1], ZScores(ReturnsOf(points)))
      \cup Outliers("volume", VolumePoints(points), ZScores(VolumeChanges(points)))

AnomalyScore(recent) ==
    Clamp(200 * Max({0} \cup {Magnitude(e.z) : e \in recent}) + 500 * Cardinality(recent),
          0, 10000)

AnomalyReport(events, score) ==
    [events |-> events,
     score  |-> score,
     status |-> IF score >= 7500 THEN "extreme"
                ELSE IF score >= 3500 THEN "elevated" ELSE "normal"]

AnomaliesOf(points) ==
    LET Recent(events) == {e \in events : e.point >= Len(points) - 9}
        Report(events) == AnomalyReport(events, AnomalyScore(Recent(events)))
    IN  Report(Events(points))

-----------------------------------------------------------------------------
(* Risk                                                                      *)

CryptoWeights ==
    [volatility |-> 30, drawdown |-> 20, liquidity |-> 15, market_size |-> 15,
     trend_instability |-> 10, anomaly |-> 10]

(* Digits of a positive number before the decimal point, less one.           *)
Log10(n) == CHOOSE d \in 0..9 : 10^d <= n /\ (d = 9 \/ n < 10^(d + 1))

KnownCap(coin) == coin.cap # None /\ coin.cap > 0

CryptoScore(n, coin, tech, anomalies) ==
    CASE n = "volatility"  -> (2 * tech.volatility) \div 3
      [] n = "drawdown"    -> (3 * tech.drawdown) \div 2
      [] n = "trend_instability" ->
            [bullish |-> 2000, neutral |-> 4500, bearish |-> 7500][tech.trend]
              + (10000 - tech.confidence) \div 5
      [] n = "anomaly"     -> anomalies.score
      [] n = "liquidity"   -> 10000 - (100000 * coin.volume) \div coin.cap
      [] n = "market_size" -> 1250 * (6 - Log10(coin.cap))

CryptoScores(coin, points) ==
    LET analysed == IF LongEnough(points)
                    THEN {"volatility", "drawdown", "trend_instability", "anomaly"} ELSE {}
        market   == (IF KnownCap(coin) THEN {"market_size"} ELSE {})
                      \cup (IF KnownCap(coin) /\ coin.volume # None THEN {"liquidity"} ELSE {})
    IN  [n \in analysed \cup market |->
            Clamp(CryptoScore(n, coin, TechnicalsOf(points), AnomaliesOf(points)), 0, 10000)]

-----------------------------------------------------------------------------
(* The service                                                               *)

CryptoAggregate(metas, missing) ==
    Aggregate(metas, missing, StatusOf(metas), DelayedFreshness(metas))

CryptoPageWith(shown, scores, meta) ==
    IF scores = <<>> THEN [kind |-> "error", code |-> "internal"]
    ELSE [kind  |-> "answer",
          shown |-> shown,
          risk  |-> WeightedRisk(scores, CryptoWeights, FreshnessConfidence(meta)),
          meta  |-> meta]

(* The page of one coin: its overview, and its history if there is one.  The *)
(* risk alone does not say that the history was too short for the analysis.  *)
CryptoPage(op, parts, missing) ==
    LET points == IF "history" \in DOMAIN parts THEN parts["history"].data ELSE <<>>
        short  == "history" \in DOMAIN parts /\ ~LongEnough(points)
    IN  CryptoPageWith(
            DOMAIN parts,
            CryptoScores(parts["overview"].data[1], points),
            CryptoAggregate({parts[c].meta : c \in DOMAIN parts},
                            missing \cup (IF short /\ op = "research"
                                          THEN {"crypto_analytics"} ELSE {})))

CryptoAnswer(op, parts, missing) ==
    LET last == IF CryptoParts[op] = {} THEN "overview" ELSE CHOOSE c \in CryptoParts[op] : TRUE
    IN  CASE op \in CryptoCaptures -> CryptoPage(op, parts, missing)
          [] op \in {"technicals", "trend", "anomalies"} /\ ~LongEnough(parts[last].data) ->
                [kind |-> "error", code |-> "invalid"]
          [] OTHER -> [kind |-> "answer", shown |-> {last}, risk |-> None,
                       meta |-> parts[last].meta]
=============================================================================
