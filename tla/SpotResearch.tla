---------------------------- MODULE SpotResearch ----------------------------
(***************************************************************************)
(* A Binance Spot pair: what the adapters accept                           *)
(* (backend/app/providers/binance_spot.py), the analytics                  *)
(* (backend/app/analytics/binance_spot.py) and how the service combines    *)
(* the reads of a request (backend/app/services/binance_spot_service.py).  *)
(* Prices, quantities and times are integers.  A wire payload is a record  *)
(* of the fields the adapters look at; one whose fields have the wrong     *)
(* type or are missing is Malformed.                                       *)
(***************************************************************************)
EXTENDS Indicators

CONSTANTS Asset,          \* the pair asked for
          Malformed,      \* a payload that is not of the documented form
          Notional,       \* slippage_notional_quote of the request
          Volatility(_)   \* annualised volatility of a sequence of prices

(* The reads of each operation, after that of the symbols.                   *)
SpotParts ==
    [symbols    |-> {"symbols"},
     ticker     |-> {"ticker"},
     candles    |-> {"candles"},
     order_book |-> {"order_book"},
     trades     |-> {"trades"},
     technicals |-> {"candles"},
     risk       |-> {"candles", "order_book", "trades"},
     research   |-> {"ticker", "candles", "order_book", "trades"}]

(* Only these two survive the failure of a read.                             *)
SpotCaptures == {"risk", "research"}

-----------------------------------------------------------------------------
(* Adapters                                                                  *)

(* The pairs that trade; a request for any other is refused.                 *)
NormalizeSymbols(w) ==
    LET tradable == {e.symbol : e \in {x \in w.symbols : x.status = "TRADING" /\ x.allowed}}
    IN  IF tradable = {} THEN SchemaError ELSE Normalized(tradable, w.server_time)

InRange(low, price, high) == 0 < low /\ low <= price /\ price <= high

NormalizeTicker(w) ==
    IF /\ InRange(w.low, w.last, w.high)
       /\ w.open_time <= w.close_time
       /\ w.symbol = Asset
    THEN Normalized(w, w.close_time)
    ELSE SchemaError

CandleOk(c) ==
    /\ c.open_time <= c.close_time
    /\ InRange(c.low, c.open, c.high)
    /\ InRange(c.low, c.close, c.high)

NormalizeCandles(w) ==
    IF w # <<>> /\ \A i \in DOMAIN w : CandleOk(w[i])
    THEN Normalized(w, LastOf(w).close_time)
    ELSE SchemaError

(* Levels without a quantity are dropped, the others sorted best first, those *)
(* of one price as they came: otherwise the order in which the provider sends *)
(* them does not matter.  A book has no timestamp of its own but that of its *)
(* fetch, however long it is then cached.                                    *)
OfferedIn(levels) == {i \in DOMAIN levels : levels[i].quantity > 0}
LevelsOf(levels, better(_, _)) ==
    LET order == InOrder(OfferedIn(levels),
                         LAMBDA i, j : \/ better(levels[i], levels[j])
                                       \/ ~better(levels[j], levels[i]) /\ i < j)
    IN  [k \in DOMAIN order |-> levels[order[k]]]

(* Fault: the order of the provider is trusted.                              *)
NormalizeBookAsSent(w) ==
    LET Offered(levels) == SelectSeq(levels, LAMBDA l : l.quantity > 0)
    IN  IF Offered(w.bids)[1].price < Offered(w.asks)[1].price
        THEN NormalizedAtFetch([bids |-> Offered(w.bids), asks |-> Offered(w.asks)])
        ELSE SchemaError

NormalizeBook(w) ==
    LET bids == LevelsOf(w.bids, LAMBDA a, b : a.price > b.price)
        asks == LevelsOf(w.asks, LAMBDA a, b : a.price < b.price)
    IN  IF /\ bids # <<>> /\ asks # <<>>
           /\ \A i \in DOMAIN bids : bids[i].price > 0
           /\ \A i \in DOMAIN asks : asks[i].price > 0
           /\ bids[1].price < asks[1].price
        THEN NormalizedAtFetch([bids |-> bids, asks |-> asks])
        ELSE SchemaError

NormalizeTrades(w) ==
    IF w # <<>> /\ \A i \in DOMAIN w : w[i].quote > 0
    THEN Normalized(w, Max({w[i].time : i \in DOMAIN w}))
    ELSE SchemaError

SpotNormalize(component, w) ==
    IF w = Malformed THEN SchemaError ELSE
    CASE component = "symbols"     -> NormalizeSymbols(w)
      [] component = "ticker"      -> NormalizeTicker(w)
      [] component = "candles"     -> NormalizeCandles(w)
      [] component = "order_book"  -> NormalizeBook(w)
      [] component = "trades"      -> NormalizeTrades(w)

-----------------------------------------------------------------------------
(* Technicals                                                                *)

TechnicalsOf(candles) ==
    LET closes     == [i \in DOMAIN candles |-> candles[i].close]
        sum20      == SumOfSeq(LatestOf(closes, 20))
        latest     == LastOf(closes)
        rsi        == Rsi(closes)
        distance   == (10000 * Magnitude(20 * latest - sum20)) \div sum20
        conviction == 2 * Magnitude(rsi - 5000)
    IN  [trend      |-> CASE 20 * latest > sum20 /\ rsi >= 5500 -> "bullish"
                          [] 20 * latest < sum20 /\ rsi <= 4500 -> "bearish"
                          [] OTHER                              -> "neutral",
         rsi        |-> rsi,
         volatility |-> Volatility(closes),
         confidence |-> Least(10000, 2500 + 8 * distance + conviction \div 2)]

-----------------------------------------------------------------------------
(* Order book                                                                *)

(* Base quantities are counted in units of 1/Fine, so that the prices of the *)
(* bounded instances divide them.                                            *)
Fine == 60

Cost(level) == level.price * level.quantity
DepthOf(levels) == SumOfSeq([i \in DOMAIN levels |-> Cost(levels[i])])

(* Spend the notional on the asks from the best one on.                      *)
BuyFill(asks) ==
    FoldLeft(LAMBDA fill, l :
                 LET spend == Least(fill.remaining, Cost(l))
                 IN  [remaining |-> fill.remaining - spend,
                      base      |-> fill.base + (spend * Fine) \div l.price],
             [remaining |-> Notional, base |-> 0], asks)

BuySlippage(asks) ==
    LET fill == BuyFill(asks)
        ideal == fill.base * asks[1].price
    IN  IF fill.remaining > 0 THEN None
        ELSE Clamp((10000 * (Notional * Fine - ideal)) \div ideal, 0, 10000)

(* Sell what the notional is worth at the best bid.                          *)
SellTarget(bids) == (Notional * Fine) \div bids[1].price

SellFill(bids) ==
    FoldLeft(LAMBDA fill, l :
                 LET sold == Least(fill.remaining, l.quantity * Fine)
                 IN  [remaining |-> fill.remaining - sold,
                      quote     |-> fill.quote + sold * l.price],
             [remaining |-> SellTarget(bids), quote |-> 0], bids)

SellSlippage(bids) ==
    LET fill  == SellFill(bids)
        ideal == SellTarget(bids) * bids[1].price
    IN  IF fill.remaining > 0 THEN None
        ELSE Clamp((10000 * (ideal - fill.quote)) \div ideal, 0, 10000)

PressureOf(for, against) ==
    CASE 10 * (for - against) >= for + against -> "buy"
      [] 10 * (against - for) >= for + against -> "sell"
      [] OTHER                                 -> "balanced"

BookAnalysis(book) ==
    LET bid == book.bids[1].price
        ask == book.asks[1].price
    IN  [spread   |-> (20000 * (ask - bid)) \div (ask + bid),
         pressure |-> PressureOf(DepthOf(book.bids), DepthOf(book.asks)),
         buy      |-> BuySlippage(book.asks),
         sell     |-> SellSlippage(book.bids)]

-----------------------------------------------------------------------------
(* Trades                                                                    *)

(* Twice the median of the quote sizes.                                      *)
TwiceMedian(sizes) ==
    LET s == SortSeq(sizes, <)
    IN  s[(Len(s) + 1) \div 2] + s[(Len(s) + 2) \div 2]

TradesOf(trades) ==
    LET sizes == [i \in DOMAIN trades |-> trades[i].quote]
        buys  == Total({i \in DOMAIN trades : ~trades[i].maker}, LAMBDA i : sizes[i])
        sells == Total({i \in DOMAIN trades : trades[i].maker}, LAMBDA i : sizes[i])
        large == {i \in DOMAIN trades : 2 * sizes[i] >= 5 * TwiceMedian(sizes)}
    IN  [pressure  |-> PressureOf(buys, sells),
         imbalance |-> (10000 * Magnitude(buys - sells)) \div (buys + sells),
         large     |-> large,
         share     |-> (10000 * Cardinality(large)) \div Len(trades)]

-----------------------------------------------------------------------------
(* Risk                                                                      *)

SpotWeights ==
    [volatility |-> 35, liquidity |-> 35, trade_anomaly |-> 20, trend_instability |-> 10]

VolatilityScore(t) == Clamp(t.volatility \div 2, 0, 10000)
InstabilityScore(t) ==
    Clamp(((10000 - t.confidence) * 7) \div 10 + (Magnitude(t.rsi - 5000) * 6) \div 10,
          0, 10000)

(* A side without enough depth has no slippage: the other side's counts, or  *)
(* 25 basis points, and a penalty on top.                                    *)
LiquidityScore(b) ==
    LET known == {b.buy, b.sell} \ {None}
        slip  == IF known = {} THEN 25
                 ELSE IF None \in {b.buy, b.sell} THEN Max(known)
                 ELSE (b.buy + b.sell) \div 2
    IN  Clamp(300 * b.spread + 200 * slip + (IF None \in {b.buy, b.sell} THEN 2000 ELSE 0),
              0, 10000)

AnomalyScore(t) == Clamp((3 * t.share) \div 2 + t.imbalance \div 4, 0, 10000)

SpotScore(n, parts, tech) ==
    CASE n = "volatility"        -> VolatilityScore(tech)
      [] n = "trend_instability" -> InstabilityScore(tech)
      [] n = "liquidity"         -> LiquidityScore(BookAnalysis(parts["order_book"].data))
      [] n = "trade_anomaly"     -> AnomalyScore(TradesOf(parts["trades"].data))

SpotRisk(parts, freshness) ==
    LET scored == {n \in DOMAIN SpotWeights :
                     CASE n = "liquidity"     -> "order_book" \in DOMAIN parts
                       [] n = "trade_anomaly" -> "trades" \in DOMAIN parts
                       [] OTHER               -> "candles" \in DOMAIN parts}
    IN  WeightedRisk([n \in scored |->
                        SpotScore(n, parts, TechnicalsOf(parts["candles"].data))],
                     SpotWeights, freshness)

-----------------------------------------------------------------------------
(* The service                                                               *)

SpotFreshness(metas) ==
    CASE StatusOf(metas) = STALE          -> "stale"
      [] StatusOf(metas) \in {BYPASS, MISS} -> "live"
      [] OTHER                            -> "cached"

SpotAggregate(metas, missing) ==
    Aggregate(metas, missing, StatusOf(metas), SpotFreshness(metas))

(* analyze_technicals raises ValueError on a short history, which neither    *)
(* the service nor the route handles.                                        *)
TooShort(op, parts) ==
    /\ op \in {"technicals", "risk", "research"}
    /\ "candles" \in DOMAIN parts
    /\ ~LongEnough(parts["candles"].data)

SpotPage(parts, meta) ==
    [kind  |-> "answer",
     shown |-> DOMAIN parts,
     risk  |-> IF DOMAIN parts \cap {"candles", "order_book", "trades"} = {} THEN None
               ELSE SpotRisk(parts, FreshnessConfidence(meta)),
     meta  |-> meta]

(* What a request answers once its reads are in: parts has the ones that     *)
(* answered, missing names the others.                                       *)
SpotAnswer(op, parts, missing) ==
    LET metas == {parts[c].meta : c \in DOMAIN parts}
    IN  IF TooShort(op, parts) THEN [kind |-> "error", code |-> "internal"]
        ELSE IF parts = <<>> THEN [kind |-> "error", code |-> "unavailable"]
        ELSE IF op \in SpotCaptures THEN SpotPage(parts, SpotAggregate(metas, missing))
        ELSE [kind |-> "answer", shown |-> DOMAIN parts, risk |-> None,
              meta |-> CHOOSE m \in metas : TRUE]
=============================================================================
