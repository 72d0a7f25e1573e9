---------------------------- MODULE StockResearch ----------------------------
(***************************************************************************)
(* A company on an exchange: what the data models accept                   *)
(* (backend/app/providers/stocks.py), the price analytics                  *)
(* (backend/app/analytics/stocks.py) and the service, which combines a     *)
(* licensed price provider with official fundamentals, either of which a   *)
(* deployment may lack (backend/app/services/stock_service.py).            *)
(*                                                                         *)
(* A deployment d says whether a price provider is licensed, whether the   *)
(* SEC is enabled, and which manifest is loaded (None: none).              *)
(***************************************************************************)
EXTENDS Indicators

CONSTANTS Asset,          \* the company asked for
          Malformed,      \* a payload that is not of the documented form
          Volatility(_),  \* annualised volatility of a sequence of prices
          AllowedHosts    \* hosts of official reports

F == INSTANCE Fundamentals
M == INSTANCE ReportManifest

(* The reads each operation makes of the licensed provider.                  *)
StockParts ==
    [search     |-> {"search"},
     overview   |-> {"profile", "quote"},
     candles    |-> {"candles"},
     technicals |-> {"candles"},
     trend      |-> {"candles"},
     risk       |-> {"profile", "quote", "candles"},
     research   |-> {"profile", "quote", "candles"},
     financials |-> {},
     ratios     |-> {},
     reports    |-> {}]

StockCaptures == {"overview", "risk", "research"}
OfFundamentals == {"financials", "ratios", "reports"}
UsesFundamentals == OfFundamentals \cup {"risk", "research"}
SecReads == {"tickers", "submissions", "facts"}

Configured(d) == d.sec \/ d.manifest # None

(* Without the license the market has nothing to say.                        *)
Unlicensed(op, d) ==
    /\ ~d.licensed
    /\ op \notin OfFundamentals
    /\ op \in UsesFundamentals => ~Configured(d)

-----------------------------------------------------------------------------
(* Data models                                                               *)

Ordered(low, high) == {low, high} \cap {None} = {} => low <= high

QuoteOk(q) ==
    /\ q.price > 0
    /\ Ordered(q.low, q.high)
    /\ Ordered(q.low52, q.high52)
    /\ q.volume = None \/ q.volume >= 0
    /\ q.cap = None \/ q.cap >= 0

BarOk(c) ==
    /\ 0 < c.low
    /\ c.low <= c.open /\ c.open <= c.high
    /\ c.low <= c.close /\ c.close <= c.high

BarsOk(bars) ==
    /\ \A i \in DOMAIN bars : BarOk(bars[i])
    /\ \A i \in 2..Len(bars) : bars[i - 1].time < bars[i].time

StockNormalize(component, w) ==
    IF w = Malformed THEN SchemaError ELSE
    CASE component \in SecReads  -> F!SecNormalize(component, w)
      [] component = "search"    -> Normalized(w, None)
      [] component = "profile"   -> Normalized(w, None)
      [] component = "quote"     -> IF QuoteOk(w) THEN Normalized(w, w.time) ELSE SchemaError
      [] component = "candles"   -> IF BarsOk(w.bars)
                                    THEN Normalized(w, IF w.bars = <<>> THEN None
                                                       ELSE LastOf(w.bars).time)
                                    ELSE SchemaError

-----------------------------------------------------------------------------
(* Price analytics                                                           *)

StockTechnicalsWith(closes, rules, score) ==
    [trend      |-> CASE score >= 2  -> "bullish"
                      [] score <= -2 -> "bearish"
                      [] OTHER       -> "neutral",
     volatility |-> Volatility(closes),
     drawdown   |-> Drawdown(closes),
     confidence |-> Least(10000, (10000 * Magnitude(score)) \div rules)]

RsiRule(rsi) == CASE rsi > 6000 -> 1 [] rsi < 4000 -> -1 [] OTHER -> 0

(* Each rule counts one way or the other; an average the history is too      *)
(* short for has no rule.                                                    *)
StockTechnicals(bars) ==
    LET closes   == [i \in DOMAIN bars |-> bars[i].close]
        Above(n) == IF n * LastOf(closes) > SumOfSeq(LatestOf(closes, n)) THEN 1 ELSE -1
        averages == {n \in {20, 50, 200} : n <= Len(closes)}
    IN  StockTechnicalsWith(
            closes, 2 + Cardinality(averages),
            Total(averages, Above) + (IF Histogram(closes) > 0 THEN 1 ELSE -1)
              + RsiRule(Rsi(closes)))

StockWeights ==
    [volatility |-> 35, drawdown |-> 25, trend_instability |-> 20, liquidity |-> 20]

(* The scores there are: of the price history, and of the turnover when the  *)
(* quote has both a volume and a market capitalisation.                      *)
StockScores(quote, tech) ==
    LET base     == [bullish |-> 2000, neutral |-> 5000, bearish |-> 8000]
        analysed == IF tech = None THEN {} ELSE {"volatility", "drawdown", "trend_instability"}
        traded   == IF quote = None \/ quote.volume = None \/ quote.cap \in {None, 0}
                    THEN {} ELSE {"liquidity"}
        Score(n) == CASE n = "volatility"        -> 2 * tech.volatility
                      [] n = "drawdown"          -> 2 * tech.drawdown
                      [] n = "trend_instability" ->
                            base[tech.trend] + (15 * (10000 - tech.confidence)) \div 100
                      [] n = "liquidity" ->
                            10000 - (200000 * quote.volume * quote.price) \div quote.cap
    IN  [n \in analysed \cup traded |-> Clamp(Score(n), 0, 10000)]

-----------------------------------------------------------------------------
(* Fundamentals: the manifest first, then the SEC for its exchanges          *)

Published(d, exchange) ==
    IF d.manifest = None THEN {} ELSE M!Published(d.manifest, exchange)

AsksSec(op, d, exchange) ==
    /\ op \in UsesFundamentals
    /\ d.sec
    /\ exchange \in {"NASDAQ", "NYSE"}
    /\ Published(d, exchange) = {}

(* The filings are read only of a company the ticker map has.                *)
Listed(parts) == "tickers" \in DOMAIN parts /\ Asset \in parts["tickers"].data

FundamentalsOf(op, d, exchange, parts) ==
    CASE Published(d, exchange) # {} ->
            M!ManifestFundamentals(CHOOSE e \in Published(d, exchange) : TRUE)
      [] /\ AsksSec(op, d, exchange)
         /\ SecReads \subseteq DOMAIN parts /\ Listed(parts) ->
            F!SecFundamentals(parts["tickers"], parts["submissions"], parts["facts"])
      [] OTHER -> [kind |-> "missing"]

ViewWith(f, ordered) ==
    [model   |-> f.model,
     periods |-> f.periods,
     ratios  |-> [i \in DOMAIN ordered |-> F!RatiosOf(ordered, i, f.model)],
     risk    |-> F!FundamentalRisk(f.periods, ordered, f.warnings, f.model)]
View(f) == ViewWith(f, F!Chronological(f.periods))

-----------------------------------------------------------------------------
(* The service                                                               *)

UnavailableMeta ==
    [source |-> None, fetched |-> Now, status |-> BYPASS, freshness |-> "unavailable",
     staleness |-> 0, partial |-> TRUE, warnings |-> {"stock_market_data_unavailable"}]

Refused(code) == [kind |-> "error", code |-> code]
Answered(shown, risk, meta) ==
    [kind |-> "answer", shown |-> shown, risk |-> risk, meta |-> meta,
     fundamentals |-> None, modes |-> {}]

StockAggregate(metas, missing) ==
    Aggregate(metas, missing, StatusOf(metas), DelayedFreshness(metas))

(* Fault: the same symbol is enough.                                         *)
SameSymbol(exchange, data) == data.symbol = Asset

(* Data of another company or exchange are refused.                          *)
SameIdentity(exchange, data) == data.symbol = Asset /\ data.exchange = exchange
Mistaken(exchange, parts) ==
    \E c \in DOMAIN parts \cap {"profile", "quote", "candles"} :
        ~SameIdentity(exchange, parts[c].data)

ModesOf(parts, f) ==
    (IF f.kind = "snapshot" THEN {"official_reports"} ELSE {}) \cup
    (LET prices == DOMAIN parts \cap {"quote", "candles"}
     IN  IF prices = {} THEN {}
         ELSE IF \E c \in prices : parts[c].data.offline THEN {"offline_demo"}
         ELSE {"licensed_provider"})

(* The page of a company: whatever there is of prices, with what they were   *)
(* analysed to, and of fundamentals f.                                       *)
StockPageWith(op, exchange, parts, absent, tech, f) ==
    LET prices  == DOMAIN parts \cap StockParts[op]
        quote   == IF "quote" \in prices THEN parts["quote"].data ELSE None
        rated   == quote # None \/ tech # None
        scores  == StockScores(quote, tech)
        stale   == \E c \in prices : parts[c].meta.freshness = "stale"
        missing == absent \cup (IF "candles" \in prices /\ tech = None THEN {"technicals"} ELSE {})
                          \cup (IF f.kind = "missing" THEN {"fundamentals"} ELSE {})
        metas   == {parts[c].meta : c \in prices}
                     \cup (IF f.kind = "snapshot" THEN {f.meta} ELSE {})
    IN  IF f.kind = "raised" THEN Refused("internal")
        ELSE IF Mistaken(exchange, parts) THEN Refused("schema")
        ELSE IF rated /\ scores = <<>> THEN Refused("internal")
        ELSE IF metas = {} THEN Answered({}, None, UnavailableMeta)
        ELSE [kind  |-> "answer",
              shown |-> prices \cup (IF f.kind = "snapshot" THEN {"fundamentals"} ELSE {}),
              risk  |-> IF rated THEN WeightedRisk(scores, StockWeights,
                                                   IF stale THEN 6000 ELSE 10000)
                        ELSE None,
              meta  |-> StockAggregate(metas, missing),
              fundamentals |-> IF f.kind = "snapshot" /\ op = "research" THEN View(f) ELSE None,
              modes |-> ModesOf(parts, f)]

StockPage(op, d, exchange, parts, lost) ==
    LET bars == IF "candles" \in DOMAIN parts THEN parts["candles"].data.bars ELSE <<>>
    IN  StockPageWith(op, exchange, parts,
                      IF d.licensed THEN lost \cap StockParts[op] ELSE StockParts[op],
                      IF LongEnough(bars) THEN StockTechnicals(bars) ELSE None,
                      FundamentalsOf(op, d, exchange, parts))

FundamentalsAnswer(f) ==
    CASE f.kind = "missing"  -> Refused("not_found")
      [] f.kind = "raised"   -> Refused("internal")
      [] f.kind = "snapshot" ->
            [Answered({"fundamentals"}, None, StockAggregate({f.meta}, {}))
                EXCEPT !.fundamentals = View(f)]

(* One read of the market, or profile and quote together.                    *)
MarketAnswer(op, exchange, parts, lost) ==
    IF parts = <<>> THEN Refused("unavailable")
    ELSE IF \/ Mistaken(exchange, parts)
            \/ op = "search" /\ \E r \in parts["search"].data : r.exchange # exchange
         THEN Refused("schema")
    ELSE IF op \in {"technicals", "trend"} /\ ~LongEnough(parts["candles"].data.bars)
         THEN Refused("invalid")
    ELSE Answered(DOMAIN parts, None,
                  StockAggregate({parts[c].meta : c \in DOMAIN parts}, lost))

StockAnswer(op, d, exchange, parts, lost) ==
    IF Unlicensed(op, d) THEN Answered({}, None, UnavailableMeta)
    ELSE CASE op \in OfFundamentals       -> FundamentalsAnswer(FundamentalsOf(op, d, exchange, parts))
           [] op \in {"risk", "research"} -> StockPage(op, d, exchange, parts, lost)
           [] OTHER                       -> MarketAnswer(op, exchange, parts, lost)
=============================================================================
