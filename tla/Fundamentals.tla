----------------------------- MODULE Fundamentals -----------------------------
(***************************************************************************)
(* Official fundamentals of a company: the SEC adapters and the periods    *)
(* built from XBRL facts (backend/app/providers/sec.py), the reviewed      *)
(* manifest (backend/app/providers/stock_fundamentals.py), the ratios and  *)
(* the risk (backend/app/analytics/stock_fundamentals.py).                 *)
(*                                                                         *)
(* Dates are days, years have 365 of them.  Ratios are in ten-thousandths, *)
(* percentages and scores in hundredths.                                   *)
(***************************************************************************)
EXTENDS ResearchMeta, SequencesExt

CONSTANTS Asset,      \* the company asked for
          Malformed   \* a payload that is not of the documented form

YearOf(day) == day \div 365

Instant == {"assets", "current_assets", "liabilities", "current_liabilities", "equity",
            "debt", "cash"}
Anchor  == {"revenue", "operating_profit", "net_income"}

-----------------------------------------------------------------------------
(* SEC adapters                                                              *)

(* Entries of the ticker map that are not of the documented types are        *)
(* skipped.                                                                  *)
NormalizeTickers(w) ==
    LET companies == {w[i].ticker : i \in {j \in DOMAIN w : w[j].typed}}
    IN  IF companies = {} THEN SchemaError ELSE Normalized(companies, None)

(* The first hundred supported filings; having none is only a warning here.  *)
NormalizeSubmissions(w) ==
    LET supported == SelectSeq(w, LAMBDA f : f.typed /\ f.form \in {"10-K", "10-Q", "8-K"})
        reports   == SubSeq(supported, 1, Least(Len(supported), 100))
    IN  WithWarning(
            Normalized(reports, IF reports = <<>> THEN None
                                ELSE Max({reports[i].filed : i \in DOMAIN reports})),
            reports = <<>>, "sec_recent_filings_missing")

(* A fact must end within a year of the fiscal year it is filed under.       *)
NearItsYear(f) == Magnitude(YearOf(f.end) - f.year) <= 1

NormalizeFacts(w) ==
    LET facts == {f \in w : f.form \in {"10-K", "10-Q"} /\ (f.year # None => NearItsYear(f))}
    IN  IF facts = {} THEN SchemaError
        ELSE Normalized(facts, Max({f.filed : f \in facts}))

SecNormalize(component, w) ==
    IF w = Malformed THEN SchemaError ELSE
    CASE component = "tickers"     -> NormalizeTickers(w)
      [] component = "submissions" -> NormalizeSubmissions(w)
      [] component = "facts"       -> NormalizeFacts(w)

-----------------------------------------------------------------------------
(* Periods from facts                                                        *)

Usable(f) ==
    /\ f.year # None
    /\ f.period \in {"FY", "Q1", "Q2", "Q3", "Q4"}
    /\ NearItsYear(f)
    /\ f.period = "FY" => f.form = "10-K"
    /\ f.period \in {"Q1", "Q2", "Q3"} => f.form = "10-Q"

FilingKey(f) == <<f.end, f.year, f.period, f.accession>>
PeriodKey(f) == <<f.end, f.year, f.period>>
Days(f) == f.end - f.start + 1

(* The start of the duration a filing reports: the longest of about a year   *)
(* for an annual period, else the shortest of about a quarter; facts that    *)
(* anchor a period come first.                                               *)
DurationStart(facts, period) ==
    LET durations  == {f \in facts : f.start # None /\ f.name \notin Instant}
        anchors    == {f \in durations : f.name \in Anchor}
        candidates == IF anchors # {} THEN anchors ELSE durations
        usual      == {f \in candidates :
                         Days(f) \in (IF period = "FY" THEN 250..430 ELSE 50..130)}
        starts     == {f.start : f \in IF usual # {} THEN usual ELSE candidates}
    IN  IF starts = {} THEN None
        ELSE IF period = "FY" THEN Min(starts) ELSE Max(starts)

(* Of several facts for one value the latest filed counts, an amendment      *)
(* before the original, the preferred concept before its aliases.            *)
Supersedes(f, g) ==
    \/ f.filed > g.filed
    \/ f.filed = g.filed /\ f.amended /\ ~g.amended
    \/ f.filed = g.filed /\ f.amended = g.amended /\ f.priority < g.priority
BestFact(facts) == CHOOSE f \in facts : \A g \in facts : ~Supersedes(g, f)

(* The values of one filing for one period, all of one duration.             *)
Coherent(facts, period) ==
    LET start  == DurationStart(facts, period)
        kept   == {f \in facts : f.name \in Instant \/ f.start = start}
    IN  [name \in {f.name : f \in kept} |-> BestFact({f \in kept : f.name = name})]

FactsOf(values) == {values[n] : n \in DOMAIN values}

(* Fault: the fullest filing wins.                                           *)
OutranksByFacts(v, w) == Cardinality(DOMAIN v) > Cardinality(DOMAIN w)

(* Of several filings for one period: one with an anchor, the latest, an     *)
(* amendment, the one with the most values.                                  *)
Outranks(v, w) ==
    LET anchored(x) == DOMAIN x \cap Anchor # {}
        filed(x)    == Max({f.filed : f \in FactsOf(x)})
        amended(x)  == \E f \in FactsOf(x) : f.amended
    IN  \/ anchored(v) /\ ~anchored(w)
        \/ /\ anchored(v) = anchored(w)
           /\ \/ filed(v) > filed(w)
              \/ filed(v) = filed(w) /\ amended(v) /\ ~amended(w)
              \/ /\ filed(v) = filed(w) /\ amended(v) = amended(w)
                 /\ Cardinality(DOMAIN v) > Cardinality(DOMAIN w)

FilingsOf(facts, key) ==
    {Coherent({f \in facts : FilingKey(f) = k}, key[3]) :
        k \in {FilingKey(f) : f \in {g \in facts : PeriodKey(g) = key}}} \ {<<>>}

PeriodOf(facts, key) ==
    LET filings == FilingsOf(facts, key)
    IN  [end |-> key[1], year |-> key[2], period |-> key[3],
         facts |-> CHOOSE v \in filings : \A w \in filings : ~Outranks(w, v)]

Rank == [FY |-> 0, Q1 |-> 1, Q2 |-> 2, Q3 |-> 3, Q4 |-> 4]

PeriodsOf(all) ==
    LET facts   == {f \in all : Usable(f)}
        keys    == {PeriodKey(f) : f \in facts}
        periods == {PeriodOf(facts, k) : k \in {j \in keys : FilingsOf(facts, j) # {}}}
        shown   == {p \in periods : DOMAIN p.facts \cap {"revenue", "net_income", "assets"} # {}}
        Before(p, q) == \/ p.end < q.end
                        \/ p.end = q.end /\ p.year < q.year
                        \/ p.end = q.end /\ p.year = q.year /\ Rank[p.period] < Rank[q.period]
        ordered == InOrder(shown, Before)
    IN  LatestOf(ordered, Least(Len(ordered), 20))

-----------------------------------------------------------------------------
(* The snapshot                                                              *)

NeverNegative == {"assets", "current_assets", "liabilities", "current_liabilities", "debt",
                  "cash"}

(* What the snapshot's validation demands; a violation raises ValueError.    *)
SnapshotOk(reports, periods) ==
    /\ reports # <<>>
    /\ \A i, j \in DOMAIN reports : i # j => reports[i].accession # reports[j].accession
    /\ \A i, j \in DOMAIN periods :
          i # j => <<periods[i].year, periods[i].period>> # <<periods[j].year, periods[j].period>>
    /\ \A i \in DOMAIN periods : \A n \in DOMAIN periods[i].facts \cap NeverNegative :
          periods[i].facts[n].value >= 0

ValuesOf(p) == [year |-> p.year, period |-> p.period, end |-> p.end,
                values |-> [n \in DOMAIN p.facts |-> p.facts[n].value]]

SecFreshness(metas) ==
    CASE StatusOf(metas) = STALE -> "stale"
      [] StatusOf(metas) = HIT   -> "cached"
      [] OTHER                   -> "delayed"

(* Three reads make one response.  It is as old as its newest source, and    *)
(* partial when the filings or the facts came with a warning.                *)
SecMeta(tickers, submissions, facts) ==
    LET metas  == {tickers, submissions, facts}
        stamps == {m.source : m \in metas} \ {None}
    IN  [component |-> "fundamentals",
         status    |-> StatusOf(metas),
         freshness |-> SecFreshness(metas),
         source    |-> IF stamps = {} THEN None ELSE Max(stamps),
         fetched   |-> Max({m.fetched : m \in metas}),
         staleness |-> Max({m.staleness : m \in metas}),
         partial   |-> submissions.warnings \cup facts.warnings # {},
         warnings  |-> UNION {m.warnings : m \in metas}]

SnapshotOf(periods, tickers, submissions, facts) ==
    IF periods = <<>> THEN [kind |-> "missing"]
    ELSE IF ~SnapshotOk(submissions.data, periods) THEN [kind |-> "raised"]
    ELSE [kind     |-> "snapshot",
          model    |-> "corporate",
          periods  |-> [i \in DOMAIN periods |-> ValuesOf(periods[i])],
          warnings |-> Cardinality(submissions.meta.warnings)
                         + Cardinality(facts.meta.warnings),
          meta     |-> SecMeta(tickers.meta, submissions.meta, facts.meta)]

(* The result of SecFundamentalsProvider.fundamentals once its reads are in. *)
SecFundamentals(tickers, submissions, facts) ==
    SnapshotOf(PeriodsOf(facts.data), tickers, submissions, facts)

-----------------------------------------------------------------------------
(* Ratios: a value that was not reported stays unknown                       *)

(* Fault: what was not reported is zero.                                     *)
ValueOrZero(p, n) == IF n \in DOMAIN p.values THEN p.values[n] ELSE 0

Value(p, n) == IF n \in DOMAIN p.values THEN p.values[n] ELSE None

PercentOf(a, b) == IF None \in {a, b} \/ b = 0 THEN None
                   ELSE IF b < 0 THEN Ratio(-10000 * a, -b) ELSE Ratio(10000 * a, b)
PositiveRatio(a, b) == IF b = None THEN None ELSE IF b > 0 THEN PercentOf(a, b) ELSE None
Growth(now, before) == IF None \in {now, before} THEN None
                       ELSE PercentOf(now - before, Magnitude(before))
AveragePercent(a, now, before) ==
    IF None \in {a, now, before} THEN None
    ELSE IF now > 0 /\ before > 0 THEN PercentOf(2 * a, now + before) ELSE None

Chronological(periods) == SortSeq(periods, LAMBDA p, q : p.end < q.end)

(* The last earlier period of the same kind: years compare with years, first *)
(* quarters with first quarters.                                             *)
PreviousOf(ordered, i) ==
    LET like == {j \in 1..(i - 1) : ordered[j].period = ordered[i].period}
    IN  IF like = {} THEN [period |-> ordered[i].period, end |-> None, values |-> <<>>]
        ELSE ordered[Max(like)]

RatiosBetween(q, p, model) ==
    LET bank == model = "bank"
        gross == IF Value(p, "gross_profit") # None THEN Value(p, "gross_profit")
                 ELSE IF None \in {Value(p, "revenue"), Value(p, "cost_of_revenue")} THEN None
                 ELSE Value(p, "revenue") - Value(p, "cost_of_revenue")
        Corporate(ratio) == IF bank THEN None ELSE ratio
        Bank(ratio) == IF bank THEN ratio ELSE None
        GrowthOf(n) == Growth(Value(p, n), Value(q, n))
        Margin(a) == Corporate(PercentOf(a, Value(p, "revenue")))
    IN  [compared         |-> q.end,
         revenue_growth   |-> Corporate(GrowthOf("revenue")),
         income_growth    |-> GrowthOf("net_income"),
         gross_margin     |-> Margin(gross),
         operating_margin |-> Margin(Value(p, "operating_profit")),
         net_margin       |-> Margin(Value(p, "net_income")),
         cash_margin      |-> Margin(Value(p, "operating_cash_flow")),
         return_on_assets |-> AveragePercent(Value(p, "net_income"), Value(p, "assets"),
                                             Value(q, "assets")),
         return_on_equity |-> AveragePercent(Value(p, "net_income"), Value(p, "equity"),
                                             Value(q, "equity")),
         current_ratio    |-> Corporate(PositiveRatio(Value(p, "current_assets"),
                                                      Value(p, "current_liabilities"))),
         debt_to_equity   |-> Corporate(PositiveRatio(Value(p, "debt"), Value(p, "equity"))),
         total_income_growth |-> Bank(GrowthOf("total_income")),
         deposit_growth      |-> Bank(GrowthOf("deposits")),
         financing_growth    |-> Bank(GrowthOf("financing_and_advances")),
         equity_to_assets    |-> Bank(PercentOf(Value(p, "equity"), Value(p, "assets"))),
         financing_to_deposits |-> Bank(PercentOf(Value(p, "financing_and_advances"),
                                                  Value(p, "deposits"))),
         capital_adequacy    |-> Value(p, "capital_adequacy_ratio_percent")]

RatiosOf(ordered, i, model) == RatiosBetween(PreviousOf(ordered, i), ordered[i], model)

-----------------------------------------------------------------------------
(* Risk                                                                      *)

CapitalName(model) == IF model = "bank" THEN "capital_structure" ELSE "leverage_liquidity"

FundamentalWeights(model) ==
    CapitalName(model) :> 45 @@ [earnings_stability |-> 35, filing_risk |-> 20]

(* Capital of a bank: adequacy as reported, in percent, else the share of    *)
(* equity.                                                                   *)
CapitalScore(r) ==
    IF r.capital_adequacy # None THEN Clamp(500 * (20 - r.capital_adequacy), 0, 10000)
    ELSE IF r.equity_to_assets # None THEN Clamp(10 * (1000 - r.equity_to_assets), 0, 10000)
    ELSE None

(* Equity that is gone is severe whatever the ratios say.                    *)
LeverageScore(p, r) ==
    LET leverage  == IF r.debt_to_equity = None THEN {}
                     ELSE {<<"debt", Clamp((40 * r.debt_to_equity) \div 100, 0, 10000)>>}
        liquidity == IF r.current_ratio = None THEN {}
                     ELSE {<<"current",
                             Clamp((80 * (15000 - r.current_ratio)) \div 100, 0, 10000)>>}
        observed  == leverage \cup liquidity
    IN  IF Value(p, "equity") # None /\ Value(p, "equity") <= 0 THEN 10000
        ELSE IF observed = {} THEN None
        ELSE Total(observed, LAMBDA o : o[2]) \div Cardinality(observed)

Incomes(periods) ==
    LET known == SelectSeq(periods, LAMBDA p : Value(p, "net_income") # None)
    IN  [i \in DOMAIN known |-> Value(known[i], "net_income")]

Instability(income, losses, swings) ==
    LET swing(i) == (10000 * Magnitude(income[i] - income[i - 1])) \div Magnitude(income[i - 1])
        variability == IF swings = {} THEN 0
                       ELSE Least(10000, Total(swings, swing) \div Cardinality(swings))
    IN  IF Len(income) < 2 THEN None
        ELSE Clamp((7000 * losses) \div Len(income) + (3 * variability) \div 10, 0, 10000)

InstabilityOf(income) ==
    Instability(income, Cardinality({i \in DOMAIN income : income[i] < 0}),
                {i \in 2..Len(income) : income[i - 1] # 0})

(* Losses and swings of the annual incomes, or of all if there are not two.  *)
StabilityScore(periods) ==
    LET annual == SelectSeq(periods, LAMBDA p : p.period = "FY")
    IN  InstabilityOf(Incomes(IF Len(annual) >= 2 THEN annual ELSE periods))

RiskOfKnown(all, model) ==
    WeightedRisk([n \in {m \in DOMAIN all : all[m] # None} |-> all[n]],
                 FundamentalWeights(model), 10000)

RiskOfLatest(latest, ratios, stability, warnings, model) ==
    RiskOfKnown(
        CapitalName(model) :> (IF model = "bank" THEN CapitalScore(ratios)
                               ELSE LeverageScore(latest, ratios))
          @@ [earnings_stability |-> stability,
              filing_risk        |-> Clamp(2000 * warnings, 0, 10000)],
        model)

FundamentalRisk(periods, ordered, warnings, model) ==
    LET last == Len(ordered)
    IN  IF last = 0 THEN None
        ELSE RiskOfLatest(ordered[last], RatiosOf(ordered, last, model),
                          StabilityScore(periods), warnings, model)
=============================================================================
