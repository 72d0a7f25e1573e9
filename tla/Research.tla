------------------------------- MODULE Research -------------------------------
(***************************************************************************)
(* A research request, from the first provider read to the page: the       *)
(* service asks for its reads stage by stage, those of one stage together; *)
(* each of them answers, fresh or from the cache, or fails, in any order;  *)
(* an operation either survives a failed read or passes the failure on at  *)
(* once (backend/app/services/*_service.py, frontend/state.py).            *)
(*                                                                         *)
(* What a read goes through before it answers is ProviderFetch; here it    *)
(* simply ends.  Payloads are known by name, Wires maps them to what the   *)
(* provider sends.                                                         *)
(***************************************************************************)
EXTENDS ResearchMeta

CONSTANTS
    Asset, Malformed, Notional, Period, Limit, AllowedHosts,
    Volatility(_), LogChange(_, _),
    Wires,        \* service -> component -> name -> payload
    Ages,         \* cache status -> how long ago the payload was fetched
    Statuses,     \* service -> component -> cache statuses of the instance
    Requests,     \* records [service, op, exchange, deployment]: for stocks, what the
                  \* installation that serves them has configured
    Waiting, Lost \* a read in flight, a read that failed

S == INSTANCE SpotResearch
U == INSTANCE FuturesResearch
C == INSTANCE CryptoResearch
K == INSTANCE StockResearch

VARIABLES request,  \* the request being served, or None
          reads,    \* component -> Waiting, Lost or [wire, status, part]
          reply     \* what the request was answered, or None

vars == <<request, reads, reply>>

Components == UNION {DOMAIN Wires[s] : s \in DOMAIN Wires}

-----------------------------------------------------------------------------
(* Reads                                                                     *)

Normalize(service, component, w) ==
    CASE service = "spot"    -> S!SpotNormalize(component, w)
      [] service = "futures" -> U!FuturesNormalize(component, w)
      [] service = "crypto"  -> C!CryptoNormalize(component, w)
      [] service = "stock"   -> K!StockNormalize(component, w)

Normal ==
    [s \in DOMAIN Wires |->
        [c \in DOMAIN Wires[s] |->
            [n \in DOMAIN Wires[s][c] |-> Normalize(s, c, Wires[s][c][n])]]]

Delayed(service) == service \in {"crypto", "stock"}

(* What a read gives the service: the adapter's data and their metadata.     *)
PartOf(service, component, norm, status) ==
    LET meta == MetaOf(component, norm, status, Now - Ages[status], Delayed(service))
    IN  [data |-> norm.data, meta |-> IF service = "futures" THEN U!Aged(meta) ELSE meta]

(* A read that has arrived.                                                  *)
Got(service, component, wire, status) ==
    [wire |-> wire, status |-> status,
     part |-> PartOf(service, component, Normal[service][component][wire], status)]

Arrived == {c \in DOMAIN reads : reads[c] \notin {Waiting, Lost}}
Failed  == {c \in DOMAIN reads : reads[c] = Lost}
Parts   == [c \in Arrived |-> reads[c].part]

Captures(r) ==
    CASE r.service = "spot"    -> r.op \in S!SpotCaptures
      [] r.service = "futures" -> r.op \in U!FuturesCaptures
      [] r.service = "crypto"  -> r.op \in C!CryptoCaptures
      [] r.service = "stock"   -> r.op \in K!StockCaptures

(* The read that tells whether there is such an asset: never captured.       *)
Identity(r, c) ==
    \/ r.service \in {"spot", "futures"} /\ c = "symbols"
    \/ r.service = "crypto" /\ c = "overview"

Unknown ==
    LET parts == Parts
    IN  /\ request.op # "symbols"
        /\ \/ /\ request.service \in {"spot", "futures"}
              /\ "symbols" \in Arrived /\ Asset \notin parts["symbols"].data
           \/ /\ request.service = "crypto"
              /\ "overview" \in Arrived /\ ~C!CoinFound(parts["overview"].data)

-----------------------------------------------------------------------------
(* Stages                                                                    *)

SecStage ==
    IF ~K!AsksSec(request.op, request.deployment, request.exchange) THEN {}
    ELSE IF "tickers" \notin DOMAIN reads THEN {"tickers"}
    ELSE IF K!Listed(Parts) THEN {"submissions", "facts"} ELSE {}

Stage ==
    CASE request.service = "spot" ->
            IF "symbols" \in Arrived THEN S!SpotParts[request.op] ELSE {"symbols"}
      [] request.service = "futures" ->
            IF "symbols" \in Arrived THEN U!FuturesParts[request.op] ELSE {"symbols"}
      [] request.service = "crypto" ->
            IF request.op \in C!OfOneCoin /\ "overview" \notin Arrived THEN {"overview"}
            ELSE C!CryptoParts[request.op]
      [] request.service = "stock" ->
            LET market == IF request.deployment.licensed THEN K!StockParts[request.op] ELSE {}
            IN  IF market \subseteq DOMAIN reads THEN SecStage ELSE market

(* The operations of the services, and the reads a request can lead to.      *)
Operations ==
    [spot   |-> DOMAIN S!SpotParts, futures |-> DOMAIN U!FuturesParts,
     crypto |-> DOMAIN C!CryptoParts, stock |-> DOMAIN K!StockParts]

Asked(r) ==
    CASE r.service = "spot"    -> {"symbols"} \cup S!SpotParts[r.op]
      [] r.service = "futures" -> {"symbols"} \cup U!FuturesParts[r.op]
      [] r.service = "crypto"  ->
            C!CryptoParts[r.op] \cup (IF r.op \in C!OfOneCoin THEN {"overview"} ELSE {})
      [] r.service = "stock"   ->
            (IF r.deployment.licensed THEN K!StockParts[r.op] ELSE {})
              \cup (IF K!AsksSec(r.op, r.deployment, r.exchange) THEN K!SecReads ELSE {})

(* A request names an operation of a service, whose reads have payloads.     *)
ASSUME RequestAssumption ==
    /\ None \notin Requests
    /\ \A r \in Requests :
          /\ r.service \in DOMAIN Operations \cap DOMAIN Wires
          /\ r.op \in Operations[r.service]
          /\ Asked(r) \subseteq DOMAIN Wires[r.service]

(* What a read gives is told from its being in flight and from its failure.  *)
ASSUME ReadAssumption ==
    \A s \in DOMAIN Wires : \A c \in DOMAIN Wires[s] :
        \A wire \in DOMAIN Wires[s][c], status \in Statuses[s][c] :
            Normal[s][c][wire].ok => Got(s, c, wire, status) \notin {Waiting, Lost}

(* What the analytics rest on is a number, or unknown.                       *)
Numbers(service, component, data) ==
    LET Numeric(values) == values \subseteq Int
        Known(values)   == values \subseteq Int \cup {None}
    IN  CASE service = "spot" /\ component = "candles" /\ S!LongEnough(data) ->
                LET t == S!TechnicalsOf(data) IN Numeric({t.volatility, t.rsi, t.confidence})
          [] service = "spot" /\ component = "order_book" ->
                LET b == S!BookAnalysis(data) IN Numeric({b.spread}) /\ Known({b.buy, b.sell})
          [] service = "spot" /\ component = "trades" ->
                LET t == S!TradesOf(data) IN Numeric({t.share, t.imbalance})
          [] service = "futures" /\ component = "funding" -> Known({U!AnnualizedFunding(data)})
          [] service = "futures" /\ component = "open_interest_history" ->
                Known({U!OpenInterestChange(data), U!OpenInterestZ(data)})
          [] service = "futures" /\ component = "basis" -> Known({U!BasisPercent(data)})
          [] service = "futures" /\ component = "positioning_accounts" ->
                Known({U!LastOf(data).long})
          [] service = "futures" /\ component = "positioning_taker" -> Known({U!TakerShare(data)})
          [] service = "crypto" /\ component = "overview" /\ data # <<>> ->
                /\ Known({data[1].cap, data[1].volume})
                /\ C!KnownCap(data[1]) => Numeric({C!Log10(data[1].cap)})
          [] service = "crypto" /\ component = "history" /\ C!LongEnough(data) ->
                LET t == C!TechnicalsOf(data)
                IN  Numeric({t.volatility, t.drawdown, t.confidence, C!AnomaliesOf(data).score})
          [] service = "stock" /\ component = "quote" ->
                Numeric({data.price}) /\ Known({data.volume, data.cap})
          [] service = "stock" /\ component = "candles" /\ K!LongEnough(data.bars) ->
                LET t == K!StockTechnicals(data.bars)
                IN  Numeric({t.volatility, t.drawdown, t.confidence})
          [] OTHER -> TRUE
ASSUME NumbersAssumption ==
    \A s \in DOMAIN Wires : \A c \in DOMAIN Wires[s] : \A wire \in DOMAIN Wires[s][c] :
        Normal[s][c][wire].ok => Numbers(s, c, Normal[s][c][wire].data)

(* The facts are finitely many, of the types the adapter demands, and those  *)
(* of one filing were filed on one day.                                      *)
FactsTyped(facts) ==
    /\ IsFiniteSet(facts)
    /\ \A f \in facts :
          /\ {f.end, f.filed, f.priority} \subseteq Int
          /\ {f.year, f.start} \subseteq Int \cup {None}
          /\ f.amended \in BOOLEAN
    /\ \A f, g \in facts : f.accession = g.accession => f.filed = g.filed

(* A book is of levels, a history of three series of instants and values.    *)
WireTyped(service, component, w) ==
    CASE service = "spot" /\ component = "order_book" ->
            w.asks \in Seq([price : Int, quantity : Int])
      [] service = "crypto" /\ component = "history" ->
            {w.prices, w.caps, w.volumes} \subseteq Seq(Int \X Int)
      [] service = "stock" /\ component = "facts" -> FactsTyped(w)
      [] OTHER -> TRUE
ASSUME WireAssumption ==
    \A s \in DOMAIN Wires : \A c \in DOMAIN Wires[s] : \A wire \in DOMAIN Wires[s][c] :
        Normal[s][c][wire].ok => WireTyped(s, c, Wires[s][c][wire])

(* The slippage is asked for an amount to spend.                             *)
ASSUME NotionalAssumption == Notional \in Nat \ {0}

(* Fault: a part that was lost is asked for until it arrives.                *)
WantedAgain == Stage \ Arrived

Wanted == Stage \ DOMAIN reads

(* Filings and facts are gathered inside the fundamentals: if one fails the  *)
(* other is no longer waited for.                                            *)
Awaited == {c \in DOMAIN reads : reads[c] = Waiting}
             \ (IF Failed \cap {"submissions", "facts"} # {} THEN {"submissions", "facts"} ELSE {})

AnswerOf(parts, failed) ==
    CASE request.service = "spot"    ->
            S!SpotAnswer(request.op, [c \in DOMAIN parts \cap S!SpotParts[request.op] |-> parts[c]],
                         failed)
      [] request.service = "futures" ->
            U!FuturesAnswer(request.op,
                            [c \in DOMAIN parts \cap U!FuturesParts[request.op] |-> parts[c]],
                            failed)
      [] request.service = "crypto"  -> C!CryptoAnswer(request.op, parts, failed)
      [] request.service = "stock"   ->
            K!StockAnswer(request.op, request.deployment, request.exchange, parts, failed)

-----------------------------------------------------------------------------
(* A manifest that breaks a rule keeps an installation from starting.        *)
Started(d) == d.manifest # None => K!M!ManifestOk(d.manifest)
Servable == {r \in Requests : r.service = "stock" => Started(r.deployment)}

Ask(r) ==
    /\ request = None
    /\ request' = r
    /\ UNCHANGED <<reads, reply>>

Serving == request # None /\ reply = None

Read ==
    /\ Serving /\ Awaited = {} /\ ~Unknown /\ Wanted # {}
    /\ reads' = [c \in DOMAIN reads \cup Wanted |->
                    IF c \in DOMAIN reads THEN reads[c] ELSE Waiting]
    /\ UNCHANGED <<request, reply>>

(* A failed read: the operation goes on without it, or ends with its error.  *)
Fail(c, code) ==
    /\ Serving /\ c \in Awaited
    /\ IF Captures(request) /\ ~Identity(request, c)
       THEN reads' = [reads EXCEPT ![c] = Lost] /\ UNCHANGED reply
       ELSE reply' = K!Refused(code) /\ UNCHANGED reads
    /\ UNCHANGED request

Arrive(c, wire, status) ==
    /\ Serving /\ c \in Awaited
    /\ Normal[request.service][c][wire].ok
    /\ reads' = [reads EXCEPT ![c] = Got(request.service, c, wire, status)]
    /\ UNCHANGED <<request, reply>>

(* A licensed provider may also say that there is no such company.           *)
ErrorsOf(c) ==
    {"unavailable"} \cup (IF request.service = "stock" /\ c \notin K!SecReads
                          THEN {"not_found"} ELSE {})

(* A fresh payload that is not what the adapter accepts is a failed read; in *)
(* the cache there are only accepted ones.                                   *)
Complete(c) ==
    /\ Serving /\ c \in Awaited
    /\ \/ \E code \in ErrorsOf(c) : Fail(c, code)
       \/ \E wire \in DOMAIN Wires[request.service][c], status \in Statuses[request.service][c] :
              Arrive(c, wire, status)

Answerable == Serving /\ Awaited = {} /\ (Unknown \/ Wanted = {})

Answer ==
    /\ Answerable
    /\ reply' = IF Unknown THEN K!Refused("not_found") ELSE AnswerOf(Parts, Failed)
    /\ UNCHANGED <<request, reads>>

(* Fault: the next request finds the reads of the last.                      *)
CloseKeeping ==
    /\ reply # None
    /\ request' = None /\ reply' = None /\ UNCHANGED reads

(* The reads an error left behind run on; their results reach only the cache. *)
Close ==
    /\ reply # None
    /\ request' = None /\ reads' = <<>> /\ reply' = None

Init == request = None /\ reads = <<>> /\ reply = None

Next ==
    \/ \E r \in Servable : Ask(r)
    \/ Read
    \/ \E c \in Components : Complete(c)
    \/ Answer
    \/ Close

Spec == Init /\ [][Next]_vars

(* Every read ends, as FetchEnds of ProviderFetch has it, and the service    *)
(* runs on when its reads have ended.  The last conjunct is the weak fairness *)
(* of Answer with its ENABLED written out, so that TLC need not compute an   *)
(* answer to find that there is one.                                         *)
FairSpec ==
    /\ Spec
    /\ WF_vars(Read)
    /\ WF_vars(\E c \in Components : Complete(c))
    /\ []<>~Answerable \/ []<><<Serving /\ reply' # None>>_vars

-----------------------------------------------------------------------------
(* What the page says of an answer.                                          *)
PageView(r) ==
    IF r.kind = "error" THEN "error"
    ELSE IF request.service = "stock" /\ r.meta.freshness = "unavailable" THEN "partial"
    ELSE IF r.meta.freshness = "stale" \/ r.meta.status = STALE THEN "stale"
    ELSE IF r.meta.partial THEN "partial"
    ELSE "ready"

Replied == reply # None /\ reply.kind = "answer"

(* The parts a page is made of, and the part a read belongs to.              *)
PageParts ==
    CASE request.service = "spot"    -> S!SpotParts[request.op]
      [] request.service = "futures" -> U!FuturesParts[request.op]
      [] request.service = "crypto"  ->
            C!CryptoParts[request.op]
              \cup (IF request.op \in C!CryptoCaptures THEN {"overview"} ELSE {})
      [] request.service = "stock"   ->
            K!StockParts[request.op]
              \cup (IF request.op \in K!UsesFundamentals THEN {"fundamentals"} ELSE {})
PartFor(c) == IF c \in K!SecReads THEN "fundamentals" ELSE c
ShownReads == {c \in Arrived : PartFor(c) \in reply.shown}

-----------------------------------------------------------------------------
(* Type invariant.                                                           *)
TypeOK ==
    /\ request \in Requests \cup {None}
    /\ DOMAIN reads \subseteq Components
    /\ \A c \in DOMAIN reads :
          \/ reads[c] \in {Waiting, Lost}
          \/ /\ reads[c].wire \in DOMAIN Wires[request.service][c]
             /\ reads[c].status \in Statuses[request.service][c]
    /\ request = None => reads = <<>> /\ reply = None
    /\ reply # None => reply.kind \in {"answer", "error"}

(* A page of several parts shows every part or names it as missing, whichever *)
(* reads failed and in whatever order, and then says that it is partial.     *)
MissingIsNamed ==
    Replied /\ Captures(request) /\ reply.meta.freshness # "unavailable" =>
        \A p \in PageParts : p \notin reply.shown =>
            p \in reply.meta.warnings /\ reply.meta.partial

(* How old a futures observation may be before it is stale, in minutes.      *)
AgeAllowed(c) == CASE c = "funding" -> 1440
                   [] c \in {"market", "open_interest_current"} -> 2
                   [] OTHER -> 2 * Period + 5

(* Data from a stale cache are never shown as fresh, alone or among fresh    *)
(* ones, and a risk that rests on them says so in its confidence; nor is a   *)
(* futures read shown as live that came fresh but observes the market too    *)
(* long ago.                                                                 *)
StaleNeverLive ==
    Replied => \A c \in ShownReads :
        LET stale == Parts[c].meta.status = STALE
            old   == request.service = "futures" /\ c # "symbols"
                       /\ Parts[c].meta.staleness > AgeAllowed(c)
        IN  /\ stale \/ old => reply.meta.freshness = "stale"
            /\ (stale \/ old) /\ reply.risk # None /\ c \notin K!SecReads =>
                  reply.risk.confidence <= 6000

(* The page calls itself ready only if nothing of it is missing, stale or    *)
(* incomplete.                                                               *)
ReadyMeansComplete ==
    Replied /\ PageView(reply) = "ready" =>
        /\ PageParts \subseteq reply.shown
        /\ \A c \in ShownReads : Parts[c].meta.freshness # "stale" /\ ~Parts[c].meta.partial

(* A missing component neither raises nor lowers the risk, which stays within *)
(* the scores there are; it costs confidence.                                *)
RiskIsWeightedMean ==
    Replied /\ reply.risk # None =>
        LET scores == Range(reply.risk.scores)
        IN  /\ reply.risk.overall \in Min(scores)..Max(scores)
            /\ reply.risk.missing # {} => reply.risk.confidence < 10000

(* What the page shows is of the asset that was asked for, even when a       *)
(* provider answers with another.                                            *)
OnlyTheAsset ==
    Replied =>
        /\ request.service = "stock" => \A c \in ShownReads \cap {"profile", "quote", "candles"} :
              /\ Parts[c].data.symbol = Asset
              /\ Parts[c].data.exchange = request.exchange
        /\ request.service = "crypto" /\ request.op \in C!OfOneCoin =>
              "overview" \in Arrived /\ Parts["overview"].data[1].id = Asset
        /\ request.service = "futures" => \A c \in ShownReads \cap {"funding", "basis"} :
              \A i \in DOMAIN Parts[c].data : Parts[c].data[i].symbol = Asset

-----------------------------------------------------------------------------
(* Algorithms against their definition                                       *)

WireOf(c) == Wires[request.service][c][reads[c].wire]

(* The slippage of a purchase is that of the cheapest way to spend the       *)
(* notional on the offered levels, in whatever order the provider lists them. *)
SlippageIsBestFill ==
    Replied /\ request.service = "spot" /\ "order_book" \in ShownReads =>
        LET wire    == WireOf("order_book").asks
            offered == S!OfferedIn(wire)
            orders  == {p \in [1..Cardinality(offered) -> offered] : Range(p) = offered}
            bought  == {S!BuyFill([k \in DOMAIN p |-> wire[p[k]]]).base : p \in orders}
        IN  S!BuyFill(Parts["order_book"].data.asks).base = Max(bought)

AlignedWith(points, wire) ==
    LET Of(pairs, t) == {pairs[i][2] : i \in {j \in DOMAIN pairs : pairs[j][1] = t}}
        From(value, pairs, t) == IF Of(pairs, t) = {} THEN value = None
                                 ELSE value \in Of(pairs, t)
    IN  /\ \A i \in 2..Len(points) : points[i - 1].time < points[i].time
        /\ \A i \in DOMAIN points :
              /\ points[i].price \in Of(wire.prices, points[i].time)
              /\ From(points[i].cap, wire.caps, points[i].time)
              /\ From(points[i].volume, wire.volumes, points[i].time)

(* Each point of a history joins a price, a cap and a volume of one instant, *)
(* and the points are in the order of time, however the three series of the  *)
(* payload are aligned.                                                      *)
HistoryAligned ==
    Replied /\ request.service = "crypto" /\ "history" \in ShownReads =>
        AlignedWith(Parts["history"].data, WireOf("history"))

SecPeriods == K!F!PeriodsOf(Parts["facts"].data)
AnchorsOf(p) ==
    {g \in Parts["facts"].data :
        /\ K!F!Usable(g) /\ g.name \in K!F!Anchor /\ g.start # None
        /\ K!F!PeriodKey(g) = <<p.end, p.year, p.period>>}
CoherentPeriod(p) ==
    LET facts == Range(p.facts)
    IN  /\ \A f, g \in facts : f.accession = g.accession
        /\ \A f, g \in {h \in facts : h.name \notin K!F!Instant} : f.start = g.start
        /\ \A g \in AnchorsOf(p) : \E f \in facts : f.filed >= g.filed

(* A period is of one filing and its flows of one duration: a quarter is     *)
(* never shown with a value of the year to date, nor one filing's income     *)
(* with another's revenue.  It is its latest filing, unless that one has     *)
(* none of the anchors.                                                      *)
PeriodsCoherent ==
    Replied /\ request.service = "stock" /\ "facts" \in ShownReads =>
        \A p \in Range(SecPeriods) : CoherentPeriod(p)

(* The fundamentals of a manifest are shown only of a company a person       *)
(* approved, each value of it with verified evidence in a report of an       *)
(* official host.                                                            *)
ShownIsReviewed ==
    Replied /\ request.service = "stock" /\ "fundamentals" \in reply.shown
            /\ "facts" \notin Arrived =>
        \E e \in Range(request.deployment.manifest) :
            /\ e.symbol = Asset /\ e.exchange = request.exchange
            /\ e.status = "approved" /\ e.reviewed
            /\ \A i \in DOMAIN e.periods : \A n \in DOMAIN e.periods[i].facts :
                  /\ e.exchange = "PSX" => e.periods[i].facts[n].verified
                  /\ e.exchange = "PSX" => \E r \in Range(e.reports) :
                        r.id = e.periods[i].facts[n].report /\ r.host \in AllowedHosts

(* The values a ratio rests on: of its period, and of the one before.        *)
RatioInputs ==
    [revenue_growth      |-> <<{"revenue"}, {"revenue"}>>,
     income_growth       |-> <<{"net_income"}, {"net_income"}>>,
     total_income_growth |-> <<{"total_income"}, {"total_income"}>>,
     deposit_growth      |-> <<{"deposits"}, {"deposits"}>>,
     operating_margin    |-> <<{"operating_profit", "revenue"}, {}>>,
     net_margin          |-> <<{"net_income", "revenue"}, {}>>,
     return_on_assets    |-> <<{"net_income", "assets"}, {"assets"}>>,
     return_on_equity    |-> <<{"net_income", "equity"}, {"equity"}>>,
     current_ratio       |-> <<{"current_assets", "current_liabilities"}, {}>>,
     debt_to_equity      |-> <<{"debt", "equity"}, {}>>,
     equity_to_assets    |-> <<{"equity", "assets"}, {}>>]

RatioFounded(ordered, i, ratios, n) ==
    /\ RatioInputs[n][1] \subseteq DOMAIN ordered[i].values
    /\ RatioInputs[n][2] # {} =>
          \E j \in 1..(i - 1) :
             /\ ordered[j].end = ratios.compared /\ ordered[j].period = ordered[i].period
             /\ RatioInputs[n][2] \subseteq DOMAIN ordered[j].values

(* What a company did not report is never taken for zero: a ratio that is    *)
(* shown has all its values, those of its period and those of an earlier one *)
(* of the same kind, and the risk only scores what it knows, the loss of the *)
(* equity as severe (docs/phase_8_fundamentals.md:28, 30, 41).               *)
UnknownIsNotZero ==
    Replied /\ request.service = "stock" /\ reply.fundamentals # None =>
        LET view    == reply.fundamentals
            ordered == K!F!Chronological(view.periods)
            latest  == LastOf(ordered).values
            scores  == view.risk.scores
        IN  /\ \A i \in DOMAIN ordered, n \in DOMAIN RatioInputs :
                  view.ratios[i][n] # None => RatioFounded(ordered, i, view.ratios[i], n)
            /\ view.risk # None =>
                  /\ view.risk.overall \in Min(Range(scores))..Max(Range(scores))
                  /\ "earnings_stability" \in DOMAIN scores =>
                        \E p, q \in Range(ordered) :
                            p # q /\ "net_income" \in DOMAIN p.values \cap DOMAIN q.values
                  /\ view.model = "corporate" /\ "equity" \in DOMAIN latest
                        /\ latest["equity"] <= 0 =>
                        "leverage_liquidity" \in DOMAIN scores
                          /\ scores["leverage_liquidity"] = 10000

-----------------------------------------------------------------------------
(* Every request is answered, whatever its reads do.                         *)
RequestEnds == (request # None) ~> (reply # None)

-----------------------------------------------------------------------------
(* What the documents say and the code does not do.                          *)

(* sec.py: "Company Facts repeats comparative values under a later filing's  *)
(* FY/FP", which the period builder filters; they must not fail the request  *)
(* of a company that has filings.                                            *)
RepeatedFactsHarmless ==
    /\ reply # None
    /\ {"submissions", "facts"} \subseteq Arrived
    /\ Parts["submissions"].data # <<>>
    => reply.kind = "answer"
=============================================================================
