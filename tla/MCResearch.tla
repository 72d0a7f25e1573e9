------------------------------ MODULE MCResearch ------------------------------
(* Small instances of Research: a few payloads of each kind of read, among   *)
(* them the ones the adapters refuse and the ones the analytics find short.  *)
EXTENDS Research

CONSTANT Pool   \* the XBRL facts a payload may hold

MCVolatility(prices) ==
    LET changes == {i \in 2..Len(prices) : prices[i] # prices[i - 1]}
    IN  (9000 * Cardinality(changes)) \div Len(prices)
MCLogChange(a, b) == Ratio(10 * (b - a), a)

Up(n, price(_)) == [i \in 1..n |-> price(i)]

-----------------------------------------------------------------------------
(* Spot                                                                      *)

Symbol(name, status) == [symbol |-> name, status |-> status, allowed |-> TRUE]
Candle(i, price) ==
    [open_time |-> 9900 + i, close_time |-> 9901 + i, open |-> price, close |-> price,
     low |-> price - 1, high |-> price + 1]
Level(price, quantity) == [price |-> price, quantity |-> quantity]
Trade(quote, maker) == [quote |-> quote, maker |-> maker, time |-> 9990]
Ticker(low, last) ==
    [symbol |-> "A", low |-> low, last |-> last, high |-> 12, open_time |-> 9000,
     close_time |-> 9999]

SpotWires ==
    [symbols |-> [trading |-> [symbols |-> {Symbol("A", "TRADING"), Symbol("B", "BREAK")},
                               server_time |-> 9999],
                  halted  |-> [symbols |-> {Symbol("A", "BREAK"), Symbol("B", "TRADING")},
                               server_time |-> 9999]],
     ticker |-> [good |-> Ticker(8, 10), crossed |-> Ticker(11, 10), other |-> Malformed],
     candles |-> [long  |-> Up(22, LAMBDA i : Candle(i, 10 + i)),
                  flat  |-> Up(20, LAMBDA i : Candle(i, 10 + (i % 2))),
                  short |-> Up(5, LAMBDA i : Candle(i, 10)),
                  empty |-> <<>>],
     order_book |-> [deep    |-> [bids |-> <<Level(2, 9), Level(3, 1), Level(1, 0)>>,
                                  asks |-> <<Level(6, 2), Level(4, 1), Level(5, 3)>>],
                     thin    |-> [bids |-> <<Level(3, 20)>>, asks |-> <<Level(4, 1)>>],
                     crossed |-> [bids |-> <<Level(5, 1)>>, asks |-> <<Level(4, 1)>>]],
     trades |-> [mixed |-> <<Trade(10, TRUE), Trade(10, FALSE), Trade(90, FALSE)>>,
                 none  |-> <<>>]]

-----------------------------------------------------------------------------
(* Futures, in minutes                                                       *)

Rate(t, rate) == [symbol |-> "A", time |-> t, rate |-> rate, mark |-> 10]
Oi(t, quantity) == [symbol |-> "A", time |-> t, quantity |-> quantity]
Basis(t, futures, basis) ==
    [symbol |-> "A", time |-> t, futures |-> futures, index |-> 100, basis |-> basis,
     rate |-> 100 * basis]
Account(t, long) == [symbol |-> "A", time |-> t, long |-> long, short |-> 10000 - long]
Taker(t, buy) == [symbol |-> "A", time |-> t, buy |-> buy, sell |-> 10]

FuturesWires ==
    [symbols |-> [trading |-> [symbols |-> {[symbol |-> "A", status |-> "TRADING",
                                             perpetual |-> TRUE]}, server_time |-> 9999],
                  halted  |-> [symbols |-> {[symbol |-> "A", status |-> "SETTLING",
                                             perpetual |-> TRUE]}, server_time |-> 9999]],
     market |-> [new |-> [symbol |-> "A", mark |-> 101, index |-> 100, time |-> 9999],
                 old |-> [symbol |-> "A", mark |-> 101, index |-> 100, time |-> 9990]],
     funding |-> [even   |-> <<Rate(8560, 1), Rate(9040, 1), Rate(9520, 4)>>,
                  uneven |-> <<Rate(9040, 1), Rate(9280, 1), Rate(9520, 4)>>],
     open_interest_current |-> [new |-> Oi(9999, 5)],
     open_interest_history |-> [long   |-> <<Oi(9700, 4), Oi(9760, 5), Oi(9820, 4),
                                             Oi(9880, 5), Oi(9940, 9)>>,
                                future |-> <<Oi(9990, 4), Oi(10060, 5)>>],
     basis |-> [wide |-> <<Basis(9940, 101, 1)>>, wrong |-> <<Basis(9940, 101, 3)>>,
                stale |-> <<Basis(9000, 101, 1)>>],
     positioning_accounts |-> [long |-> <<Account(9940, 7000)>>, even |-> <<Account(9940, 5000)>>],
     positioning_taker |-> [buying |-> <<Taker(9940, 30)>>,
                            unordered |-> <<Taker(9940, 30), Taker(9880, 30)>>]]

-----------------------------------------------------------------------------
(* Crypto                                                                    *)

Coin(id, cap, volume) ==
    [id |-> id, price |-> 10, cap |-> cap, volume |-> volume, low |-> 9, high |-> 11,
     ath |-> 20, updated |-> 9990]
Pairs(n, value(_)) == [i \in 1..n |-> <<9900 + i, value(i)>>]
Series(n) ==
    [prices  |-> Pairs(n, LAMBDA i : IF i = n THEN 15 ELSE 10 + (i % 2)),
     caps    |-> Pairs(n, LAMBDA i : 100),
     volumes |-> Pairs(n, LAMBDA i : IF i = n - 1 THEN 90 ELSE 10 + (i % 3))]
(* Caps of other instants, a price of nothing, two prices of one instant, and *)
(* volumes last first.                                                       *)
Ragged ==
    [prices  |-> Pairs(21, LAMBDA i : IF i = 4 THEN 0 ELSE 10 + (i % 3)) \o << <<9903, 12>> >>,
     caps    |-> [i \in 1..21 |-> <<9902 + i, 100 + i>>],
     volumes |-> [i \in 1..21 |-> <<9922 - i, i>>]]

CryptoWires ==
    [search |-> [shared |-> [query |-> "A", coins |-> <<[id |-> "A", symbol |-> "A"],
                                                        [id |-> "A2", symbol |-> "A"]>>]],
     global |-> [known |-> [updated |-> 9990, cap |-> 1]],
     trending |-> [some |-> <<"A">>],
     markets |-> [two |-> <<Coin("A", 1000, 10), Coin("B", None, 1)>>],
     overview |-> [large   |-> <<Coin("A", 50000, 100)>>,
                   unknown |-> <<Coin("A", None, None)>>,
                   other   |-> <<Coin("B", 10, 1)>>,
                   missing |-> <<>>],
     history |-> [long |-> Series(25), ragged |-> Ragged, short |-> Series(3),
                  one |-> Series(1)]]

-----------------------------------------------------------------------------
(* Stocks, in days                                                           *)

Bar(t, price) == [time |-> t, open |-> price, close |-> price, low |-> price, high |-> price]
Bars(symbol, exchange, bars) ==
    [symbol |-> symbol, exchange |-> exchange, offline |-> FALSE, bars |-> bars]
Quote(symbol, exchange, volume, high) ==
    [symbol |-> symbol, exchange |-> exchange, offline |-> FALSE, price |-> 10, low |-> 9,
     high |-> high, low52 |-> None, high52 |-> 12, volume |-> volume, cap |-> 5000,
     time |-> 9999]
Filing(form, accession, filed) ==
    [typed |-> TRUE, form |-> form, accession |-> accession, filed |-> filed]
Fact(name, value, start, end, year, period, accession, filed) ==
    [name |-> name, priority |-> 0, value |-> value, start |-> start, end |-> end,
     year |-> year, period |-> period, form |-> IF period = "FY" THEN "10-K" ELSE "10-Q",
     amended |-> accession = "amendment", filed |-> filed, accession |-> accession]

FactsWires == [facts \in SUBSET Pool |-> facts]

StockWires ==
    [search |-> [here |-> {[symbol |-> "A", exchange |-> "NYSE"]},
                 elsewhere |-> {[symbol |-> "A", exchange |-> "PSX"]}],
     profile |-> [right |-> [symbol |-> "A", exchange |-> "NYSE"],
                  wrong |-> [symbol |-> "A", exchange |-> "PSX"]],
     quote |-> [traded   |-> Quote("A", "NYSE", 1, 11),
                untraded |-> Quote("A", "NYSE", None, 11),
                crossed  |-> Quote("A", "NYSE", 1, 8)],
     candles |-> [long  |-> Bars("A", "NYSE", Up(21, LAMBDA i : Bar(9900 + i, 30 - i))),
                  short |-> Bars("A", "NYSE", Up(2, LAMBDA i : Bar(9900 + i, 10))),
                  twice |-> Bars("A", "NYSE", Up(2, LAMBDA i : Bar(9900, 10)))],
     tickers |-> [listed   |-> <<[typed |-> TRUE, ticker |-> "A"]>>,
                  unlisted |-> <<[typed |-> TRUE, ticker |-> "B"],
                                 [typed |-> FALSE, ticker |-> "A"]>>],
     submissions |-> [annual |-> <<Filing("10-K", "original", 9500)>>,
                      other  |-> <<Filing("S-1", "other", 9500)>>],
     facts |-> FactsWires]

(* The manifest of one company: approved, a draft, or with a value whose     *)
(* evidence nobody verified or that is not of a listed report.               *)
Evidence(report, verified) ==
    [value |-> 100, reported |-> 10, scale |-> 10, report |-> report, page |-> 1,
     basis |-> "consolidated", verified |-> verified]
Entry(status, fact, host) ==
    [symbol |-> "A", exchange |-> "PSX", model |-> "corporate", status |-> status,
     reviewed |-> status = "approved", checked |-> TRUE, warnings |-> 1,
     reports |-> <<[id |-> "r1", url |-> "u1", host |-> host, pages |-> 9, hashed |-> TRUE,
                    basis |-> "consolidated", published |-> 9900]>>,
     periods |-> <<[year |-> 26, period |-> "FY", basis |-> "consolidated", url |-> "u1",
                    end |-> 9800, facts |-> [revenue |-> fact, net_income |-> fact]]>>]

(* Years of which not everything was reported: a company whose equity is     *)
(* gone, and a bank.                                                         *)
Reported(year, end, values) ==
    [year |-> year, period |-> "FY", basis |-> "consolidated", url |-> "u1", end |-> end,
     facts |-> [n \in DOMAIN values |->
                  [Evidence("r1", TRUE) EXCEPT !.value = values[n], !.reported = values[n],
                                               !.scale = 1]]]
Years(model, years) ==
    [Entry("approved", Evidence("r1", TRUE), "psx") EXCEPT !.model = model, !.periods = years]
Company ==
    Years("corporate",
          <<Reported(26, 9800, [revenue |-> 120, assets |-> 50, liabilities |-> 60,
                                equity |-> -10, net_income |-> -6]),
            Reported(25, 9435, [revenue |-> 100, equity |-> 10, current_assets |-> 4]),
            Reported(24, 9070, [revenue |-> 80, net_income |-> 8, assets |-> 40])>>)
Bank ==
    Years("bank",
          <<Reported(25, 9435, [assets |-> 90, liabilities |-> 80, equity |-> 10,
                                net_income |-> 4, deposits |-> 70]),
            Reported(26, 9800, [assets |-> 100, liabilities |-> 90, equity |-> 10,
                                net_income |-> 5, deposits |-> 80, total_income |-> 9])>>)

Manifests ==
    {None, <<Company>>, <<Bank>>, <<Entry("approved", Evidence("r1", TRUE), "psx")>>,
     <<Entry("draft", Evidence("r1", FALSE), "psx")>>,
     <<Entry("approved", Evidence("r1", FALSE), "psx")>>,
     <<Entry("approved", Evidence("r2", TRUE), "psx")>>,
     <<Entry("approved", Evidence("r1", TRUE), "blog")>>}

MCWires == [spot |-> SpotWires, futures |-> FuturesWires, crypto |-> CryptoWires,
            stock |-> StockWires]

-----------------------------------------------------------------------------
MCAges == [hit |-> 1, stale |-> 50, miss |-> 0, bypass |-> 0]

MCStatuses ==
    [spot    |-> [c \in DOMAIN SpotWires |->
                    IF c = "symbols" THEN {MISS} ELSE DOMAIN MCAges],
     futures |-> [c \in DOMAIN FuturesWires |->
                    CASE c = "market" -> {HIT, MISS, STALE}
                      [] c = "basis"  -> {HIT, STALE}
                      [] OTHER        -> {MISS}],
     crypto  |-> [c \in DOMAIN CryptoWires |-> DOMAIN MCAges],
     stock   |-> [c \in DOMAIN StockWires |->
                    CASE c \in {"facts", "profile"} -> {MISS}
                      [] c = "tickers"            -> {HIT}
                      [] OTHER                    -> {MISS, STALE}]]

Serves(licensed, sec, manifest) == [licensed |-> licensed, sec |-> sec, manifest |-> manifest]
All(service, ops, exchange, deployments) ==
    {[service |-> service, op |-> op, exchange |-> exchange, deployment |-> d] :
        op \in ops, d \in deployments}

MCRequests ==
    All("spot", DOMAIN S!SpotParts, None, {None})
        \cup All("futures", DOMAIN U!FuturesParts, None, {None})
        \cup All("crypto", DOMAIN C!CryptoParts, None, {None})
        \cup All("stock", DOMAIN K!StockParts, "NYSE",
                 {Serves(TRUE, FALSE, None), Serves(FALSE, TRUE, None), Serves(FALSE, FALSE, None)})
        \cup All("stock", {"research"}, "NYSE", {Serves(TRUE, TRUE, None)})
        \cup All("stock", {"research", "ratios"}, "PSX",
                 {Serves(l, TRUE, m) : l \in BOOLEAN, m \in Manifests})

FilingsOnly == All("stock", {"financials"}, "NYSE", {Serves(FALSE, TRUE, None)})

(* A year and a quarter, each with its year-to-date or amended twin.         *)
MCPool ==
    {Fact("revenue",    100, 9126, 9490, 25, "FY", "original", 9500),
     Fact("net_income",  20, 9126, 9490, 25, "FY", "original", 9500),
     Fact("net_income",  25, 9126, 9490, 25, "FY", "amendment", 9600),
     Fact("revenue",     30, 9491, 9580, 26, "Q1", "quarter", 9600),
     Fact("gross_profit", 9, 9400, 9580, 26, "Q1", "quarter", 9600)}

(* A 10-K repeats the year before under its own year.                        *)
Repeated ==
    {Fact("revenue", 100, 9126, 9490, 26, "FY", "second", 9900),
     Fact("revenue", 120, 9491, 9855, 26, "FY", "second", 9900),
     Fact("net_income", 20, 9491, 9855, 26, "FY", "second", 9900)}
=============================================================================
