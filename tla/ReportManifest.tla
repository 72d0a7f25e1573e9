---------------------------- MODULE ReportManifest ----------------------------
(***************************************************************************)
(* The manifest of official reports, which is loaded at start and refused  *)
(* as a whole if one entry breaks a rule, and the fundamentals served from *)
(* it (backend/app/providers/stock_fundamentals.py).                       *)
(*                                                                         *)
(* An entry is a company with its review, reports and periods.  A fact of  *)
(* a period is its value with the evidence for it: the report, its basis,  *)
(* the value and the scale reported, whether a human verified it.          *)
(***************************************************************************)
EXTENDS ResearchMeta

CONSTANTS Asset,        \* the company asked for
          AllowedHosts  \* hosts of official reports

(* Only a person approves, with every check made; nobody has to be named     *)
(* otherwise.                                                                *)
ReviewOk(e) == IF e.status = "approved" THEN e.reviewed /\ e.checked ELSE ~e.reviewed

Keys(seq, key(_)) == {key(seq[i]) : i \in DOMAIN seq}
Distinct(seq, key(_)) == Cardinality(Keys(seq, key)) = Len(seq)

Field(p, n) == IF n \in DOMAIN p.facts THEN p.facts[n].value ELSE None

Reconciles(whole, a, b, tolerance) ==
    None \in {whole, a, b} \/ Magnitude(whole - a - b) <= tolerance

(* Rounding of the reports is tolerated: a unit, or one part in two thousand *)
(* (in ten thousand for the gross profit).                                   *)
AccountingOk(p) ==
    LET Slack(n, parts) == IF Field(p, n) = None THEN 1
                           ELSE Max({1, Magnitude(Field(p, n)) \div parts})
    IN  /\ Reconciles(Field(p, "assets"), Field(p, "liabilities"), Field(p, "equity"),
                      Slack("assets", 2000))
        /\ Reconciles(Field(p, "revenue"), Field(p, "cost_of_revenue"),
                      Field(p, "gross_profit"), Slack("revenue", 10000))

(* A fact traces back to a report of the company, of the same document and   *)
(* basis as its period, and its value is what was reported times the scale.  *)
EvidenceOk(e, p, f) ==
    \E i \in DOMAIN e.reports :
        /\ e.reports[i].id = f.report
        /\ e.reports[i].url = p.url
        /\ e.reports[i].basis = p.basis
        /\ f.basis = p.basis
        /\ f.page <= e.reports[i].pages
        /\ f.value = f.reported * f.scale
        /\ e.status = "approved" => f.verified

PsxPeriodOk(e, p) ==
    /\ p.basis # None
    /\ IF e.model = "bank"
       THEN /\ {"assets", "liabilities", "equity", "net_income", "deposits"} \subseteq DOMAIN p.facts
            /\ {"current_assets", "current_liabilities"} \cap DOMAIN p.facts = {}
       ELSE p.facts # <<>> => "revenue" \in DOMAIN p.facts
    /\ \A n \in DOMAIN p.facts : EvidenceOk(e, p, p.facts[n])

EntryOk(e) ==
    /\ ReviewOk(e)
    /\ e.reports # <<>>
    /\ Distinct(e.reports, LAMBDA r : r.id)
    /\ Distinct(e.periods, LAMBDA p : <<p.year, p.period, p.basis>>)
    /\ \A i \in DOMAIN e.reports :
          /\ e.reports[i].host \in AllowedHosts
          /\ e.exchange = "PSX" => e.reports[i].hashed /\ e.reports[i].basis # None
    /\ \A i \in DOMAIN e.periods :
          /\ e.exchange = "PSX" => PsxPeriodOk(e, e.periods[i])
          /\ AccountingOk(e.periods[i])

(* What from_file accepts; anything else keeps the application from starting.*)
ManifestOk(entries) ==
    /\ Distinct(entries, LAMBDA e : <<e.exchange, e.symbol>>)
    /\ \A i \in DOMAIN entries : EntryOk(entries[i])

Published(entries, exchange) ==
    {entries[i] : i \in {j \in DOMAIN entries :
        entries[j].status = "approved" /\ entries[j].exchange = exchange
        /\ entries[j].symbol = Asset}}

(* The fundamentals of a published company, as old as its latest report.     *)
ManifestFundamentals(entry) ==
    LET latest == Max(Keys(entry.reports, LAMBDA r : r.published))
    IN  [kind     |-> "snapshot",
         model    |-> entry.model,
         periods  |-> [i \in DOMAIN entry.periods |->
                         [year |-> entry.periods[i].year, period |-> entry.periods[i].period,
                          end |-> entry.periods[i].end,
                          values |-> [n \in DOMAIN entry.periods[i].facts |->
                                        entry.periods[i].facts[n].value]]],
         warnings |-> entry.warnings,
         meta     |-> [component |-> "fundamentals", status |-> HIT, freshness |-> "cached",
                       source |-> latest, fetched |-> Now,
                       staleness |-> Clamp(Now - latest, 0, Now),
                       partial |-> entry.warnings > 0, warnings |-> {}]]
=============================================================================
