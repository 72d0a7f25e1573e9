---------------------------- MODULE ResearchMeta ----------------------------
(***************************************************************************)
(* What the research services share: the metadata of one provider read,    *)
(* the aggregate of several, and the weighted risk score with its          *)
(* renormalised weights (backend/app/services, backend/app/analytics).     *)
(*                                                                         *)
(* Units: a score or a percentage is an integer in hundredths, a share or  *)
(* a confidence one in ten-thousandths.  A quotient is truncated where the *)
(* code rounds its fourth or sixth decimal.                                *)
(***************************************************************************)
EXTENDS Integers, Sequences, FiniteSetsExt, Functions

CONSTANTS Now,   \* the instant of the request; earlier instants are smaller
          None   \* Python's None

HIT    == "hit"
STALE  == "stale"
MISS   == "miss"
BYPASS == "bypass"

Magnitude(n) == IF n < 0 THEN -n ELSE n
Least(a, b) == IF a < b THEN a ELSE b
Clamp(n, low, high) == IF n < low THEN low ELSE Least(n, high)
Ratio(n, d) == IF n < 0 THEN -((-n) \div d) ELSE n \div d
Root(n) == CHOOSE r \in 0..n : r * r <= n /\ n < (r + 1) * (r + 1)
Total(S, value(_)) == MapThenSumSet(value, S)
SumOfSeq(s) == Total(DOMAIN s, LAMBDA i : s[i])
LastOf(s) == s[Len(s)]
InOrder(S, before(_, _)) ==
    [i \in 1..Cardinality(S) |->
        CHOOSE x \in S : Cardinality({y \in S : before(y, x)}) = i - 1]
LatestOf(s, n) == SubSeq(s, Len(s) - n + 1, Len(s))

-----------------------------------------------------------------------------
(* One provider read                                                         *)

(* What an adapter makes of a payload: the data with their timestamp, which  *)
(* may be the instant they were fetched at, or the schema error that the     *)
(* provider manager turns into unavailability.                               *)
Normalized(data, source) ==
    [ok |-> TRUE, data |-> data, source |-> source, atFetch |-> FALSE, warnings |-> {}]
NormalizedAtFetch(data) == [Normalized(data, None) EXCEPT !.atFetch = TRUE]
WithWarning(norm, said, warning) ==
    IF said THEN [norm EXCEPT !.warnings = @ \cup {warning}] ELSE norm
SchemaError == [ok |-> FALSE]

(* The metadata of a response: fresh from the provider, or from the cache    *)
(* with the staleness of its observation as of now.                          *)
MetaOf(component, norm, status, fetched, delayed) ==
    LET source == IF norm.atFetch THEN fetched ELSE norm.source
    IN  [component |-> component,
         status    |-> status,
         freshness |-> CASE status = HIT   -> "cached"
                         [] status = STALE -> "stale"
                         [] OTHER          -> IF delayed THEN "delayed" ELSE "live",
         source    |-> source,
         fetched   |-> fetched,
         staleness |-> Clamp(Now - (IF source = None THEN fetched ELSE source), 0, Now),
         partial   |-> norm.warnings # {},
         warnings  |-> norm.warnings
                         \cup (CASE status = STALE  -> {"stale_cache_fallback", "refresh_failed"}
                                 [] status = BYPASS -> {"cache_write_bypassed"}
                                 [] OTHER           -> {})]

-----------------------------------------------------------------------------
(* Several reads                                                             *)

(* Fault: one fresh read makes the rest fresh.                               *)
StatusFreshest(metas) ==
    LET statuses == {m.status : m \in metas}
    IN  IF MISS \in statuses THEN MISS
        ELSE IF BYPASS \in statuses THEN BYPASS
        ELSE IF STALE \in statuses THEN STALE ELSE HIT

(* The worst status of several reads.                                        *)
StatusOf(metas) ==
    LET statuses == {m.status : m \in metas}
    IN  IF STALE \in statuses THEN STALE
        ELSE IF BYPASS \in statuses THEN BYPASS
        ELSE IF MISS \in statuses THEN MISS ELSE HIT

(* Faults: the parts that are missing are not counted; a part's own warning  *)
(* is shown but does not count.                                              *)
AggregateOfShown(metas, missing, status, freshness) ==
    LET stamps == {m.source : m \in metas} \ {None}
    IN  [source    |-> IF stamps = {} THEN None ELSE Min(stamps),
         fetched   |-> Max({m.fetched : m \in metas}),
         status    |-> status,
         freshness |-> freshness,
         staleness |-> Max({m.staleness : m \in metas}),
         partial   |-> \E m \in metas : m.partial,
         warnings  |-> UNION {m.warnings : m \in metas}]
AggregateMissingOnly(metas, missing, status, freshness) ==
    [AggregateOfShown(metas, missing, status, freshness) EXCEPT !.partial = missing # {}]

(* The aggregate of the metadata of the reads that answered.  How its        *)
(* freshness follows from theirs is the service's own rule.                  *)
Aggregate(metas, missing, status, freshness) ==
    LET stamps == {m.source : m \in metas} \ {None}
    IN  [source    |-> IF stamps = {} THEN None ELSE Min(stamps),
         fetched   |-> Max({m.fetched : m \in metas}),
         status    |-> status,
         freshness |-> freshness,
         staleness |-> Max({m.staleness : m \in metas}),
         partial   |-> missing # {} \/ \E m \in metas : m.partial,
         warnings  |-> missing \cup UNION {m.warnings : m \in metas}]

(* Where a provider may be delayed, an aggregate is as fresh as its most     *)
(* delayed part.                                                             *)
DelayedFreshness(metas) ==
    CASE StatusOf(metas) = STALE -> "stale"
      [] StatusOf(metas) = HIT   -> "cached"
      [] OTHER -> IF \E m \in metas : m.freshness = "delayed" THEN "delayed" ELSE "live"

(* Stale input costs confidence.                                             *)
FreshnessConfidence(meta) == IF meta.freshness = "stale" THEN 6000 ELSE 10000

-----------------------------------------------------------------------------
(* The risk score                                                            *)

LabelOf(overall) ==
    IF overall = 10000 THEN "severe"
    ELSE <<"low", "moderate", "high", "severe">>[1 + overall \div 2500]

(* Fault: the weights of missing scores are left out without renormalising.  *)
WeightedRiskOfAll(scores, base, freshness) ==
    LET available == SumFunctionOnSet(base, DOMAIN scores)
        overall   == SumFunction([n \in DOMAIN scores |-> scores[n] * base[n]]) \div 100
    IN  [overall    |-> overall,
         label      |-> LabelOf(overall),
         scores     |-> scores,
         missing    |-> DOMAIN base \ DOMAIN scores,
         confidence |-> (available * freshness) \div 100]

(* The scores there are, weighted with their share of the base weights       *)
(* (percent) of those there are; coverage and freshness are the confidence.  *)
WeightedRisk(scores, base, freshness) ==
    LET available == SumFunctionOnSet(base, DOMAIN scores)
        weighted  == SumFunction([n \in DOMAIN scores |-> scores[n] * base[n]])
        overall   == Clamp(weighted \div available, 0, 10000)
    IN  [overall    |-> overall,
         label      |-> LabelOf(overall),
         scores     |-> scores,
         missing    |-> DOMAIN base \ DOMAIN scores,
         confidence |-> (available * freshness) \div 100]
=============================================================================
