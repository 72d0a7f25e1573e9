# Verification of the AI Investment Research Copilot

TLA+ models of the backend (`backend/app`) and of the parts of the frontend that keep
state, model-checked with TLC on small instances, with theorems checked by TLAPS for
every value of the constants.  Paths below are relative to the repository; line numbers
are of the commit beside which this project is kept.

## 1. The system

The backend is a FastAPI application, one asyncio event loop per process, several
processes on one Redis and one PostgreSQL.  A Streamlit frontend calls it.  A
research request gathers several cached reads of external providers (Binance,
CoinGecko, SEC, PSX) and turns them into figures; accounts, sessions and private
uploads live in PostgreSQL.

| Component | State | Operations | What makes it hard | What makes it correct |
| --- | --- | --- | --- | --- |
| Circuit breaker (`providers/circuit_breaker.py`) | state, consecutive failures, opened-at, probe permit | `allow_request`, `record_success`, `record_failure`, `cancel_request` | late answers of requests admitted in an earlier state | one probe at a time; trips exactly at the threshold; always recovers |
| Provider quota (`providers/quota.py`) | used weight and start of each window | `reserve`, `reconcile_used_weight` | several windows at once, a reserve for interactive work, stale usage headers | nothing sent exceeds a window; all windows are charged or none |
| Provider refresh (`providers/manager.py` `_refresh`, `http_client.py`) | the attempts, deadline and sleep of each refresh | admission, attempts, retries with backoff or Retry-After, classification of the outcome | other refreshes run at every await; aborts | every refresh ends; what it took from breaker and quota is accounted for |
| Provider fetch (`providers/manager.py` `fetch`, `cache/redis_cache.py`) | the Redis entry with soft and hard expiry, the Redis lock with token and lifetime, the local lock of each process | reads, purge, lock, poll, refresh, write, release | several processes; Redis commands that fail before or after their effect; locks that expire | single flight; stale rather than an error; every fetch is answered |
| Identity and sessions (`services/identity_service.py`, `repositories/identity_repository.py`) | user row, one row per refresh token, audit rows | registration to logout, reset, administration | READ COMMITTED transactions that wait for row locks; statements that see a snapshot; rollbacks | no session outlives a reset or an admin change; one valid token per family; replay ends the family |
| Rate limiting (`core/rate_limits.py`, middleware) | Redis counters, a local fallback table | `check` | Redis that comes and goes, or counts and does not say so; a full table | no span of a window sees more than twice the limit in a store; a refusal has its cause |
| Private stock uploads (`services/stock_upload_service.py`, `repositories/stock_repository.py`) | uploads and rows of each owner, expiry | upload, list, delete, purge | duplicates and limits under concurrent transactions | limits hold; a content is stored once; a recorded deletion is final; each change looks like one step |
| Adapters (`providers/binance_spot.py`, `binance_futures.py`, `coingecko.py`, `sec.py`, `stock_fundamentals.py`, `stocks.py`) | none; the manifest is loaded at start | normalise a payload | payloads that are reordered, misaligned, repeated, of another asset | what passes is of the asset, ordered and coherent; the manifest shows reviewed facts only |
| Analytics (`analytics/*.py`) | none | indicators, order book, trades, anomalies, ratios, risk | parts that are missing | a score is a mean of the components there are |
| Research services (`services/*_service.py`) | the reads of a request in flight | stages of gathered reads, aggregate metadata, pages | some reads fail, are stale, or come in any order | a page does not look fresher or more complete than its parts, names what it lacks, and is always answered |
| Database and health (`database/manager.py`, `api/health_routes.py`) | one shared probe task | `ping`, readiness | overlapping questions, a probe that hangs | "ready" is the result of a probe that ended after the question |
| Frontend (`frontend/app.py`, `client.py`, `state.py`) | session state of a page: token pair, uploads shown, private history, error | sign in and out, list, open, delete, upload; the state a page of results calls itself | replies that are refused or lost, access tokens that age, runs that die, users that change | private data belong to who is signed in; no token is replayed without a loss |
| HTTP routes, configuration, logging, metrics, scripts | little or none | routing, display | data rather than order of events | unit tests; see "Not modelled" |

How they interact: a service calls `ProviderManager.fetch` for each component; a
fetch reads Redis, queues on the local lock of its process, asks for the Redis lock,
and calls `_refresh`, which asks the breaker, reserves the budget and sends attempts
through the HTTP client; every retry calls back into the quota.  Identity and uploads
call PostgreSQL through one `AsyncSession` per request, which is one transaction.  The
page of the frontend holds a token pair of one family and calls the API one request after
the other; the rate limiter stands before every call.

## 2. Modules

| Module | Models | State and actions |
| --- | --- | --- |
| `CircuitBreaker` | `CircuitBreaker` | a record `[state, failures, age, probe]` and its operations as operators on it; `age` is the time since it opened, capped at the recovery timeout |
| `ProviderQuota` | `ProviderQuotaManager` | `windows[w] = [used, age]`, `CanReserve`, `Reserve`, `ReconcileUsedWeight`; a window that ran out counts as empty when it is next used, as in the code |
| `ProviderRefresh` | `_refresh` over `ProviderHttpClient.request` | composes the two above; `call[c]` is a refresh at one of its two awaits ("sending", "backoff"); `spent` is a history of what was really sent |
| `RefreshContract` | what the refreshes of a provider promise together | `refresh[c]` (time left, requests sent), `streak` of failures, `quiet` (how long the provider is left alone): `Start`, `Resend`, `Succeed`, `Fail`, `Drop`; no circuit, no budget, no backoff |
| `ProviderFetch` | `fetch` with the cache and both locks | `entry`, `lock`, `queue[p]` (the asyncio.Lock of process p: holder, then waiters in order), `fetch[c]` with one place per await; `needless` is a history |
| `IdentitySessions` | the account of one user and its sessions | `user`, `session[s]`, `txn[t]`: a transaction with its row locks, the rows its UPDATE has still to look at, and what its commit will do |
| `StockUploads` | the private uploads of one owner | `upload[u]`, `owner` (who has the owner's row locked), `txn[t]`: an upload or a deletion with the rows it has deleted and not committed (`hidden`); `recorded` are the audit records of deletions |
| `UploadLedger` | what `StockUploads` promises an owner | the table of uploads and the records, every change one step: `Store` (with what it purges), `Remove`, `Expire` |
| `ResearchMeta` | metadata of a read and of several, weighted risk | operators; shared by the next seven |
| `Indicators` | RSI, EMA, MACD histogram, drawdown | operators |
| `SpotResearch`, `FuturesResearch`, `CryptoResearch` | one provider each: adapters, analytics, service | `...Normalize` (what a payload becomes), the signals and scores, `...Parts` and `...Answer` (the reads of an operation and what it makes of them) |
| `Fundamentals` | SEC adapters, periods from XBRL facts, ratios, fundamental risk | operators |
| `ReportManifest` | the manifest of official reports and what is served from it | operators |
| `StockResearch` | the stock service over a licensed provider and both sources of fundamentals | composes the two above; a deployment says which it has |
| `Research` | a request of any of the four services | `request`, `reads[c]` (waiting, lost, or the payload and cache status), `reply`; `Ask`, `Read` (a stage of gathered reads), `Complete`, `Answer`, `Close` |
| `RateLimiter` | `FixedWindowRateLimiter` over Redis and the table | `remote`, `local` (windows), `redis` (whether it answers); `counted`, `passed`, `told` (the wait a client was told last, and whether it had waited before) are histories |
| `HealthProbe` | `DatabaseManager.ping`, readiness | `probe`, `asker[a]`; `heard` is a history |
| `PageSession` | the private part of the stock page | `held` (token pair), `uploads`, `payload`, `error`, `call` (the one the script makes), and of the server the `family` |
| `Deployment` | `HealthProbe` and `PageSession` over one database | the interleaving of both with `DatabaseChanges` |
| `MC...` | | small instances for TLC |
| `ProviderRefresh_proofs`, `ProviderFetch_proofs`, `IdentitySessions_proofs`, `StockUploads_proofs`, `Deployment_proofs`, `RateLimiter_proofs`, `Research_proofs` | | theorems and proofs |
| `SetInduction` | | lemmas for the last two: induction over naturals and over finite sets, sums over finite sets, orders and enumerations of finite sets |

Operators named "Fault: ..." in a comment are deliberate errors; nothing uses them.
They are kept so that every property can be shown to fail when the code is changed
that way (replace the body of the operator after it by a use of the fault).

**Steps.** In one process everything between two awaits is one step, because the event
loop does not switch there.  In `ProviderFetch` an await of Redis is one step with the
command's effect; a flaky command is carried out or not, and its reply may be lost
either way.  In `IdentitySessions` a step is one SQL statement: `SELECT ... FOR UPDATE`
takes the row and reads what is committed; an UPDATE takes a snapshot ("revoke") and
then locks its rows one after the other, looking at each again ("update"), which is
what PostgreSQL does under READ COMMITTED; flush and commit are one step, which needs a
share of the user row if an audit row refers to it.  A rollback may come at any point:
refused tokens, deadlock victims, command timeouts, lost connections and crashes all
end there, and nothing is left of the transaction.  `StockUploads` is built the same way:
one step per statement of an upload (owner lock, purge, the two counts, insert and commit)
and of a deletion (find, delete, commit with the audit record).  The purge is one step that
waits until none of its rows is being deleted by someone else; taking them one at a time
would only let others wait earlier.  An arriving upload reads the time and looks for a
duplicate in one step, as what expires in between is not its own concern.

In `Research` a read is one step, because what it goes through is `ProviderFetch`; what
matters there is which reads are in flight together, which have answered and which have
failed.  An operation that captures failures (`_capture`) goes on without the part, any
other ends with the first failure while its siblings still run; their results reach only the
cache.  The arithmetic that follows has no await and is one step.  In `RateLimiter` a check
is one step: the limiter's lock is held from the first look at the table to the last, and
the Redis script is atomic; Redis may count an attempt and lose the answer, after which the
table counts it too.  In `PageSession` a call has three steps (the page sends, the server handles it, the
page goes on), because a script run makes its calls one after the other and the server's
work may be done although the reply never comes.

**Time.** Timers are relative ages or countdowns in ticks, capped where nothing tells
an age from a higher one, so no clock variable grows.  `PromptTimeouts`: a tick does
not pass the deadline of an attempt, because `asyncio.timeout` ends it there; in
`ProviderFetch` a refresh is given `Deadline + ReplyMax` ticks from the moment Redis
took the lock.  `RateLimiter` counts instants to the end of a window and keeps the last
`Window` instants of history; several attempts may fall on one instant.  `Research` has the fixed instant `Now`: a payload, a report or an
observation is some time older.

**Data.** A payload is a state (valid, invalid, absent) and an age; weights are small
numbers; a token is the row whose digest it has.  `generation` in `IdentitySessions`,
`spent` in `ProviderRefresh` and `needless` in `ProviderFetch` (the processes that started a
refresh of the entry while it was fresh) are history variables, and `lost` of a refresh (it was
aborted while the circuit was half-open) is a history field: the code keeps no such thing, the
properties need it.  The wait a client is told is what the code tells it: of the table the
instants its window has left; of Redis its TTL, which Redis rounds to the nearest whole unit, so
that it may be one short or one long, and never less than one (`Ttl`;
`redis_cache.py:363-376`).

## 3. What the runs check

| Run | Instance | Properties | Shows |
| --- | --- | --- | --- |
| `refresh` | three refreshes, threshold 2, two attempts, deadline 2, recovery 3; windows of 2 and 3 units with lengths 1 and 3, a reserve, usage headers 0 and 3; one refresh may end in an unhandled exception | `TypeOK`, `SingleProbe`, `TripsAtThreshold`, `BudgetKept`, `ImplementsContract`, `ChargedTogether`, `RefreshEnds`, `RecoversUnlessLost` | with any order of answers, retries, refusals and aborts a half-open circuit lets one refresh at a time reach the provider, and it opens exactly at its threshold; retries included, no window is overdrawn, and a reservation moves all windows or none; together the refreshes keep `RefreshContract`; every refresh ends, and the circuit becomes ready again unless it lost its permit to a probe that was aborted |
| `refresh_open_retry` (violated) | two refreshes, one wide window | `StopsCalling` | finding 4 |
| `refresh_probe_lost` (violated) | two refreshes that may end in an unhandled exception | `Recovers` | finding 1 |
| `fetch` | three callers, two of them in one process whose Redis answers, one in a process whose Redis commands and replies may fail; lock lifetime 2, lock wait 1, deadline 1; one refresh may end in an unhandled exception | `TypeOK`, `SingleFlight`, `StaleRatherThanError`, `StampedeBounded`, `FetchEnds` | one refresh per process and one under the Redis lock; whoever holds a stale value that may still be used does not answer an error, unless its refresh ended in an exception nobody handles; the process Redis answers starts at most one refresh of a value while it is fresh; every fetch is answered, also behind a caller that failed, a busy Redis lock, and one that was left behind by a lost reply |
| `fetch_past_expiry` (violated) | the same | `NeverPastExpiry` | finding 5 |
| `identity_sessions` | two requests of any kind at a time, three session rows, one account change | `TypeOK`, `ChangesEndSessions`, `RotatedOnce` | no session outlives a reset or an admin change; one unrevoked session per family; one rotation per token |
| `identity_family_survives` (violated) | the same | `FamiliesEnd` | finding 2 |
| `stock_uploads` | two requests at a time, four rows, two assets, contents of one and two candles, limits 3 / 2 / 5 | `TypeOK`, `LimitsHold`, `StoredOnce`, `DeletedIsGone`, `ImplementsLedger` | concurrent uploads stay within all limits; one row per content and asset; a deletion on record is final; whatever is committed is one step of `UploadLedger`, so a purge never outlives the upload it belongs to |
| `research` | every operation of the four services; two to six payloads of each read, cache statuses as below, stock deployments with and without each source and with eight manifests | `TypeOK`, `MissingIsNamed`, `StaleNeverLive`, `ReadyMeansComplete`, `RiskIsWeightedMean`, `OnlyTheAsset`, `SlippageIsBestFill`, `HistoryAligned`, `PeriodsCoherent`, `UnknownIsNotZero`, `RequestEnds` | see below |
| `sec_comparatives` (violated) | one company, a 10-K with a comparative year | `RepeatedFactsHarmless` | finding 3 |
| `rate_limiter` | two clients, limit 2, windows of two instants, a table for one client, three attempts per instant | `TypeOK`, `SpanBudget`, `RefusedForCause` | each store lets through at most twice the limit in any span of a window, so an outage of Redis costs at most the double of that; who is refused has used the limit up or found the table full of others; who waits as the table told it is not refused for its own attempts, and who waits as Redis told it, in whole units that may be one short, at most once in a row |
| `deployment` | two users, two readiness questions, one rotation per family | `TypeOK`, `PrivateIsOwners`, `ReplayOnlyAfterLoss`, `SignedOutIsRevoked`, `ReadyIsRecent` | the page shows only what belongs to who is signed in; it replays a token only after a run that died between a rotation and its reply; a sign-out without an error ended the family; "ready" is the result of a probe that ended after the question came |

**What `research` shows.**  A page of several parts names each part it does not show and
is then partial (`MissingIsNamed`); one stale part, or one futures observation past its
update window, makes the page stale and caps the confidence of a risk that rests on it
(`StaleNeverLive`); a page the frontend calls ready has all its parts, none of them stale or
partial (`ReadyMeansComplete`); the risk lies between the lowest and the highest of the
scores there are, so a missing component moves it neither to zero nor beyond, and costs
confidence (`RiskIsWeightedMean`); no payload of another company or exchange reaches a page
(`OnlyTheAsset`).  Three algorithms are compared with a definition: the purchase on an order
book with the best over all orders of its levels (`SlippageIsBestFill`), the join of three
price series with the pairs the provider sent (`HistoryAligned`), the choice among filings
with the facts of the period (`PeriodsCoherent`).  A value a company did not report is
not taken for zero: a ratio that is shown has all its values, a growth or a return those of an
earlier period of the same kind too, and the risk scores only what it knows, a lost equity as
severe (`UnknownIsNotZero`).  Every request is answered (`RequestEnds`).

**Bounds.** Three refreshes are what a late failure, a late success and a probe need;
two attempts with a deadline of two ticks give every retry decision (too many attempts,
no time left, Retry-After too long), and windows of two units per tick and three per three
ticks let the attempts exhaust the short window, the long one, and the reserve.
`RecoveryTimeout` exceeds `Deadline`, as in the shipped settings.  Three callers in two
processes give a holder, a local waiter and a remote one; one key is enough because keys share
nothing but the breaker and the budget, which are modelled next to it.  `HardTTL` is two ticks,
and a value is stale after one; the lock lives two ticks and a refresh takes at most one, so a
lock expires between any two awaits of an owner that writes or releases.  The process whose
Redis fails leaves locks behind (a lost reply to SET NX) for the callers of the other one to
poll and give up on, which is why one process is flaky and the other is not.
`refresh_open_retry` and `fetch_past_expiry` differ from the passing runs only in what they ask,
the first also in its budget, which never refuses.  Two
transactions at a time are what a lost update or a missed row needs, and three rows hold
a login, a rotation and either a second rotation or a second family; the proofs of the
same properties have no bound.  `MaxChanges` bounds the history variable only:
an account change beyond it is not taken up.

In `StockUploads` each of the three limits is the first to be reached by some uploads
(three rows, two rows of an asset, three long contents), and the fourth row is there to pass it.

In `research` the payloads (`Wires` of `MCResearch`) hold for each adapter an accepted one
and one for each way to be refused that matters here, histories above and below the length
the analytics need, a deep, a thin and a crossed book, series that are misaligned, an
XBRL pool with an amendment and a year-to-date twin of which any subset may come, and
manifests that are published, in draft, without verified evidence, or of another host.  The cache statuses of a read
are all four for Spot and CoinGecko, and for futures and stocks those in `MCStatuses`, chosen so that each aggregate
rule meets each of its cases; a status says nothing about the payload, so the cut loses
combinations and no case.  Requests do not interact there: their only shared state is the
cache, which is `ProviderFetch`.

In `rate_limiter` the third attempt of an instant passes the limit of two, windows of two
instants can start at either, and a table for one is full when the other client comes.
`MaxTries` bounds the history only.  In `deployment` one rotation (`MaxRotations`) gives an old and a new
token of a family; a second adds another old one.  A family that has used up its rotations
cannot refresh any more, only be refused.

**Symmetry.** `identity_sessions` permutes requests and rows, `stock_uploads` assets too,
`rate_limiter` clients, `deployment` users and askers; the modules treat them alike and never
compare them, and no liveness is checked there (`ImplementsLedger` and `SignedOutIsRevoked`
are about single steps).

**Fairness.** `ProviderRefresh` and `ProviderFetch`: weak fairness of the clock and of
each refresh's or caller's next step.  asyncio resumes every task whose await is done, each
HTTP attempt is under `asyncio.timeout`, a sleep ends, and a Redis command has a socket
timeout.  Nothing forces a client to send a request.  `IdentitySessions`: a transaction goes
on or is rolled back, since PostgreSQL breaks deadlocks and
`database_command_timeout_seconds` cuts a statement off; only the
violated run uses it.  `Research`: each read in flight ends, which is `FetchEnds` of
`ProviderFetch`, and the service goes on when it can; the third conjunct of its `FairSpec`
is weak fairness of `Answer` written out, so that TLC does not compute an answer to see
whether there is one.

No run turns the deadlock check off.

## 4. Findings

1. *A lost probe keeps the circuit closed to everyone* (`manager.py:252`).  A probe that
   ends in an exception outside `ProviderError` records no outcome and does not give the
   permit back; the circuit then never admits a request again.
2. *A family survives logout of all or a replay* (`identity_service.py:416`, `:297`).  The
   UPDATE waits for a session that is being rotated, passes it over because it is revoked
   by then, and cannot see the session that replaced it.  A reset and an admin change do not have
   this problem: they lock the user first, which a rotation needs before it commits.
3. *A 10-K with a comparative year fails the request* (`sec.py:487`, `:373`).  The
   repeated facts carry the later filing's fiscal year and end one year before it, which the
   filter lets through; two periods of one fiscal year then fail the validation of the snapshot
   (`stock_fundamentals.py:229-234`), and nothing handles the error.
4. *A retry goes out through an open circuit* (`manager.py:220`).  `reserve_retry`, which runs
   before every further attempt, asks the budget and not the breaker, so a refresh that sleeps
   before its retry sends it after others have opened the circuit.
   `docs/data_sources.md:12` asks to "stop calling after a circuit opens",
   `docs/phase_4_provider_framework.md:87` says "Circuit and quota failures happen before
   another outbound call."  `RefreshContract` states what does hold (section 5).
5. *A value is answered after its hard expiry* (`manager.py:136`, `:166`, `:181`).  The expiry is
   compared when a value is read (`redis_cache.py:230`); `fetch` keeps a stale value through
   the lock wait and the refresh and falls back on it without looking again.
   `docs/phase_2_infrastructure.md:72` says "At or after hard expiry: `miss`; the value is not
   returned."  `StaleRatherThanError` asks for the value only while it may be used.

Noticed while modelling, without a run.  Where a document says otherwise:

- the cache is not read again once the Redis lock is held, so a process may refresh a value
  that another has just written (`manager.py:153`; `docs/architecture.md:137`: a distributed
  lock prevents cache stampedes).  A refresh more is not a stampede: `StampedeBounded` says that
  a process Redis answers makes one at most;
- an upload past its retention is deleted by the owner's next upload, without an audit
  record (`stock_upload_service.py:368`; `docs/data_sources.md:30`: "Durable until owner
  deletion", while `docs/privacy.md:8` announces an opportunistic cleanup);
- spot research and risk with fewer than twenty candles end in an internal error
  (`binance_spot_service.py:438`, `:372`), although `binance_spot_routes.py:200` promises one
  partial-tolerant payload.

And where no document or test says otherwise, or because it is outside the models: with a recovery timeout not longer than the deadline
(the settings allow it) two refreshes overlap in a half-open circuit; the settings require
a lock lifetime of at least the deadline, which leaves no time for a late Redis reply; an
exception that `fetch` does not expect skips the stale fallback; an account that was
disabled before its email was verified becomes active by verifying; an administrator who
is being demoted can still demote another one; a deletion that holds an upload and an
upload whose purge wants it wait for each other until PostgreSQL ends one of them; two
deletions of one upload leave two audit records; a company without recent supported filings
passes the adapter with a warning and fails the snapshot; each cache warning of a SEC read
raises the filing risk; a comparison may set a consolidated period beside a standalone one, and
in a manifest with both bases of one year the two are compared with each other (no manifest of
the instance has both); when
no risk component is known the stock and crypto risks raise; the staleness of the symbols
read does not show in a spot page; reads that a failed gather leaves behind run on; the
client of the page knows timeouts and connection errors only (`client.py:159`), so another
transport error ends the run with the old token kept, and its next refresh counts as a
replay; a refresh refused by the rate limiter signs the page out while its family lives; an
upload whose following list fails is reported as failed although it is stored.

## 5. What is proved

All proofs are for any number of refreshes, callers, processes, requests, rows, accounts,
rotations, questions, clients, reads, payloads, levels, points and facts, and any values of the
constants under the named assumptions of the modules.  Every safety invariant and every action
property of a passing run is a theorem, except `UnknownIsNotZero`.  `ShownIsReviewed`, the gate
of the manifest (fundamentals are shown only of an approved and reviewed company, for PSX each
value with verified evidence in a report of an allowed host), is proved for every manifest and
has no run.

| Theorem | States | Beyond the module's assumptions |
| --- | --- | --- |
| `ProviderRefresh_proofs!TypeCorrect` | `[]TypeOK` | |
| `ThresholdHolds` | `[]TripsAtThreshold` | |
| `SingleProbeHolds` | `[]SingleProbe` | `RecoveryTimeout > Deadline` |
| `ContractImplemented` | `ImplementsContract`, the refinement | `RecoveryTimeout > Deadline` |
| `BudgetHolds`, `BudgetKeptHolds` | `[]BudgetInv`, `[]BudgetKept` | |
| `ChargedTogetherHolds` | `ChargedTogether`, an action property | |
| `ProviderFetch_proofs!TypeCorrect` | `[]TypeOK`, the local lock included | |
| `SingleFlightHolds` | `[]SingleFlight` | `LockTTL > Deadline + ReplyMax` |
| `StaleRatherThanErrorHolds` | `[]StaleRatherThanError` | |
| `StampedeBoundedHolds` | `StampedeBounded`, an action property | |
| `IdentitySessions_proofs!TypeCorrect` | `[]TypeOK`, row locks included | |
| `ChangesEndSessionsHolds` | `[]ChangesEndSessions` | |
| `RotatedOnceHolds` | `[]RotatedOnce` | |
| `StockUploads_proofs!TypeCorrect` | `[]TypeOK`, row and owner locks included | |
| `LimitsAlwaysHold` | `[]LimitsHold`, all three limits | |
| `StoredOnceHolds` | `[]StoredOnce` | |
| `DeletedIsGoneHolds` | `[]DeletedIsGone` | |
| `LedgerImplemented` | `ImplementsLedger`, the refinement | |
| `Deployment_proofs!TypeCorrect` | `[]TypeOK` | |
| `PrivateIsOwnersHolds` | `[]PrivateIsOwners` | |
| `ReplayOnlyAfterLossHolds` | `[]ReplayOnlyAfterLoss` | |
| `ReadyIsRecentHolds` | `[]ReadyIsRecent` | |
| `SignedOutIsRevokedHolds` | `SignedOutIsRevoked`, an action property | |
| `RateLimiter_proofs!TypeCorrect` | `[]TypeOK` | |
| `SpanBudgetHolds` | `[]SpanBudget` | |
| `RefusedForCauseHolds` | `[]RefusedForCause` | |
| `Research_proofs!TypeCorrect` | `[]TypeOK` | |
| `MissingIsNamedHolds`, `StaleNeverLiveHolds`, `ReadyMeansCompleteHolds` | `[]MissingIsNamed`, `[]StaleNeverLive`, `[]ReadyMeansComplete` | |
| `OnlyTheAssetHolds`, `ShownIsReviewedHolds` | `[]OnlyTheAsset`, `[]ShownIsReviewed` | |
| `RiskIsWeightedMeanHolds` | `[]RiskIsWeightedMean` | |
| `HistoryAlignedHolds` | `[]HistoryAligned` | |
| `PeriodsCoherentHolds` | `[]PeriodsCoherent` | |
| `SlippageIsBestFillHolds` | `[]SlippageIsBestFill` | |

*SingleProbe* is not inductive: a refresh that was admitted before the circuit opened may
still be out.  `ProbeInv` adds that while the circuit is open the time since it
opened and the time left to each refresh add up to at most the deadline, so none is left
when the recovery timeout is over; the assumption is needed exactly there.

*ContractImplemented* maps the circuit to the failures it has counted, up to the threshold, and to
the time it stays open; half-open is a streak that is not over.  A sleep, a refused request and
a request that is not built are steps the contract does not see.  The guard of `Start`, that
a provider in trouble is tried by one refresh at a time, is `ProbeAlone`, and with it
`ProbeInv`; that "not closed" is the same as a full streak is `TripsAtThreshold`
(`BreakerAsSeen` goes through the operations); and that a sleeping refresh may send again is
`AllCounted`.  What the contract allows is as telling: `Resend` has no guard on the pause, so a
retry may go out after others have opened the circuit, but it is over before the next probe
(section 4), and a late success ends the pause.

*BudgetKept* needs `BudgetInv`: a window that ran out has counted nothing since, so that
starting it anew forgets nothing that was sent.

*SingleFlight* rests on two locks.  `LocalLock`: whoever is past the local lock heads the
queue of its process; it is also what makes the pop of the queue well typed.  `RedisLock`: who refreshes under the Redis lock still has it, because the age of the
lock and the time left add up to at most `Deadline + ReplyMax`.

*StaleRatherThanError* follows from `AllCandid`, which looks at callers that still run as well
as at those that have answered: a caller has a result only on its way out, where it reads the
cache no more, so what it saw when it settled the result is all it will have seen.

*StampedeBounded* does not say that a fresh value is never refreshed: a caller of one process
may take the Redis lock just after another process has written and released.  It says that a
process Redis answers does so once in a spell of freshness.  `OnceInv`: once it has, none of
its callers is on the way to the lock, because the one that refreshes holds the local lock,
and each that follows reads the cache first and finds the value fresh; a purge or the end of
freshness, after which a refresh is due, ends the spell.  A process whose Redis fails cannot
read, and refreshes for each caller.

*ChangesEndSessions* and *RotatedOnce* share the invariant `IInv` of
`IdentitySessions_proofs`.  `Kept` says what a transaction may rely on between its first
lock and its commit: the rows it is to revoke are still unrevoked, the session it rotates
and the account it read are as they were, and, for a reset or an admin change, every
unrevoked session is among those still to be looked at or already taken.  The last part
is where the lock on the user is needed: nothing can be inserted while it is held.
`Families` says that a family is named by an issued session and that a parent is revoked.
`QuietStep` carries all steps that change only what one transaction holds, `OthersKept`
the effect of a commit on the others.

*LimitsHold* needs to know what an upload may rely on between its counts and its commit
(`Kept` in `StockUploads_proofs`): there is still room for it among the rows it has not
deleted itself.  Others cannot insert, because only the holder of the owner's lock does
(part of `TypeOK`), and what they delete only adds room (`KeptWhenFewer`).  The candles of a
set of rows are a set of pairs, so the row budget is a cardinality like the other two and
follows from the library's facts about finite sets, without induction.  *DeletedIsGone*
rests on the last two parts of `Kept`: a deletion that is to be recorded either has its row
locked or the row is already gone, and ids are not used twice.

*LedgerImplemented* maps the committed table and the records to themselves and hides locks
and open transactions.  A step of the detailed module is an `Insert`, a `Record` or an
`Expire`, which are steps of the ledger, or leaves the table alone.  Two things do not follow
from `IInv`: what an upload takes away had expired (`AllEntitled`: the rows a request has
deleted and not committed are expired or gone, for an upload, and its own target, for a
deletion), and an expired row stays so until it goes (`RowsAge`).  That the limits hold after
a `Store` is `LimitsHold` of the next state (`WithinIsAllowed`).

The theorems of `Deployment_proofs` share an `IInv` that is `HealthInv` for the readiness and
`PageInv` for the page; the two have no variable in common but `database`, of which neither
says more than its type, so that each client keeps its own part and `Framed` does the rest.
`PageInv` says what a call may rely on until its reply has been dealt with (`Kept`): a login
runs only without a session, so that there is nothing to show to the wrong user when its reply
comes; all else runs for the user of the session; a family whose logout was answered is dead.
`TokenCurrent` is the part *ReplayOnlyAfterLoss* needs: the page holds the valid token, except
while the answer to its rotation is on the way or after one was dropped.

*SpanBudget* and *RefusedForCause* are about sums over the last instants.  `CellOk` ties
the counter of a window, for one client and one store, to the history: what the counter says
is the sum since the window opened, what was let through since then is within the limit, and
what was let through in the last `Window` instants is within the limit besides.  When a window
closes its part takes the place of the latter, because the last `Window` instants then reach
back no further than that window.  The lemmas before it say what an attempt and an instant do
to a sum; `SumsOf` gives the recursion that the sums are defined by, and needs that it has a
solution (`PrefixSumsExist`).  What a refusal of a client that waited means is `ToldOk`: the
table's window ends no later than the wait it told; Redis's may run one instant longer, but who
had waited as told before is told the last instant exactly, because a wait is never told as none.

The theorems of `Research_proofs` share an `IInv` that is small: each read is in flight, was
lost in an operation that goes on without it, or has what the adapter makes of some payload;
and an answer is the one of the reads as they are when nothing is awaited, wanted or unknown any
more.  It is inductive because reads that a failed sibling leaves behind no longer count
(`Awaited`).  From there on the work is about what an answer is, service by service: `Told`
collects what a page says of its parts (`SpotTold` to `StockTold`), and *MissingIsNamed*,
*StaleNeverLive* and *ReadyMeansComplete* follow from it.

*RiskIsWeightedMean* is a fact about sums: a sum of scores times weights lies between the lowest
and the highest score times the sum of the weights (`SumBetween`), and so does the quotient
(`QuotientBetween`).  The rest is that each service weighs what it scored, that the scores are
from 0 to 10000 and the weights positive (`SpotRated` to `StockRated`).

*HistoryAligned* and *PeriodsCoherent* rest on orders of finite sets.  The elements of an
ordered set can be counted off by the number of those before them (`RanksFill`, `RanksList`), which is
how the models sort; the points of a history are therefore in the order of time, and each value
is one the payload has for that instant.  Among finitely many facts or filings one is
superseded by none (`LastExists`), so a period has a best fact of each metric and the filing
that anchors it is no later than the one it is told from; that all facts of one filing have one
day makes "later" mean the same for both.

*SlippageIsBestFill* says that buying the cheapest level first is best.  It is proved by
weighing every purchase against a price: whatever the order, what is bought is worth at that
price no more than what was spent and what the cheaper levels save (`OrderBuys`); in the order of
the prices this bound is exact as long as the levels are bought up, and is missed by less than one
unit at the price where the money ends (`SortedBuys`).  The levels that are left after that are
not cheaper, so this price decides.  That a purchase follows its levels one by one
(`FillTrails`) unfolds the library's fold, as `SumPeels` does for sums.

*Induction.*  The library's induction theorems take an operator, which the provers cannot
instantiate.  `SetInduction` proves the principle for sets instead: a set of naturals with 0 and
every successor has all of them (`NatSetInduction`, from the pigeonhole principle of the library),
and a statement to be proved is the set of the numbers for which it holds.

*Assumptions.*  They are named, stand in the modules that declare the constants, and TLC
evaluates them in the runs.  Those the proofs of this section use beside ranges of settings:

- `LimiterAssumption`: a window is not the value that stands for none.
- `RequestAssumption`, `ReadAssumption`: a request is of an operation of its service, the
  operation's reads have payloads, and what a read gives is neither of the two markers.
- `NumbersAssumption`: what the analytics of an accepted payload compute is a number or unknown;
  the code's are floats and decimals that pydantic has validated.
- `WireAssumption`: the fields of an accepted payload that the algorithms read have their types,
  which the wire models of the adapters enforce; and the facts of one accession number have one
  filing date.  The last is not enforced by the code: an accession number is one submission to
  the SEC, and a company's facts repeat its date with each fact.
- `NotionalAssumption`: there is an amount to spend (`analytics/binance_spot.py:238`).

Only model-checked: liveness (`RefreshEnds`, `RecoversUnlessLost`, `FetchEnds`, `RequestEnds`),
which is beyond the prover with fairness and ENABLED, and `UnknownIsNotZero`, whose proof would
go through the sorting and the map of `calculate_financial_ratios` once more.  No module declares a RECURSIVE operator.

## 6. Not modelled

*Data the models abstract.*  A payload field of the wrong type is `Malformed`; names,
texts, URLs and currencies are left out.  Decimals are integers in the unit the module names,
and a quotient is truncated where the code rounds its fourth or sixth decimal; no property
depends on the difference.  Annualised volatility and logarithmic change are
parameters (`Volatility`, `LogChange`), for which the instance takes simple functions; the
averages, ATR and explanations that are only displayed are left out.

*Assumptions.*  `RateLimiter`: Redis keeps its counts while it does not answer, and clocks of
the process and of Redis advance together.  `FuturesResearch`: a history is
compared with the clock when it is used, not when it was cached, which only tells apart histories
that were of the future then; the cached ones of the instance are old enough.  `PageSession`: the server handles a call before the page goes on
or not at all, and Streamlit does not interrupt a run between two assignments of the session state.  `HealthProbe`: the
probe's connection has the timeouts of the settings, so a silent database ends it sooner or later, but
nothing relies on it.

*Left out.*  HTTP routing, validation of parameters, headers, logging, metrics and
configuration only read or only write; the ordering rules between settings
(`core/config.py:414-434`) are the modules' assumptions.  Migrations and backup scripts run by
hand.  Of identity: `update_profile` and the lists, which no session depends on; two
registrations of one address, which the unique column decides; several administrators.  Of the
SEC provider: its two semaphores, which only order its reads.  Of the frontend: the
display of results and the research brief.

## 7. Plan

Done: the modules of section 2.  Left, most important first:

1. `AdminAccounts`: two administrators who change each other's role with a principal read
   before the lock.
2. The SEC semaphores as an extension of `ProviderFetch` with several keys.
