--------------------------- MODULE ProviderRefresh ---------------------------
(***************************************************************************)
(* Refreshes of one provider in one process: ProviderManager._refresh over *)
(* ProviderHttpClient.request, sharing a circuit breaker and a budget.     *)
(*                                                                         *)
(* The process is one event loop, so the code between two awaits is one    *)
(* step.  A refresh awaits in two places: while an attempt is on the wire  *)
(* ("sending") and while it sleeps before the next one ("backoff").  What  *)
(* comes before the first await (allow_request, reserve, build_request,    *)
(* the allowlist) is one step, and so is everything from an answer to the  *)
(* next await or to the end of the refresh.                                *)
(*                                                                         *)
(* Timers are relative: "left" counts down to the refresh's deadline, and  *)
(* "wait" to the end of its sleep.  A tick does not pass a deadline:       *)
(* asyncio.timeout ends the attempt there (PromptTimeouts in the README).  *)
(***************************************************************************)
EXTENDS CircuitBreaker, ProviderQuota, FiniteSets

CONSTANTS Calls,          \* refreshes that may run at the same time
          Weights,        \* request weights in use
          MaxAttempts,    \* attempts of one refresh
          Deadline,       \* ticks from the first attempt to the deadline
          Delays,         \* jittered backoff delays, in ticks
          RetryAfters,    \* Retry-After values a 429 may carry, in ticks
          RetryAfterMax,  \* the longest Retry-After the client waits for
          Reported,       \* usage values the provider's header may carry
          Unhandled       \* refreshes that may end in an unhandled exception

ASSUME RefreshAssumption ==
    /\ Weights \subseteq Nat \ {0}
    /\ MaxAttempts \in Nat \ {0}
    /\ Deadline \in Nat \ {0}
    /\ Delays \subseteq Nat
    /\ RetryAfters \subseteq Nat
    /\ RetryAfterMax \in Nat
    /\ Reported \subseteq Nat
    /\ Unhandled \subseteq Calls

VARIABLES breaker,   \* the provider's circuit breaker
          windows,   \* its budget windows
          call,      \* call[c]: where refresh c stands
          spent      \* history: spent[w][k], weight sent in window w for kind k

vars == <<breaker, windows, call, spent>>

Idle == [pc |-> "idle", kind |-> INTERACTIVE, weight |-> 0,
         attempt |-> 0, left |-> 0, wait |-> 0, lost |-> FALSE]

Call == [pc      : {"idle", "sending", "backoff"},
         kind    : Kinds,
         weight  : Nat,
         attempt : 0..MaxAttempts,
         left    : 0..Deadline,
         wait    : Nat,
         lost    : BOOLEAN]   \* history: it was aborted as the probe, unrecorded

InFlight == {c \in Calls : call[c].pc # "idle"}

TypeOK ==
    /\ breaker \in Breaker
    /\ windows \in [Windows -> Window]
    /\ call \in [Calls -> Call]
    /\ spent \in [Windows -> [Kinds -> Nat]]

Init ==
    /\ breaker = NewBreaker
    /\ windows = NoWindows
    /\ call = [c \in Calls |-> Idle]
    /\ spent = [w \in Windows |-> [k \in Kinds |-> 0]]

-----------------------------------------------------------------------------
(* The history of what went upstream: it is kept beside the code's count,    *)
(* so that the two can be compared.                                          *)
Charge(weight, kind) ==
    spent' = [w \in Windows |-> [spent[w] EXCEPT ![kind] = @ + weight]]

Over(lost) == [Idle EXCEPT !.lost = lost]

End(c, lost) == call' = [call EXCEPT ![c] = Over(lost)]

(* circuit open: allow_request raises before anything is reserved.           *)
RejectedByCircuit(c) ==
    /\ call[c].pc = "idle"
    /\ ~Admits(breaker)
    /\ UNCHANGED vars

(* Fault: the windows that had room are charged before one refuses.          *)
ChargeThenReject(c, kind, weight) ==
    /\ call[c].pc = "idle"
    /\ Admits(breaker)
    /\ ~CanReserve(windows, weight, kind)
    /\ windows' = [w \in Windows |->
          LET now == Current(windows, w)
          IN  IF now.used + weight <= EffectiveLimit(w, kind)
              THEN [now EXCEPT !.used = @ + weight] ELSE windows[w]]
    /\ breaker' = CancelRequest(AllowRequest(breaker))
    /\ UNCHANGED <<call, spent>>

(* the budget is exhausted: nothing is charged, and the permit is released.  *)
RejectedByQuota(c, kind, weight) ==
    /\ call[c].pc = "idle"
    /\ Admits(breaker)
    /\ ~CanReserve(windows, weight, kind)
    /\ breaker' = CancelRequest(AllowRequest(breaker))
    /\ UNCHANGED <<windows, call, spent>>

(* build_request or the destination allowlist fails: the weight stays        *)
(* reserved, nothing is sent and the permit is released.                     *)
NotBuilt(c, kind, weight) ==
    /\ call[c].pc = "idle"
    /\ Admits(breaker)
    /\ CanReserve(windows, weight, kind)
    /\ windows' = Reserve(windows, weight)
    /\ breaker' = CancelRequest(AllowRequest(breaker))
    /\ UNCHANGED <<call, spent>>

(* the first attempt goes out.                                               *)
Start(c, kind, weight) ==
    /\ call[c].pc = "idle"
    /\ Admits(breaker)
    /\ CanReserve(windows, weight, kind)
    /\ breaker' = AllowRequest(breaker)
    /\ windows' = Reserve(windows, weight)
    /\ Charge(weight, kind)
    /\ call' = [call EXCEPT ![c] =
                   [pc |-> "sending", kind |-> kind, weight |-> weight,
                    attempt |-> 1, left |-> Deadline, wait |-> 0, lost |-> FALSE]]

(* An answer may carry a usage header.                                       *)
CountHeader ==
    \/ UNCHANGED windows
    \/ \E reported \in Reported : windows' = ReconcileUsedWeight(windows, reported)

(* a usable answer: its usage header, if any, is counted and the circuit     *)
(* closes.                                                                   *)
Succeed(c) ==
    /\ call[c].pc = "sending"
    /\ CountHeader
    /\ breaker' = RecordSuccess(breaker)
    /\ End(c, FALSE)
    /\ UNCHANGED spent

(* a final failure: a status that is not retried, an oversized or unreadable *)
(* body, or a payload that the adapter cannot normalize, its usage header    *)
(* already counted.                                                          *)
Reject(c) ==
    /\ call[c].pc = "sending"
    /\ CountHeader
    /\ breaker' = RecordFailure(breaker)
    /\ End(c, FALSE)
    /\ UNCHANGED spent

(* Fault: a retry is planned after the last attempt.                         *)
RetryBeyondAttempts(c, delay) == delay < call[c].left

(* Fault: a retry is planned without looking at the deadline.                *)
RetryRegardless(c, delay) == call[c].attempt < MaxAttempts

(* _retry_transport and _retry_after_rate_limit sleep only for a delay that  *)
(* ends before the deadline, and never after the last attempt.               *)
MayRetry(c, delay) == call[c].attempt < MaxAttempts /\ delay < call[c].left

Sleep(c, delay) ==
    /\ call' = [call EXCEPT ![c].pc = "backoff", ![c].wait = delay]
    /\ UNCHANGED <<breaker, windows, spent>>

Fail(c) ==
    /\ breaker' = RecordFailure(breaker)
    /\ End(c, FALSE)
    /\ UNCHANGED <<windows, spent>>

(* a timeout, a connection failure or a retryable status.                    *)
TransportFailure(c) ==
    /\ call[c].pc = "sending"
    /\ \E delay \in Delays :
          \/ MayRetry(c, delay) /\ Sleep(c, delay)
          \/ ~MayRetry(c, delay) /\ Fail(c)

(* a 429: a Retry-After that is too long ends the refresh.                   *)
RateLimited(c) ==
    /\ call[c].pc = "sending"
    /\ \E delay \in RetryAfters :
          LET wait == delay <= RetryAfterMax /\ MayRetry(c, delay)
          IN  \/ wait /\ Sleep(c, delay)
              \/ ~wait /\ Fail(c)

(* the sleep ended after the deadline: no further attempt.                   *)
WakeTooLate(c) ==
    /\ call[c].pc = "backoff"
    /\ call[c].wait = 0
    /\ call[c].left = 0
    /\ Fail(c)

(* the next attempt, whose weight on_attempt reserves first.                 *)
Retry(c) ==
    /\ call[c].pc = "backoff"
    /\ call[c].wait = 0
    /\ call[c].left > 0
    /\ CanReserve(windows, call[c].weight, call[c].kind)
    /\ windows' = Reserve(windows, call[c].weight)
    /\ Charge(call[c].weight, call[c].kind)
    /\ call' = [call EXCEPT ![c].pc = "sending", ![c].attempt = @ + 1]
    /\ UNCHANGED breaker

(* no budget left for a retry: the refresh ends as if nothing had been sent. *)
RetryRejectedByQuota(c) ==
    /\ call[c].pc = "backoff"
    /\ call[c].wait = 0
    /\ call[c].left > 0
    /\ ~CanReserve(windows, call[c].weight, call[c].kind)
    /\ breaker' = CancelRequest(breaker)
    /\ End(c, FALSE)
    /\ UNCHANGED <<windows, spent>>

(* an exception _refresh does not handle (an httpx error that is neither a   *)
(* timeout nor a transport error, such as an undecodable body; a negative    *)
(* usage header; an adapter's arithmetic error; a cancelled task): neither   *)
(* outcome is recorded, and a recovery probe takes its permit with it.       *)
Abort(c) ==
    /\ c \in Unhandled
    /\ \/ call[c].pc = "sending" /\ CountHeader
       \/ call[c].pc = "backoff" /\ UNCHANGED windows
    /\ End(c, breaker.state = HALF_OPEN)
    /\ UNCHANGED <<breaker, spent>>

Tick ==
    /\ \A c \in InFlight : call[c].left > 0
    /\ breaker' = Aged(breaker)
    /\ windows' = Elapsed(windows)
    /\ spent' = [w \in Windows |-> IF Elapsed(windows)[w] = Unstarted(w)
                                   THEN [k \in Kinds |-> 0] ELSE spent[w]]
    /\ call' = [c \in Calls |->
                   IF c \in InFlight
                   THEN [call[c] EXCEPT !.left = @ - 1,
                                        !.wait = IF @ > 0 THEN @ - 1 ELSE 0]
                   ELSE call[c]]

Finish(c) ==
    \/ Succeed(c)
    \/ Reject(c)
    \/ TransportFailure(c)
    \/ RateLimited(c)
    \/ WakeTooLate(c)
    \/ Retry(c)
    \/ RetryRejectedByQuota(c)
    \/ Abort(c)

Request(c) ==
    \/ RejectedByCircuit(c)
    \/ \E kind \in Kinds, weight \in Weights :
          \/ RejectedByQuota(c, kind, weight)
          \/ NotBuilt(c, kind, weight)
          \/ Start(c, kind, weight)

Next ==
    \/ Tick
    \/ \E c \in Calls : Request(c) \/ Finish(c)

Spec == Init /\ [][Next]_vars

(* The clock runs, and an attempt is answered, times out or is woken.        *)
(* Nothing forces a client to ask.                                           *)
FairSpec == Spec /\ WF_vars(Tick) /\ \A c \in Calls : WF_vars(Finish(c))

-----------------------------------------------------------------------------
(* Safety.                                                                   *)

(* While the circuit is half-open the provider hears from at most one        *)
(* refresh, its recovery probe, whatever the refreshes that were already on  *)
(* their way when the circuit opened do meanwhile (allow_request,            *)
(* record_failure and cancel_request under interleaving).                    *)
SingleProbe ==
    breaker.state = HALF_OPEN => \A c, d \in InFlight : c = d

(* Why it holds when the recovery timeout is longer than the deadline: a     *)
(* refresh that is in flight while the circuit is open started before it     *)
(* opened, so it is over before the circuit can turn half-open; and a        *)
(* half-open circuit with a refresh in flight remembers its probe.           *)
ProbeInv ==
    /\ breaker.state = OPEN => \A c \in InFlight : breaker.age + call[c].left <= Deadline
    /\ breaker.state = HALF_OPEN => \A c \in InFlight : breaker.probe
    /\ SingleProbe

(* The circuit is closed exactly while fewer than FailureThreshold failures  *)
(* have been recorded in a row, in every order of late answers.              *)
Tripping(b) == b.state = CLOSED <=> b.failures < FailureThreshold

TripsAtThreshold == Tripping(breaker)

(* What was really sent in a window, retries included, is covered by the     *)
(* local count and stays in the window's limit, and scheduled work alone     *)
(* never eats into the interactive reserve (reserve, reserve_retry and       *)
(* reconcile_used_weight together).                                          *)
BudgetKept ==
    \A w \in Windows :
        /\ spent[w][INTERACTIVE] + spent[w][SCHEDULED] <= windows[w].used
        /\ spent[w][INTERACTIVE] + spent[w][SCHEDULED] <= Limit[w]
        /\ spent[w][SCHEDULED] <= Limit[w] - InteractiveReserve[w]

(* A window that has run out counts nothing and nothing was sent in it.      *)
BudgetInv ==
    /\ BudgetKept
    /\ \A w \in Windows : windows[w].age >= Length[w] =>
          /\ windows[w].used = 0
          /\ \A k \in Kinds : spent[w][k] = 0

(* All windows are charged or none: a request that one window refuses, when  *)
(* it starts or when it retries, costs the others nothing.  Only the usage   *)
(* header of an answer moves a single window.                                *)
Charged(w) == windows'[w].used > Current(windows, w).used

AllOrNone ==
    \A w \in Windows :
        Charged(w) => \/ \A v \in Windows : Charged(v)
                      \/ \E c \in Calls : call[c].pc = "sending" /\ call'[c].pc = "idle"

ChargedTogether == [][AllOrNone]_vars

(* "stop calling after a circuit opens" (docs/data_sources.md:12), "Circuit  *)
(* and quota failures happen before another outbound call"                   *)
(* (docs/phase_4_provider_framework.md:87): no request goes out while the    *)
(* circuit is open.  reserve_retry asks the budget and not the circuit.      *)
Sends(c) == call'[c].attempt > call[c].attempt

StopsCalling ==
    [][\A c \in Calls : Sends(c) => breaker.state # OPEN \/ Recovering(breaker)]_vars

-----------------------------------------------------------------------------
(* The contract.                                                             *)

(* What RefreshContract sees of the module: of a refresh its time and its    *)
(* requests, of the circuit the failures it has counted, up to the           *)
(* threshold, and the time it stays open.  A half-open circuit is a streak   *)
(* that is not over.                                                         *)
Flights == [c \in Calls |-> [left |-> call[c].left, sent |-> call[c].attempt]]

StreakOf(b) == IF b.failures < FailureThreshold THEN b.failures ELSE FailureThreshold

QuietOf(b) == IF b.state = OPEN THEN RecoveryTimeout - b.age ELSE 0

Contract == INSTANCE RefreshContract WITH
    refresh <- Flights, streak <- StreakOf(breaker), quiet <- QuietOf(breaker)

(* Whatever interleaves, the refreshes keep the contract: a provider that    *)
(* has failed too often in a row is left alone and then tried by one refresh *)
(* at a time, requests that were on their way already included in every      *)
(* count, and no refresh sends too much or lasts too long (_refresh, request *)
(* and the breaker's record_failure together).  "Left alone" is what the     *)
(* code does and less than the documents ask: a refresh that was admitted    *)
(* may still retry (StopsCalling, which the code violates).                  *)
ImplementsContract == Contract!Spec

-----------------------------------------------------------------------------
(* Liveness.                                                                 *)

(* Every refresh that went upstream is over at last.                         *)
RefreshEnds == \A c \in Calls : c \in InFlight ~> c \notin InFlight

(* The circuit is always ready to try the provider again ("test recovery     *)
(* safely", circuit_breaker.py:29), which an unhandled exception prevents.   *)
Recovers == []<>Admits(breaker)

(* Nothing else prevents it: a circuit that never again tries the provider   *)
(* has lost its permit to a probe that was aborted, and not to one that was  *)
(* refused by the budget, could not be built, failed or was late             *)
(* (cancel_request, record_failure and record_success on every path).        *)
RecoversUnlessLost == []<>(Admits(breaker) \/ \E c \in Calls : call[c].lost)
=============================================================================
