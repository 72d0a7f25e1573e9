--------------------------- MODULE CircuitBreaker ---------------------------
(***************************************************************************)
(* The circuit breaker of one provider, as operations on its state         *)
(* (backend/app/providers/circuit_breaker.py).  A breaker is shared by     *)
(* every refresh of the provider that runs in one process; ProviderRefresh *)
(* interleaves those refreshes.                                            *)
(*                                                                         *)
(* Time is relative: "age" is how long ago the circuit opened, in ticks,   *)
(* and stops counting at RecoveryTimeout, the only instant the code        *)
(* compares it with.                                                       *)
(***************************************************************************)
EXTENDS Naturals

CONSTANTS FailureThreshold,  \* consecutive failures that open the circuit
          RecoveryTimeout    \* ticks an open circuit rejects every request

ASSUME BreakerAssumption ==
    /\ FailureThreshold \in Nat \ {0}
    /\ RecoveryTimeout \in Nat \ {0}

CLOSED    == "closed"
OPEN      == "open"
HALF_OPEN == "half_open"

Breaker == [state    : {CLOSED, OPEN, HALF_OPEN},
            failures : Nat,
            age      : 0..RecoveryTimeout,
            probe    : BOOLEAN]

NewBreaker == [state |-> CLOSED, failures |-> 0, age |-> 0, probe |-> FALSE]

(* An open circuit whose recovery timeout has passed turns half-open at the  *)
(* next request, and only then.                                              *)
Recovering(b) == b.state = OPEN /\ b.age >= RecoveryTimeout

HalfOpened(b) ==
    IF Recovering(b) THEN [b EXCEPT !.state = HALF_OPEN, !.probe = FALSE] ELSE b

(* allow_request returns; otherwise it raises and the state is as before.    *)
Admits(b) ==
    \/ b.state = CLOSED
    \/ Recovering(b)
    \/ b.state = HALF_OPEN /\ ~b.probe

(* Fault: a half-open circuit forgets that its probe is under way.           *)
AllowRequestUnguarded(b) == HalfOpened(b)

(* The state allow_request leaves when it admits: a half-open circuit        *)
(* remembers that its probe is under way.                                    *)
AllowRequest(b) ==
    LET h == HalfOpened(b)
    IN  IF h.state = HALF_OPEN THEN [h EXCEPT !.probe = TRUE] ELSE h

(* _open: the failure count is kept.                                         *)
Opened(failures) ==
    [state |-> OPEN, failures |-> failures, age |-> 0, probe |-> FALSE]

RecordSuccess(b) == NewBreaker

(* Fault: the circuit opens one failure late.                                *)
RecordFailureLate(b) ==
    IF b.state = HALF_OPEN                      THEN Opened(b.failures)
    ELSE IF b.failures + 1 > FailureThreshold   THEN Opened(b.failures + 1)
    ELSE [b EXCEPT !.failures = @ + 1, !.probe = FALSE]

(* Fault: an open circuit takes no notice of a late failure.                 *)
RecordFailureOnce(b) ==
    IF b.state = OPEN                            THEN b
    ELSE IF b.state = HALF_OPEN                  THEN Opened(b.failures)
    ELSE IF b.failures + 1 >= FailureThreshold   THEN Opened(b.failures + 1)
    ELSE [b EXCEPT !.failures = @ + 1, !.probe = FALSE]

(* A failed probe reopens the circuit; any other failure counts, also one of *)
(* a refresh that outlived the opening, which then starts the recovery anew. *)
RecordFailure(b) ==
    IF b.state = HALF_OPEN                       THEN Opened(b.failures)
    ELSE IF b.failures + 1 >= FailureThreshold   THEN Opened(b.failures + 1)
    ELSE [b EXCEPT !.failures = @ + 1, !.probe = FALSE]

(* Fault: a probe that was never sent keeps its permit.                      *)
CancelNothing(b) == b

CancelRequest(b) ==
    IF b.state = HALF_OPEN THEN [b EXCEPT !.probe = FALSE] ELSE b

(* One tick of the monotonic clock.                                          *)
Aged(b) ==
    IF b.state = OPEN /\ b.age < RecoveryTimeout THEN [b EXCEPT !.age = @ + 1] ELSE b
=============================================================================
