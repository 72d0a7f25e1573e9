----------------------- MODULE ProviderRefresh_proofs -----------------------
(***************************************************************************)
(* Proofs about ProviderRefresh, for any number of concurrent refreshes,   *)
(* any budget windows and any values of the timers.                        *)
(***************************************************************************)
EXTENDS ProviderRefresh, TLAPS

-----------------------------------------------------------------------------
(* The operations of the breaker and of the budget keep their types.         *)

(* Every operation of the breaker returns a breaker.                         *)
LEMMA BreakerType ==
    ASSUME NEW b \in Breaker
    PROVE  /\ HalfOpened(b) \in Breaker
           /\ AllowRequest(b) \in Breaker
           /\ RecordSuccess(b) \in Breaker
           /\ RecordFailure(b) \in Breaker
           /\ CancelRequest(b) \in Breaker
           /\ Aged(b) \in Breaker
           /\ NewBreaker \in Breaker
<1> USE BreakerAssumption DEF BreakerAssumption, Breaker, CLOSED, OPEN, HALF_OPEN
<1>1. HalfOpened(b) \in Breaker
  BY DEF HalfOpened
<1>2. AllowRequest(b) \in Breaker
  BY <1>1 DEF AllowRequest
<1>3. RecordSuccess(b) \in Breaker /\ NewBreaker \in Breaker
  BY DEF RecordSuccess, NewBreaker
<1>4. RecordFailure(b) \in Breaker
  <2>1. b.failures \in Nat /\ b.failures + 1 \in Nat
    OBVIOUS
  <2>2. \A n \in Nat : Opened(n) \in Breaker
    BY DEF Opened
  <2>3. \A n \in Nat : [b EXCEPT !.failures = n, !.probe = FALSE] \in Breaker
    OBVIOUS
  <2> QED
    BY <2>1, <2>2, <2>3 DEF RecordFailure
<1>5. CancelRequest(b) \in Breaker
  BY DEF CancelRequest
<1>6. Aged(b) \in Breaker
  BY DEF Aged
<1> QED
  BY <1>1, <1>2, <1>3, <1>4, <1>5, <1>6

(* Shortest is a window, and none is shorter.                                *)
LEMMA ShortestExists ==
    /\ Shortest \in Windows
    /\ \A w \in Windows : Length[Shortest] <= Length[w]
BY QuotaAssumption DEF Shortest

(* No window has been started at first.                                      *)
LEMMA NoWindowsType == NoWindows \in [Windows -> Window]
BY QuotaAssumption DEF NoWindows, Unstarted, Window

(* Reserve returns windows.                                                  *)
LEMMA ReserveType ==
    ASSUME NEW q \in [Windows -> Window], NEW weight \in Nat
    PROVE  Reserve(q, weight) \in [Windows -> Window]
BY DEF Reserve, Current, Window

(* Reconcile_used_weight returns windows.                                    *)
LEMMA ReconcileType ==
    ASSUME NEW q \in [Windows -> Window], NEW reported \in Nat
    PROVE  ReconcileUsedWeight(q, reported) \in [Windows -> Window]
BY ShortestExists DEF ReconcileUsedWeight, Current, Window

(* A tick returns windows.                                                   *)
LEMMA ElapsedType ==
    ASSUME NEW q \in [Windows -> Window]
    PROVE  Elapsed(q) \in [Windows -> Window]
BY QuotaAssumption DEF Elapsed, Unstarted, Window

(* The history keeps its type when a request is charged.                     *)
LEMMA ChargeType ==
    ASSUME NEW weight \in Nat, NEW kind \in Kinds,
           spent \in [Windows -> [Kinds -> Nat]], Charge(weight, kind)
    PROVE  spent' \in [Windows -> [Kinds -> Nat]]
BY DEF Charge

-----------------------------------------------------------------------------
(* Every state is well typed.                                                *)
THEOREM TypeCorrect == Spec => []TypeOK
<1> USE RefreshAssumption DEF TypeOK
<1>1. Init => TypeOK
  <2> SUFFICES ASSUME Init PROVE TypeOK
    OBVIOUS
  <2>1. breaker \in Breaker
    BY BreakerAssumption DEF Init, NewBreaker, Breaker, CLOSED
  <2>2. windows \in [Windows -> Window]
    BY NoWindowsType DEF Init
  <2>3. call \in [Calls -> Call]
    BY DEF Init, Idle, Call, Kinds
  <2>4. spent \in [Windows -> [Kinds -> Nat]]
    BY DEF Init
  <2> QED
    BY <2>1, <2>2, <2>3, <2>4
<1>2. TypeOK /\ [Next]_vars => TypeOK'
  <2> SUFFICES ASSUME TypeOK, [Next]_vars PROVE TypeOK'
    OBVIOUS
  <2>0. \A lost \in BOOLEAN : Over(lost) \in Call
    BY DEF Over, Idle, Call, Kinds
  <2>1. CASE Tick
    <3>1. breaker' \in Breaker
      BY <2>1, BreakerType DEF Tick
    <3>2. windows' \in [Windows -> Window]
      BY <2>1, ElapsedType DEF Tick
    <3>3. call' \in [Calls -> Call]
      <4>1. ASSUME NEW c \in Calls PROVE call'[c] \in Call
        <5>1. call[c] \in Call
          OBVIOUS
        <5>2. CASE c \in InFlight
          <6>1. call[c].left \in 0..Deadline /\ call[c].left > 0 /\ call[c].wait \in Nat
            BY <2>1, <5>1, <5>2 DEF Tick, Call
          <6>3. call[c].left - 1 \in 0..Deadline
            BY <6>1
          <6>4. (IF call[c].wait > 0 THEN call[c].wait - 1 ELSE 0) \in Nat
            BY <6>1
          <6>2. call'[c] = [call[c] EXCEPT !.left = @ - 1,
                                           !.wait = IF @ > 0 THEN @ - 1 ELSE 0]
            BY <2>1, <5>2 DEF Tick
          <6> QED
            BY <5>1, <6>2, <6>3, <6>4 DEF Call
        <5>3. CASE c \notin InFlight
          BY <2>1, <5>1, <5>3 DEF Tick
        <5> QED
          BY <5>2, <5>3
      <4> QED
        BY <2>1, <4>1 DEF Tick
    <3>4. spent' \in [Windows -> [Kinds -> Nat]]
      BY <2>1 DEF Tick
    <3> QED
      BY <3>1, <3>2, <3>3, <3>4
  <2>2. ASSUME NEW c \in Calls, Request(c) PROVE TypeOK'
    <3>1. CASE RejectedByCircuit(c)
      BY <3>1 DEF RejectedByCircuit, vars
    <3>2. ASSUME NEW kind \in Kinds, NEW weight \in Weights,
                 \/ RejectedByQuota(c, kind, weight)
                 \/ NotBuilt(c, kind, weight)
          PROVE  TypeOK'
      <4>1. AllowRequest(breaker) \in Breaker
        BY BreakerType
      <4>2. breaker' \in Breaker
        BY <3>2, <4>1, BreakerType DEF RejectedByQuota, NotBuilt
      <4>3. windows' \in [Windows -> Window]
        BY <3>2, weight \in Nat, ReserveType DEF RejectedByQuota, NotBuilt
      <4> QED
        BY <3>2, <4>2, <4>3 DEF RejectedByQuota, NotBuilt
    <3>3. ASSUME NEW kind \in Kinds, NEW weight \in Weights, Start(c, kind, weight)
          PROVE  TypeOK'
      <4>1. breaker' \in Breaker
        BY <3>3, BreakerType DEF Start
      <4>2. windows' \in [Windows -> Window]
        BY <3>3, ReserveType DEF Start
      <4>3. call' \in [Calls -> Call]
        BY <3>3 DEF Start, Call
      <4>4. spent' \in [Windows -> [Kinds -> Nat]]
        BY <3>3, ChargeType DEF Start
      <4> QED
        BY <4>1, <4>2, <4>3, <4>4
    <3> QED
      BY <2>2, <3>1, <3>2, <3>3 DEF Request
  <2>3. ASSUME NEW c \in Calls, Finish(c) PROVE TypeOK'
    <3>1. CASE Succeed(c) \/ Reject(c) \/ Abort(c)
      <4>1. breaker' \in Breaker
        BY <3>1, BreakerType DEF Succeed, Reject, Abort
      <4>2. windows' \in [Windows -> Window]
        BY <3>1, ReconcileType DEF Succeed, Reject, Abort, CountHeader, End, Over
      <4> QED
        BY <2>0, <3>1, <4>1, <4>2 DEF Succeed, Reject, Abort, End
    <3>2. CASE TransportFailure(c) \/ RateLimited(c)
      <4>1. PICK delay \in Nat : Sleep(c, delay) \/ Fail(c)
        BY <3>2 DEF TransportFailure, RateLimited
      <4>2. CASE Sleep(c, delay)
        <5>1. call[c] \in Call /\ call \in [Calls -> Call]
          OBVIOUS
        <5>2. [call[c] EXCEPT !.pc = "backoff", !.wait = delay] \in Call
          BY <4>1, <5>1 DEF Call
        <5>3. call' = [call EXCEPT ![c] = [call[c] EXCEPT !.pc = "backoff", !.wait = delay]]
          BY <4>2, <5>1 DEF Sleep
        <5>4. call' \in [Calls -> Call]
          BY <5>1, <5>2, <5>3
        <5> QED
          BY <4>2, <5>4 DEF Sleep
      <4>3. CASE Fail(c)
        BY <2>0, <4>3, BreakerType DEF Fail, End
      <4> QED
        BY <4>1, <4>2, <4>3
    <3>3. CASE WakeTooLate(c)
      BY <2>0, <3>3, BreakerType DEF WakeTooLate, Fail, End
    <3>4. CASE Retry(c)
      <4>1. call[c].weight \in Nat /\ call[c].kind \in Kinds
        BY DEF Call
      <4>2. windows' \in [Windows -> Window]
        BY <3>4, <4>1, ReserveType DEF Retry
      <4>3. spent' \in [Windows -> [Kinds -> Nat]]
        BY <3>4, <4>1, ChargeType DEF Retry
      <4>4. call' \in [Calls -> Call]
        BY <3>4 DEF Retry, Call
      <4> QED
        BY <3>4, <4>2, <4>3, <4>4 DEF Retry
    <3>5. CASE RetryRejectedByQuota(c)
      BY <2>0, <3>5, BreakerType DEF RetryRejectedByQuota, End
    <3> QED
      BY <2>3, <3>1, <3>2, <3>3, <3>4, <3>5 DEF Finish
  <2>4. CASE UNCHANGED vars
    BY <2>4 DEF vars
  <2> QED
    BY <2>1, <2>2, <2>3, <2>4 DEF Next
<1> QED
  BY <1>1, <1>2, PTL DEF Spec

-----------------------------------------------------------------------------
(* The circuit trips at the threshold.                                       *)

(* Every operation of the breaker keeps Tripping.                            *)
LEMMA TrippingKept ==
    ASSUME NEW b \in Breaker, Tripping(b)
    PROVE  /\ Tripping(NewBreaker)
           /\ Tripping(AllowRequest(b))
           /\ Tripping(RecordSuccess(b))
           /\ Tripping(RecordFailure(b))
           /\ Tripping(CancelRequest(b))
           /\ Tripping(Aged(b))
<1> USE BreakerAssumption DEF Tripping, Breaker, CLOSED, OPEN, HALF_OPEN
<1>1. Tripping(NewBreaker) /\ Tripping(RecordSuccess(b))
  BY DEF NewBreaker, RecordSuccess
<1>2. Tripping(AllowRequest(b))
  <2>1. HalfOpened(b).state = CLOSED <=> b.state = CLOSED
    BY DEF HalfOpened, Recovering
  <2>2. HalfOpened(b).failures = b.failures /\ HalfOpened(b) \in Breaker
    BY DEF HalfOpened, Recovering
  <2>3. AllowRequest(b).state = HalfOpened(b).state
    BY <2>2 DEF AllowRequest
  <2>4. AllowRequest(b).failures = HalfOpened(b).failures
    BY <2>2 DEF AllowRequest
  <2> QED
    BY <2>1, <2>2, <2>3, <2>4
<1>3. Tripping(RecordFailure(b))
  <2>1. CASE b.state = HALF_OPEN \/ b.failures + 1 >= FailureThreshold
    <3>1. b.failures >= FailureThreshold \/ b.failures + 1 >= FailureThreshold
      BY <2>1
    <3> QED
      BY <2>1, <3>1 DEF RecordFailure, Opened
  <2>2. CASE b.state # HALF_OPEN /\ b.failures + 1 < FailureThreshold
    BY <2>2 DEF RecordFailure
  <2> QED
    BY <2>1, <2>2
<1>4. Tripping(CancelRequest(b))
  BY DEF CancelRequest
<1>5. Tripping(Aged(b))
  BY DEF Aged
<1> QED
  BY <1>1, <1>2, <1>3, <1>4, <1>5

(* What a step does to the breaker: one of its operations, or nothing.       *)
BreakerStep ==
    \/ breaker' = breaker
    \/ breaker' = AllowRequest(breaker)
    \/ breaker' = CancelRequest(AllowRequest(breaker))
    \/ breaker' = CancelRequest(breaker)
    \/ breaker' = RecordSuccess(breaker)
    \/ breaker' = RecordFailure(breaker)
    \/ breaker' = Aged(breaker)

(* Every step applies one operation to the breaker, or none.                 *)
LEMMA StepsOfBreaker == [Next]_vars => BreakerStep
<1> SUFFICES ASSUME [Next]_vars PROVE BreakerStep
  OBVIOUS
<1> USE DEF BreakerStep
<1>1. CASE Tick
  BY <1>1 DEF Tick
<1>2. ASSUME NEW c \in Calls, Request(c) PROVE BreakerStep
  BY <1>2 DEF Request, RejectedByCircuit, RejectedByQuota, NotBuilt, Start, vars
<1>3. ASSUME NEW c \in Calls, Finish(c) PROVE BreakerStep
  BY <1>3 DEF Finish, Succeed, Reject, TransportFailure, RateLimited, WakeTooLate,
              Retry, RetryRejectedByQuota, Abort, Sleep, Fail
<1>4. CASE UNCHANGED vars
  BY <1>4 DEF vars
<1> QED
  BY <1>1, <1>2, <1>3, <1>4 DEF Next

(* The circuit is closed exactly while fewer than FailureThreshold failures  *)
(* have been recorded in a row.                                              *)
THEOREM ThresholdHolds == Spec => []TripsAtThreshold
<1> USE DEF TripsAtThreshold
<1>1. Init => TripsAtThreshold
  BY BreakerAssumption DEF Init, NewBreaker, Tripping, CLOSED
<1>2. TypeOK /\ TripsAtThreshold /\ [Next]_vars => TripsAtThreshold'
  <2> SUFFICES ASSUME TypeOK, Tripping(breaker), [Next]_vars PROVE Tripping(breaker)'
    OBVIOUS
  <2>1. breaker \in Breaker /\ AllowRequest(breaker) \in Breaker
    BY BreakerType DEF TypeOK
  <2>2. Tripping(AllowRequest(breaker))
    BY <2>1, TrippingKept
  <2>3. Tripping(CancelRequest(AllowRequest(breaker)))
    BY <2>1, <2>2, TrippingKept
  <2>4. BreakerStep
    BY StepsOfBreaker
  <2>5. Tripping(breaker')
    BY <2>1, <2>2, <2>3, <2>4, TrippingKept DEF BreakerStep
  <2> QED
    BY <2>5 DEF Tripping
<1> QED
  BY <1>1, <1>2, TypeCorrect, PTL DEF Spec

-----------------------------------------------------------------------------
(* One recovery probe at a time, when a circuit stays open for longer than   *)
(* any refresh can last.                                                     *)

(* A step that starts no refresh and leaves the breaker alone.               *)
LEMMA ProbeFewer ==
    ASSUME ProbeInv, breaker' = breaker, InFlight' \subseteq InFlight,
           \A d \in InFlight' : call'[d].left = call[d].left
    PROVE  ProbeInv'
BY DEF ProbeInv, SingleProbe

(* A recorded failure: the circuit is closed, or has just opened.            *)
LEMMA ProbeFailure ==
    ASSUME TypeOK, TypeOK', breaker' = RecordFailure(breaker), TripsAtThreshold
    PROVE  ProbeInv'
<1> USE DEF TypeOK, Breaker, CLOSED, OPEN, HALF_OPEN
<1>1. breaker'.state # HALF_OPEN
  BY DEF RecordFailure, Opened
<1>2. breaker'.state = OPEN /\ breaker.state # OPEN => breaker'.age = 0
  BY DEF RecordFailure, Opened
<1>3. breaker.state = OPEN => breaker.failures + 1 >= FailureThreshold
  BY BreakerAssumption DEF TripsAtThreshold, Tripping
<1>4. breaker'.state = OPEN => breaker'.age = 0
  BY <1>2, <1>3 DEF RecordFailure, Opened
<1>5. \A c \in InFlight' : call'[c].left \in 0..Deadline
  BY DEF InFlight, Call
<1> QED
  BY <1>1, <1>4, <1>5, RefreshAssumption DEF ProbeInv, SingleProbe

(* When a request is admitted and the circuit is not closed, no other        *)
(* refresh is in flight.                                                     *)
LEMMA ProbeAlone ==
    ASSUME TypeOK, ProbeInv, RecoveryTimeout > Deadline,
           Admits(breaker), breaker.state # CLOSED
    PROVE  InFlight = {}
<1> SUFFICES ASSUME NEW c \in InFlight PROVE FALSE
  OBVIOUS
<1> USE DEF TypeOK, Breaker
<1>1. CASE breaker.state = HALF_OPEN /\ ~breaker.probe
  BY <1>1 DEF ProbeInv
<1>2. CASE Recovering(breaker)
  <2>1. breaker.age + call[c].left <= Deadline
    BY <1>2 DEF Recovering, ProbeInv
  <2>2. call[c].left \in Nat /\ breaker.age \in Nat
    BY BreakerAssumption DEF InFlight, Call
  <2>3. breaker.age >= RecoveryTimeout
    BY <1>2 DEF Recovering
  <2> QED
    BY <2>1, <2>2, <2>3, BreakerAssumption, RefreshAssumption
<1> QED
  BY <1>1, <1>2 DEF Admits

(* The state a request finds in a circuit that admits it.                    *)
LEMMA AdmittedBreaker ==
    ASSUME NEW b \in Breaker, Admits(b)
    PROVE  /\ b.state = CLOSED => AllowRequest(b) = b /\ CancelRequest(b) = b
           /\ b.state # CLOSED => /\ AllowRequest(b).state = HALF_OPEN
                                 /\ AllowRequest(b).probe = TRUE
<1> USE DEF Breaker, CLOSED, OPEN, HALF_OPEN
<1>1. CASE b.state = CLOSED
  BY <1>1 DEF AllowRequest, HalfOpened, Recovering, CancelRequest
<1>2. CASE b.state = HALF_OPEN
  BY <1>2 DEF AllowRequest, HalfOpened, Recovering
<1>3. CASE Recovering(b)
  <2>1. HalfOpened(b) = [b EXCEPT !.state = HALF_OPEN, !.probe = FALSE]
    BY <1>3 DEF HalfOpened
  <2>2. HalfOpened(b).state = HALF_OPEN /\ HalfOpened(b) \in Breaker
    BY <2>1
  <2> QED
    BY <1>3, <2>2 DEF AllowRequest, Recovering
<1> QED
  BY <1>1, <1>2, <1>3 DEF Admits

(* ProbeInv holds if RecoveryTimeout exceeds Deadline.                       *)
LEMMA ProbeInvHolds ==
    ASSUME RecoveryTimeout > Deadline
    PROVE  Spec => []ProbeInv
<1>1. Init => ProbeInv
  BY DEF Init, NewBreaker, ProbeInv, SingleProbe, CLOSED, OPEN, HALF_OPEN
<1>2. TypeOK /\ TypeOK' /\ TripsAtThreshold /\ ProbeInv /\ [Next]_vars => ProbeInv'
  <2> SUFFICES ASSUME TypeOK, TypeOK', TripsAtThreshold, ProbeInv, [Next]_vars
               PROVE  ProbeInv'
    OBVIOUS
  <2>0. breaker \in Breaker /\ DOMAIN call = Calls
    BY DEF TypeOK
  <2>1. CASE Tick
    <3>1. InFlight' = InFlight /\ \A c \in InFlight : call'[c].left = call[c].left - 1
      <4>1. ASSUME NEW c \in InFlight
            PROVE  call'[c].pc = call[c].pc /\ call'[c].left = call[c].left - 1
        <5>1. c \in Calls /\ call[c] \in Call
          BY DEF InFlight, TypeOK
        <5>2. call'[c] = [call[c] EXCEPT !.left = @ - 1,
                                         !.wait = IF @ > 0 THEN @ - 1 ELSE 0]
          BY <2>1, <5>1 DEF Tick
        <5> QED
          BY <5>1, <5>2 DEF Call
      <4>2. ASSUME NEW c \in Calls, c \notin InFlight PROVE call'[c] = call[c]
        BY <2>1, <4>2 DEF Tick
      <4> QED
        BY <4>1, <4>2 DEF InFlight
    <3>2. breaker'.state = breaker.state /\ breaker'.probe = breaker.probe
      BY <2>0, <2>1 DEF Tick, Aged, Breaker
    <3>3. breaker.age \in Nat /\ breaker'.age \in Nat /\ breaker'.age <= breaker.age + 1
      <4>1. breaker.age \in Nat
        BY <2>0 DEF Breaker
      <4>2. breaker'.age = breaker.age \/ breaker'.age = breaker.age + 1
        BY <2>0, <2>1 DEF Tick, Aged, Breaker
      <4> QED
        BY <4>1, <4>2
    <3>4. \A c \in InFlight : call[c].left \in Nat
      BY DEF InFlight, TypeOK, Call
    <3> QED
      BY <3>1, <3>2, <3>3, <3>4, RefreshAssumption DEF ProbeInv, SingleProbe
  <2>2. ASSUME NEW c \in Calls, Request(c) PROVE ProbeInv'
    <3>1. CASE RejectedByCircuit(c)
      BY <3>1, ProbeFewer DEF RejectedByCircuit, vars, InFlight
    <3>2. ASSUME NEW kind \in Kinds, NEW weight \in Weights,
                 \/ RejectedByQuota(c, kind, weight)
                 \/ NotBuilt(c, kind, weight)
          PROVE  ProbeInv'
      <4>1. Admits(breaker) /\ breaker' = CancelRequest(AllowRequest(breaker)) /\ call' = call
        BY <3>2 DEF RejectedByQuota, NotBuilt
      <4>2. CASE breaker.state = CLOSED
        BY <2>0, <4>1, <4>2, AdmittedBreaker, ProbeFewer DEF InFlight
      <4>3. CASE breaker.state # CLOSED
        <5>1. InFlight' = {}
          BY <4>1, <4>3, ProbeAlone DEF InFlight
        <5> QED
          BY <5>1 DEF ProbeInv, SingleProbe
      <4> QED
        BY <4>2, <4>3
    <3>3. ASSUME NEW kind \in Kinds, NEW weight \in Weights, Start(c, kind, weight)
          PROVE  ProbeInv'
      <4>1. Admits(breaker) /\ breaker' = AllowRequest(breaker)
        BY <3>3 DEF Start
      <4>2. CASE breaker.state = CLOSED
        BY <2>0, <4>1, <4>2, AdmittedBreaker
        DEF ProbeInv, SingleProbe, CLOSED, OPEN, HALF_OPEN
      <4>3. CASE breaker.state # CLOSED
        <5>1. InFlight' \subseteq {c}
          BY <2>0, <3>3, <4>1, <4>3, ProbeAlone DEF Start, InFlight
        <5>2. breaker'.state = HALF_OPEN /\ breaker'.probe
          BY <2>0, <4>1, <4>3, AdmittedBreaker
        <5> QED
          BY <5>1, <5>2 DEF ProbeInv, SingleProbe, OPEN, HALF_OPEN
      <4> QED
        BY <4>2, <4>3
    <3> QED
      BY <2>2, <3>1, <3>2, <3>3 DEF Request
  <2>3. ASSUME NEW c \in Calls, Finish(c) PROVE ProbeInv'
    <3>1. CASE Succeed(c)
      BY <3>1 DEF Succeed, RecordSuccess, NewBreaker, ProbeInv, SingleProbe,
                  CLOSED, OPEN, HALF_OPEN
    <3>2. CASE Reject(c)
      BY <3>2, ProbeFailure DEF Reject
    <3>3. ASSUME NEW delay \in Nat, Sleep(c, delay), c \in InFlight PROVE ProbeInv'
      <4>1. InFlight' = InFlight /\ \A d \in InFlight : call'[d].left = call[d].left
        BY <2>0, <3>3 DEF Sleep, InFlight, TypeOK, Call
      <4> QED
        BY <3>3, <4>1, ProbeFewer DEF Sleep
    <3>4. CASE Fail(c)
      BY <3>4, ProbeFailure DEF Fail
    <3>5. CASE Retry(c)
      <4>1. InFlight' = InFlight /\ \A d \in InFlight : call'[d].left = call[d].left
        BY <2>0, <3>5 DEF Retry, InFlight, TypeOK, Call
      <4> QED
        BY <3>5, <4>1, ProbeFewer DEF Retry
    <3>6. ASSUME NEW lost \in BOOLEAN, End(c, lost)
          PROVE  /\ InFlight' = InFlight \ {c}
                 /\ \A d \in InFlight' : call'[d].left = call[d].left
      BY <2>0, <3>6 DEF End, Over, InFlight, Idle
    <3>7. CASE Abort(c)
      BY <3>6, <3>7, ProbeFewer DEF Abort
    <3>8. CASE RetryRejectedByQuota(c)
      <4>1. c \in InFlight /\ InFlight' = InFlight \ {c}
        BY <3>6, <3>8 DEF RetryRejectedByQuota, InFlight
      <4>2. CASE breaker.state = HALF_OPEN
        <5>1. InFlight' = {}
          BY <4>1, <4>2 DEF ProbeInv, SingleProbe
        <5> QED
          BY <5>1 DEF ProbeInv, SingleProbe
      <4>3. CASE breaker.state # HALF_OPEN
        BY <3>6, <3>8, <4>1, <4>3, ProbeFewer DEF RetryRejectedByQuota, CancelRequest
      <4> QED
        BY <4>2, <4>3
    <3>9. CASE TransportFailure(c) \/ RateLimited(c)
      <4>1. c \in InFlight /\ \E delay \in Nat : Sleep(c, delay) \/ Fail(c)
        BY <3>9, RefreshAssumption DEF TransportFailure, RateLimited, InFlight
      <4> QED
        BY <3>3, <3>4, <4>1
    <3>10. CASE WakeTooLate(c)
      BY <3>4, <3>10 DEF WakeTooLate
    <3> QED
      BY <2>3, <3>1, <3>2, <3>5, <3>7, <3>8, <3>9, <3>10 DEF Finish
  <2>4. CASE UNCHANGED vars
    BY <2>4, ProbeFewer DEF vars, InFlight
  <2> QED
    BY <2>1, <2>2, <2>3, <2>4 DEF Next
<1> QED
  BY <1>1, <1>2, TypeCorrect, ThresholdHolds, PTL DEF Spec

(* The circuit breaker guards one recovery probe, whatever the refreshes in  *)
(* flight do, if RecoveryTimeout exceeds Deadline.                           *)
THEOREM SingleProbeHolds ==
    ASSUME RecoveryTimeout > Deadline
    PROVE  Spec => []SingleProbe
<1>1. ProbeInv => SingleProbe
  BY DEF ProbeInv
<1> QED
  BY <1>1, ProbeInvHolds, PTL

-----------------------------------------------------------------------------
(* The budget.                                                               *)

(* The window a request is counted in covers what was sent in it.            *)
LEMMA CurrentCovers ==
    ASSUME TypeOK, BudgetInv, NEW w \in Windows
    PROVE  /\ Current(windows, w).used \in Nat
           /\ Current(windows, w).age \in Nat
           /\ Current(windows, w).age < Length[w]
           /\ spent[w][INTERACTIVE] \in Nat /\ spent[w][SCHEDULED] \in Nat
           /\ spent[w][INTERACTIVE] + spent[w][SCHEDULED] <= Current(windows, w).used
           /\ Current(windows, w).used >= windows[w].used
<1> USE QuotaAssumption DEF TypeOK, BudgetInv, BudgetKept, Current, Window, Kinds
<1>1. spent[w][INTERACTIVE] \in Nat /\ spent[w][SCHEDULED] \in Nat
  OBVIOUS
<1>2. windows[w] \in Window /\ Length[w] \in Nat \ {0}
  OBVIOUS
<1>3. CASE windows[w].age >= Length[w]
  BY <1>1, <1>2, <1>3
<1>4. CASE ~(windows[w].age >= Length[w])
  BY <1>1, <1>2, <1>4
<1> QED
  BY <1>3, <1>4

(* An attempt that reserve admits stays in the budget.                       *)
LEMMA ChargeKeepsBudget ==
    ASSUME TypeOK, BudgetInv, NEW weight \in Nat, NEW kind \in Kinds,
           CanReserve(windows, weight, kind), windows' = Reserve(windows, weight),
           Charge(weight, kind)
    PROVE  BudgetInv'
<1> SUFFICES ASSUME NEW w \in Windows
             PROVE  /\ (spent[w][INTERACTIVE] + spent[w][SCHEDULED] <= windows[w].used)'
                    /\ (spent[w][INTERACTIVE] + spent[w][SCHEDULED] <= Limit[w])'
                    /\ (spent[w][SCHEDULED] <= Limit[w] - InteractiveReserve[w])'
                    /\ ~(windows[w].age >= Length[w])'
  BY DEF BudgetInv, BudgetKept
<1> DEFINE used == Current(windows, w).used
<1>1. /\ windows'[w].used = used + weight
      /\ windows'[w].age = Current(windows, w).age
  BY DEF Reserve
<1>2. used + weight <= EffectiveLimit(w, kind)
  BY DEF CanReserve
<1>3. spent'[w] = [spent[w] EXCEPT ![kind] = @ + weight]
  BY DEF Charge
<1>4. /\ spent'[w][kind] = spent[w][kind] + weight
      /\ \A k \in Kinds \ {kind} : spent'[w][k] = spent[w][k]
  BY <1>3 DEF TypeOK
<1>5. Limit[w] \in Nat /\ InteractiveReserve[w] \in Nat /\ InteractiveReserve[w] <= Limit[w]
      /\ Length[w] \in Nat
  BY QuotaAssumption
<1>6. /\ used \in Nat
      /\ Current(windows, w).age \in Nat /\ Current(windows, w).age < Length[w]
      /\ spent[w][INTERACTIVE] \in Nat /\ spent[w][SCHEDULED] \in Nat
      /\ spent[w][INTERACTIVE] + spent[w][SCHEDULED] <= used
  BY CurrentCovers
<1>7. spent[w][SCHEDULED] <= Limit[w] - InteractiveReserve[w]
  BY DEF BudgetInv, BudgetKept
<1> HIDE DEF used
<1>8. CASE kind = SCHEDULED
  <2>1. /\ spent'[w][SCHEDULED] = spent[w][SCHEDULED] + weight
        /\ spent'[w][INTERACTIVE] = spent[w][INTERACTIVE]
    BY <1>4, <1>8 DEF Kinds, SCHEDULED, INTERACTIVE
  <2>2. used + weight <= Limit[w] - InteractiveReserve[w]
    BY <1>2, <1>8 DEF EffectiveLimit
  <2> QED
    BY <1>1, <1>5, <1>6, <2>1, <2>2
<1>9. CASE kind = INTERACTIVE
  <2>1. /\ spent'[w][INTERACTIVE] = spent[w][INTERACTIVE] + weight
        /\ spent'[w][SCHEDULED] = spent[w][SCHEDULED]
    BY <1>4, <1>9 DEF Kinds, SCHEDULED, INTERACTIVE
  <2>2. used + weight <= Limit[w]
    BY <1>2, <1>9 DEF EffectiveLimit, SCHEDULED, INTERACTIVE
  <2> QED
    BY <1>1, <1>5, <1>6, <1>7, <2>1, <2>2
<1> QED
  BY <1>8, <1>9 DEF Kinds

(* A reservation for which nothing is sent stays in the budget.              *)
LEMMA ReserveKeepsBudget ==
    ASSUME TypeOK, BudgetInv, NEW weight \in Nat,
           windows' = Reserve(windows, weight), UNCHANGED spent
    PROVE  BudgetInv'
<1> SUFFICES ASSUME NEW w \in Windows
             PROVE  /\ (spent[w][INTERACTIVE] + spent[w][SCHEDULED] <= windows[w].used)'
                    /\ ~(windows[w].age >= Length[w])'
  BY DEF BudgetInv, BudgetKept
<1>1. /\ windows'[w].used = Current(windows, w).used + weight
      /\ windows'[w].age = Current(windows, w).age
  BY DEF Reserve
<1>2. Length[w] \in Nat
  BY QuotaAssumption
<1> QED
  BY <1>1, <1>2, CurrentCovers

(* A usage header only raises the count.                                     *)
LEMMA ReconcileKeepsBudget ==
    ASSUME TypeOK, BudgetInv, NEW reported \in Nat,
           windows' = ReconcileUsedWeight(windows, reported), UNCHANGED spent
    PROVE  BudgetInv'
<1>1. Shortest \in Windows
  BY ShortestExists
<1>2. \A w \in Windows \ {Shortest} : windows'[w] = windows[w]
  BY DEF ReconcileUsedWeight, TypeOK
<1>3. /\ windows'[Shortest].used \in Nat
      /\ windows'[Shortest].used >= Current(windows, Shortest).used
      /\ windows'[Shortest].age = Current(windows, Shortest).age
  BY <1>1, CurrentCovers DEF ReconcileUsedWeight, TypeOK
<1>4. /\ spent[Shortest][INTERACTIVE] + spent[Shortest][SCHEDULED] <= windows'[Shortest].used
      /\ ~(windows'[Shortest].age >= Length[Shortest])
  BY <1>1, <1>3, CurrentCovers, QuotaAssumption
<1> QED
  BY <1>2, <1>4 DEF BudgetInv, BudgetKept

(* A window that runs out forgets its count and what was sent.               *)
LEMMA TickKeepsBudget ==
    ASSUME TypeOK, BudgetInv, Tick
    PROVE  BudgetInv'
<1> SUFFICES ASSUME NEW w \in Windows
             PROVE  /\ (spent[w][INTERACTIVE] + spent[w][SCHEDULED] <= windows[w].used)'
                    /\ (spent[w][INTERACTIVE] + spent[w][SCHEDULED] <= Limit[w])'
                    /\ (spent[w][SCHEDULED] <= Limit[w] - InteractiveReserve[w])'
                    /\ (windows[w].age >= Length[w])' =>
                          /\ windows'[w].used = 0
                          /\ \A k \in Kinds : spent'[w][k] = 0
  BY DEF BudgetInv, BudgetKept
<1>1. windows[w] \in Window /\ Length[w] \in Nat /\ Limit[w] \in Nat
      /\ InteractiveReserve[w] \in Nat /\ InteractiveReserve[w] <= Limit[w]
  BY QuotaAssumption DEF TypeOK
<1>2. windows' = Elapsed(windows)
  BY DEF Tick
<1>3. CASE Elapsed(windows)[w] = Unstarted(w)
  <2>1. spent'[w] = [k \in Kinds |-> 0]
    BY <1>3 DEF Tick
  <2>2. windows'[w].used = 0
    BY <1>2, <1>3 DEF Unstarted
  <2>3. spent'[w][INTERACTIVE] = 0 /\ spent'[w][SCHEDULED] = 0
    BY <2>1 DEF Kinds
  <2> QED
    BY <1>1, <2>1, <2>2, <2>3 DEF Kinds
<1>4. CASE Elapsed(windows)[w] # Unstarted(w)
  <2>1. spent'[w] = spent[w]
    BY <1>4 DEF Tick
  <2>2. /\ windows'[w].used = windows[w].used
        /\ ~(windows'[w].age >= Length[w])
    BY <1>1, <1>2, <1>4 DEF Elapsed, Unstarted, Window
  <2> QED
    BY <2>1, <2>2 DEF BudgetInv, BudgetKept
<1> QED
  BY <1>3, <1>4

(* The strengthening that is inductive: a window that has run out is empty,  *)
(* so the next request may start it anew.                                    *)
THEOREM BudgetHolds == Spec => []BudgetInv
<1>1. Init => BudgetInv
  BY QuotaAssumption DEF Init, NoWindows, Unstarted, BudgetInv, BudgetKept, Kinds
<1>2. TypeOK /\ BudgetInv /\ [Next]_vars => BudgetInv'
  <2> SUFFICES ASSUME TypeOK, BudgetInv, [Next]_vars PROVE BudgetInv'
    OBVIOUS
  <2>1. ASSUME UNCHANGED <<windows, spent>> PROVE BudgetInv'
    BY <2>1 DEF BudgetInv, BudgetKept
  <2>2. ASSUME NEW c \in Calls, Request(c) PROVE BudgetInv'
    <3>1. ASSUME NEW kind \in Kinds, NEW weight \in Weights, NotBuilt(c, kind, weight)
          PROVE  BudgetInv'
      BY <3>1, RefreshAssumption, ReserveKeepsBudget DEF NotBuilt
    <3>2. ASSUME NEW kind \in Kinds, NEW weight \in Weights, Start(c, kind, weight)
          PROVE  BudgetInv'
      BY <3>2, RefreshAssumption, ChargeKeepsBudget DEF Start
    <3> QED
      BY <2>1, <2>2, <3>1, <3>2 DEF Request, RejectedByCircuit, RejectedByQuota, vars
  <2>3. ASSUME NEW c \in Calls, Finish(c) PROVE BudgetInv'
    <3>1. CASE Succeed(c) \/ Reject(c) \/ Abort(c)
      <4>1. UNCHANGED spent
        BY <3>1 DEF Succeed, Reject, Abort
      <4>2. CASE UNCHANGED windows
        BY <2>1, <4>1, <4>2
      <4>3. CASE \E reported \in Reported : windows' = ReconcileUsedWeight(windows, reported)
        BY <4>1, <4>3, RefreshAssumption, ReconcileKeepsBudget
      <4> QED
        BY <3>1, <4>2, <4>3 DEF Succeed, Reject, Abort, CountHeader
    <3>2. CASE Retry(c)
      <4>1. call[c].weight \in Nat /\ call[c].kind \in Kinds
        BY DEF TypeOK, Call
      <4> QED
        BY <3>2, <4>1, ChargeKeepsBudget DEF Retry
    <3>3. CASE \/ TransportFailure(c) \/ RateLimited(c) \/ WakeTooLate(c)
               \/ RetryRejectedByQuota(c)
      BY <2>1, <3>3 DEF TransportFailure, RateLimited, WakeTooLate,
                        RetryRejectedByQuota, Sleep, Fail
    <3> QED
      BY <2>3, <3>1, <3>2, <3>3 DEF Finish
  <2>4. CASE Tick
    BY <2>4, TickKeepsBudget
  <2>5. CASE UNCHANGED vars
    BY <2>1, <2>5 DEF vars
  <2> QED
    BY <2>2, <2>3, <2>4, <2>5 DEF Next
<1> QED
  BY <1>1, <1>2, TypeCorrect, PTL DEF Spec

(* The weight really sent in a window, retries included, is covered by the   *)
(* local count, fits the limit and leaves the interactive reserve alone.     *)
THEOREM BudgetKeptHolds == Spec => []BudgetKept
<1>1. BudgetInv => BudgetKept
  BY DEF BudgetInv
<1> QED
  BY <1>1, BudgetHolds, PTL

(* A step that leaves the windows alone, or lets time pass, charges nothing. *)
LEMMA NothingCharged ==
    ASSUME TypeOK, BudgetInv, NEW w \in Windows,
           UNCHANGED windows \/ windows' = Elapsed(windows)
    PROVE  ~Charged(w)
<1>1. windows[w] \in Window /\ Length[w] \in Nat \ {0}
  BY QuotaAssumption DEF TypeOK
<1>2. windows'[w].used \in Nat /\ windows'[w].used <= windows[w].used
  BY <1>1 DEF Elapsed, Unstarted, Window
<1>3. windows[w].used <= Current(windows, w).used /\ Current(windows, w).used \in Nat
  BY CurrentCovers, <1>1 DEF Window
<1> QED
  BY <1>1, <1>2, <1>3 DEF Charged, Window

(* A reservation charges every window.                                       *)
LEMMA EveryWindowCharged ==
    ASSUME TypeOK, BudgetInv, NEW weight \in Nat \ {0}, windows' = Reserve(windows, weight)
    PROVE  \A w \in Windows : Charged(w)
<1> SUFFICES ASSUME NEW w \in Windows PROVE Charged(w)
  OBVIOUS
<1>1. windows'[w].used = Current(windows, w).used + weight
  BY DEF Reserve
<1> QED
  BY <1>1, CurrentCovers DEF Charged

(* The weight a refresh in flight carries is one of Weights, so positive.    *)
WeightsPositive == \A c \in InFlight : call[c].weight \in Weights

(* A retry reserves the weight its refresh started with.                     *)
LEMMA WeightsKept == Spec => []WeightsPositive
<1>1. Init => WeightsPositive
  BY DEF Init, WeightsPositive, InFlight, Idle
<1>2. TypeOK /\ WeightsPositive /\ [Next]_vars => WeightsPositive'
  <2> SUFFICES ASSUME TypeOK, WeightsPositive, [Next]_vars,
                      NEW d \in Calls, call'[d].pc # "idle"
               PROVE  call'[d].weight \in Weights
    BY DEF WeightsPositive, InFlight
  <2>0. call[d] \in Call /\ DOMAIN call = Calls
    BY DEF TypeOK
  <2>1. ASSUME call'[d].pc = call[d].pc, call'[d].weight = call[d].weight
        PROVE  call'[d].weight \in Weights
    BY <2>1 DEF WeightsPositive, InFlight
  <2>2. CASE Tick
    BY <2>0, <2>1, <2>2 DEF Tick, Call
  <2>3. ASSUME NEW c \in Calls, Request(c) PROVE call'[d].weight \in Weights
    <3>1. ASSUME NEW kind \in Kinds, NEW weight \in Weights, Start(c, kind, weight)
          PROVE  call'[d].weight \in Weights
      BY <2>0, <2>1, <3>1 DEF Start
    <3> QED
      BY <2>1, <2>3, <3>1 DEF Request, RejectedByCircuit, RejectedByQuota, NotBuilt, vars
  <2>4. ASSUME NEW c \in Calls, Finish(c) PROVE call'[d].weight \in Weights
    <3>1. ASSUME NEW lost \in BOOLEAN, End(c, lost) PROVE call'[d].weight \in Weights
      BY <2>0, <2>1, <3>1 DEF End, Over, Idle, WeightsPositive, InFlight
    <3>2. ASSUME NEW delay \in Nat, Sleep(c, delay), call[c].pc = "sending"
          PROVE  call'[d].weight \in Weights
      BY <2>0, <3>2 DEF Sleep, WeightsPositive, InFlight, Call
    <3>3. CASE Retry(c)
      BY <2>0, <3>3 DEF Retry, WeightsPositive, InFlight, Call
    <3>4. CASE TransportFailure(c) \/ RateLimited(c)
      BY <3>1, <3>2, <3>4, RefreshAssumption DEF TransportFailure, RateLimited, Fail
    <3> QED
      BY <2>4, <3>1, <3>3, <3>4 DEF Finish, Succeed, Reject, WakeTooLate, Fail,
                                    RetryRejectedByQuota, Abort
  <2>5. CASE UNCHANGED vars
    BY <2>1, <2>5 DEF vars
  <2> QED
    BY <2>2, <2>3, <2>4, <2>5 DEF Next
<1> QED
  BY <1>1, <1>2, TypeCorrect, PTL DEF Spec

(* A refused request, first or repeated, charges no window: reserve charges  *)
(* all windows or none, and only an answer's usage header moves one alone.   *)
THEOREM ChargedTogetherHolds == Spec => ChargedTogether
<1>1. TypeOK /\ BudgetInv /\ WeightsPositive /\ [Next]_vars => [AllOrNone]_vars
  <2> SUFFICES ASSUME TypeOK, BudgetInv, WeightsPositive, Next PROVE AllOrNone
    OBVIOUS
  <2>1. ASSUME UNCHANGED windows \/ windows' = Elapsed(windows) PROVE AllOrNone
    BY <2>1, NothingCharged DEF AllOrNone
  <2>2. ASSUME NEW weight \in Weights, windows' = Reserve(windows, weight)
        PROVE  AllOrNone
    BY <2>2, EveryWindowCharged, RefreshAssumption DEF AllOrNone
  <2>3. ASSUME NEW c \in Calls, Request(c) PROVE AllOrNone
    BY <2>1, <2>2, <2>3 DEF Request, RejectedByCircuit, RejectedByQuota, NotBuilt,
                            Start, vars
  <2>4. ASSUME NEW c \in Calls, Finish(c) PROVE AllOrNone
    <3>1. CASE Succeed(c) \/ Reject(c) \/ Abort(c)
      <4>1. CASE UNCHANGED windows
        BY <2>1, <4>1
      <4>2. CASE call[c].pc = "sending" /\ \E lost \in BOOLEAN : End(c, lost)
        <5>1. call'[c].pc = "idle"
          BY <4>2 DEF End, Over, Idle, TypeOK
        <5> QED
          BY <4>2, <5>1 DEF AllOrNone
      <4> QED
        BY <3>1, <4>1, <4>2 DEF Succeed, Reject, Abort
    <3>2. CASE Retry(c)
      BY <2>2, <3>2 DEF Retry, WeightsPositive, InFlight
    <3> QED
      BY <2>1, <2>4, <3>1, <3>2 DEF Finish, TransportFailure, RateLimited, WakeTooLate,
                                    RetryRejectedByQuota, Sleep, Fail
  <2> QED
    BY <2>1, <2>3, <2>4 DEF Next, Tick
<1> QED
  BY <1>1, TypeCorrect, BudgetHolds, WeightsKept, PTL DEF Spec, ChargedTogether

-----------------------------------------------------------------------------
(* The contract.                                                             *)

(* A refresh that is not in flight has sent nothing; one in flight has sent  *)
(* something, and sleeps only if it may send again.                          *)
Counted(f) ==
    /\ f.pc = "idle" => f.attempt = 0 /\ f.left = 0
    /\ f.pc # "idle" => f.attempt > 0
    /\ f.pc = "backoff" => f.attempt < MaxAttempts

AllCounted == \A c \in Calls : Counted(call[c])

(* A refresh counts its requests from its first to its last.                 *)
LEMMA CountsKept == Spec => []AllCounted
<1>1. Init => AllCounted
  BY DEF Init, AllCounted, Counted, Idle
<1>2. TypeOK /\ AllCounted /\ [Next]_vars => AllCounted'
  <2> SUFFICES ASSUME TypeOK, AllCounted, [Next]_vars, NEW d \in Calls
               PROVE  Counted(call'[d])
    BY DEF AllCounted
  <2>0. call[d] \in Call /\ DOMAIN call = Calls /\ Counted(call[d])
    BY DEF TypeOK, AllCounted
  <2>1. ASSUME call'[d] = call[d] PROVE Counted(call'[d])
    BY <2>0, <2>1
  <2>2. CASE Tick
    <3>1. CASE d \in InFlight
      BY <2>0, <2>2, <3>1 DEF Tick, Call, Counted, InFlight
    <3>2. CASE d \notin InFlight
      BY <2>1, <2>2, <3>2 DEF Tick
    <3> QED
      BY <3>1, <3>2
  <2>3. ASSUME NEW c \in Calls, Request(c) PROVE Counted(call'[d])
    <3>1. ASSUME NEW kind \in Kinds, NEW weight \in Weights, Start(c, kind, weight)
          PROVE  Counted(call'[d])
      BY <2>0, <2>1, <3>1 DEF Start, Counted
    <3> QED
      BY <2>1, <2>3, <3>1 DEF Request, RejectedByCircuit, RejectedByQuota, NotBuilt, vars
  <2>4. ASSUME NEW c \in Calls, Finish(c) PROVE Counted(call'[d])
    <3>1. ASSUME NEW lost \in BOOLEAN, End(c, lost) PROVE Counted(call'[d])
      BY <2>0, <2>1, <3>1 DEF End, Over, Idle, Counted
    <3>2. ASSUME NEW delay \in Nat, Sleep(c, delay), MayRetry(c, delay), call[c].pc = "sending"
          PROVE  Counted(call'[d])
      BY <2>0, <2>1, <3>2 DEF Sleep, MayRetry, Call, Counted
    <3>3. CASE Retry(c)
      BY <2>0, <2>1, <3>3 DEF Retry, Call, Counted
    <3>4. CASE TransportFailure(c) \/ RateLimited(c)
      BY <3>1, <3>2, <3>4, RefreshAssumption DEF TransportFailure, RateLimited, Fail
    <3> QED
      BY <2>4, <3>1, <3>3, <3>4 DEF Finish, Succeed, Reject, WakeTooLate, Fail,
                                    RetryRejectedByQuota, Abort
  <2>5. CASE UNCHANGED vars
    BY <2>1, <2>5 DEF vars
  <2> QED
    BY <2>2, <2>3, <2>4, <2>5 DEF Next
<1> QED
  BY <1>1, <1>2, TypeCorrect, PTL DEF Spec

(* What the operations of the breaker do to the streak and to the pause.     *)
LEMMA BreakerAsSeen ==
    ASSUME NEW b \in Breaker, Tripping(b)
    PROVE  /\ StreakOf(b) = FailureThreshold <=> b.state # CLOSED
           /\ Admits(b) => /\ QuietOf(b) = 0
                           /\ QuietOf(AllowRequest(b)) = 0
                           /\ StreakOf(AllowRequest(b)) = StreakOf(b)
           /\ QuietOf(CancelRequest(b)) = QuietOf(b)
           /\ StreakOf(CancelRequest(b)) = StreakOf(b)
           /\ QuietOf(RecordSuccess(b)) = 0 /\ StreakOf(RecordSuccess(b)) = 0
           /\ StreakOf(RecordFailure(b)) = IF StreakOf(b) < FailureThreshold
                                           THEN StreakOf(b) + 1 ELSE FailureThreshold
           /\ QuietOf(RecordFailure(b)) = IF StreakOf(RecordFailure(b)) = FailureThreshold
                                          THEN RecoveryTimeout ELSE 0
           /\ StreakOf(Aged(b)) = StreakOf(b)
           /\ QuietOf(Aged(b)) = IF QuietOf(b) > 0 THEN QuietOf(b) - 1 ELSE 0
<1> USE BreakerAssumption DEF Tripping, Breaker, CLOSED, OPEN, HALF_OPEN, StreakOf, QuietOf
<1>1. StreakOf(b) = FailureThreshold <=> b.state # CLOSED
  OBVIOUS
<1>2. ASSUME Admits(b)
      PROVE  /\ QuietOf(b) = 0 /\ QuietOf(AllowRequest(b)) = 0
             /\ StreakOf(AllowRequest(b)) = StreakOf(b)
  <2>1. CASE b.state = CLOSED
    BY <1>2, <2>1, AdmittedBreaker
  <2>2. CASE b.state # CLOSED
    <3>1. AllowRequest(b).state = HALF_OPEN
      BY <1>2, <2>2, AdmittedBreaker
    <3>2. b.state = OPEN => b.age = RecoveryTimeout
      BY <1>2 DEF Admits, Recovering
    <3>3. AllowRequest(b).failures = b.failures
      BY DEF AllowRequest, HalfOpened, Recovering
    <3> QED
      BY <3>1, <3>2, <3>3
  <2> QED
    BY <2>1, <2>2
<1>3. QuietOf(CancelRequest(b)) = QuietOf(b) /\ StreakOf(CancelRequest(b)) = StreakOf(b)
  BY DEF CancelRequest
<1>4. QuietOf(RecordSuccess(b)) = 0 /\ StreakOf(RecordSuccess(b)) = 0
  BY DEF RecordSuccess, NewBreaker
<1>5. /\ StreakOf(RecordFailure(b)) = IF StreakOf(b) < FailureThreshold
                                      THEN StreakOf(b) + 1 ELSE FailureThreshold
      /\ QuietOf(RecordFailure(b)) = IF StreakOf(RecordFailure(b)) = FailureThreshold
                                     THEN RecoveryTimeout ELSE 0
  <2>1. CASE b.state = HALF_OPEN
    BY <2>1 DEF RecordFailure, Opened
  <2>2. CASE b.state # HALF_OPEN /\ b.failures + 1 >= FailureThreshold
    BY <2>2 DEF RecordFailure, Opened
  <2>3. CASE b.state # HALF_OPEN /\ b.failures + 1 < FailureThreshold
    BY <2>3 DEF RecordFailure
  <2> QED
    BY <2>1, <2>2, <2>3
<1>6. /\ StreakOf(Aged(b)) = StreakOf(b)
      /\ QuietOf(Aged(b)) = IF QuietOf(b) > 0 THEN QuietOf(b) - 1 ELSE 0
  BY DEF Aged
<1> QED
  BY <1>1, <1>2, <1>3, <1>4, <1>5, <1>6

(* The refreshes in flight are those the contract calls busy.                *)
LEMMA BusyInFlight ==
    ASSUME TypeOK, AllCounted
    PROVE  Contract!Busy = InFlight
<1>1. \A c \in Calls : Flights[c].sent = call[c].attempt /\ call[c].attempt \in Nat
  BY DEF Flights, TypeOK, Call
<1>2. \A c \in Calls : call[c].attempt > 0 <=> call[c].pc # "idle"
  BY <1>1 DEF AllCounted, Counted
<1> QED
  BY <1>1, <1>2 DEF Contract!Busy, InFlight

(* The end of a refresh is one of the contract.                              *)
LEMMA EndAsSeen ==
    ASSUME TypeOK, AllCounted, NEW c \in InFlight, NEW lost \in BOOLEAN, End(c, lost)
    PROVE  Contract!End(c)
<1>1. Flights' = [Flights EXCEPT ![c] = Contract!Over]
  BY DEF Flights, End, Over, Idle, TypeOK, Contract!Over
<1> QED
  BY <1>1, BusyInFlight DEF Contract!End

(* What a refresh is asked for: at most one starts.                          *)
LEMMA RequestAsSeen ==
    ASSUME TypeOK, AllCounted, TripsAtThreshold, ProbeInv, RecoveryTimeout > Deadline,
           NEW c \in Calls, Request(c)
    PROVE  Contract!Start(c) \/ UNCHANGED <<Flights, StreakOf(breaker), QuietOf(breaker)>>
<1>1. breaker \in Breaker /\ Tripping(breaker) /\ DOMAIN call = Calls
  BY DEF TypeOK, TripsAtThreshold
<1>2. CASE RejectedByCircuit(c)
  BY <1>2 DEF RejectedByCircuit, vars, Flights
<1>3. ASSUME NEW kind \in Kinds, NEW weight \in Weights,
             RejectedByQuota(c, kind, weight) \/ NotBuilt(c, kind, weight)
      PROVE  UNCHANGED <<Flights, StreakOf(breaker), QuietOf(breaker)>>
  <2>1. Admits(breaker) /\ breaker' = CancelRequest(AllowRequest(breaker)) /\ call' = call
    BY <1>3 DEF RejectedByQuota, NotBuilt
  <2>2. AllowRequest(breaker) \in Breaker /\ Tripping(AllowRequest(breaker))
    BY <1>1, BreakerType, TrippingKept
  <2>3. /\ StreakOf(breaker') = StreakOf(breaker)
        /\ QuietOf(breaker') = 0 /\ QuietOf(breaker) = 0
    BY <1>1, <2>1, <2>2, BreakerAsSeen
  <2>4. Flights' = Flights
    BY <2>1 DEF Flights
  <2> QED
    BY <2>3, <2>4 DEF StreakOf, QuietOf
<1>4. ASSUME NEW kind \in Kinds, NEW weight \in Weights, Start(c, kind, weight)
      PROVE  Contract!Start(c)
  <2>1. Admits(breaker) /\ breaker' = AllowRequest(breaker) /\ c \notin InFlight
    BY <1>4 DEF Start, InFlight
  <2>2. /\ StreakOf(breaker') = StreakOf(breaker)
        /\ QuietOf(breaker') = 0 /\ QuietOf(breaker) = 0
    BY <1>1, <2>1, BreakerAsSeen
  <2>3. StreakOf(breaker) = FailureThreshold => InFlight = {}
    BY <1>1, <2>1, BreakerAsSeen, ProbeAlone
  <2>4. Flights' = [Flights EXCEPT ![c] = [left |-> Deadline, sent |-> 1]]
    BY <1>1, <1>4 DEF Start, Flights
  <2>5. UNCHANGED <<StreakOf(breaker), QuietOf(breaker)>>
    BY <2>2 DEF StreakOf, QuietOf
  <2> QED
    BY <2>1, <2>2, <2>3, <2>4, <2>5, BusyInFlight DEF Contract!Start
<1> QED
  BY <1>2, <1>3, <1>4 DEF Request

(* A recorded failure.                                                       *)
LEMMA FailAsSeen ==
    ASSUME TypeOK, AllCounted, TripsAtThreshold, NEW c \in InFlight, End(c, FALSE),
           breaker' = RecordFailure(breaker)
    PROVE  Contract!Fail(c)
<1>1. breaker \in Breaker /\ Tripping(breaker)
  BY DEF TypeOK, TripsAtThreshold
<1>2. /\ StreakOf(breaker)' = StreakOf(breaker') /\ QuietOf(breaker)' = QuietOf(breaker')
  BY DEF StreakOf, QuietOf
<1>3. /\ StreakOf(breaker)' = IF StreakOf(breaker) < FailureThreshold
                              THEN StreakOf(breaker) + 1 ELSE FailureThreshold
      /\ QuietOf(breaker)' = IF StreakOf(breaker)' = FailureThreshold
                             THEN RecoveryTimeout ELSE 0
  BY <1>1, <1>2, BreakerAsSeen
<1> QED
  BY <1>3, EndAsSeen DEF Contract!Fail

(* What a refresh in flight does.                                            *)
LEMMA FinishAsSeen ==
    ASSUME TypeOK, AllCounted, TripsAtThreshold, NEW c \in Calls, Finish(c)
    PROVE  \/ Contract!Resend(c) \/ Contract!Succeed(c) \/ Contract!Fail(c) \/ Contract!Drop(c)
           \/ UNCHANGED <<Flights, StreakOf(breaker), QuietOf(breaker)>>
<1>0. breaker \in Breaker /\ Tripping(breaker) /\ DOMAIN call = Calls
  BY DEF TypeOK, TripsAtThreshold
<1>1. c \in InFlight
  BY DEF Finish, Succeed, Reject, TransportFailure, RateLimited, WakeTooLate, Retry,
         RetryRejectedByQuota, Abort, InFlight
<1>2. CASE Succeed(c)
  <2>1. StreakOf(breaker)' = 0 /\ QuietOf(breaker)' = 0
    BY <1>0, <1>2, BreakerAsSeen DEF Succeed, StreakOf, QuietOf
  <2> QED
    BY <1>1, <1>2, <2>1, EndAsSeen DEF Succeed, Contract!Succeed
<1>3. CASE Reject(c) \/ WakeTooLate(c)
  BY <1>1, <1>3, FailAsSeen DEF Reject, WakeTooLate, Fail
<1>4. CASE TransportFailure(c) \/ RateLimited(c)
  <2>1. ASSUME NEW delay, Sleep(c, delay)
        PROVE  UNCHANGED <<Flights, StreakOf(breaker), QuietOf(breaker)>>
    <3>1. \A d \in Calls : call'[d].left = call[d].left /\ call'[d].attempt = call[d].attempt
      BY <1>0, <2>1 DEF Sleep, TypeOK, Call
    <3> QED
      BY <2>1, <3>1 DEF Sleep, Flights
  <2> QED
    BY <1>1, <1>4, <2>1, FailAsSeen DEF TransportFailure, RateLimited, Fail
<1>5. CASE Retry(c)
  <2>1. call[c].attempt < MaxAttempts /\ call[c].left > 0
    BY <1>5 DEF Retry, AllCounted, Counted
  <2>2. Flights' = [Flights EXCEPT ![c].sent = @ + 1]
    <3>1. call[c] \in Call
      BY DEF TypeOK
    <3>2. \A d \in Calls : /\ call'[d].left = call[d].left
                           /\ call'[d].attempt = IF d = c THEN call[c].attempt + 1
                                                 ELSE call[d].attempt
      BY <1>0, <1>5 DEF Retry, TypeOK, Call
    <3> QED
      BY <3>2 DEF Flights
  <2>3. UNCHANGED <<StreakOf(breaker), QuietOf(breaker)>>
    BY <1>5 DEF Retry
  <2> QED
    BY <1>1, <2>1, <2>2, <2>3, BusyInFlight DEF Contract!Resend, Flights
<1>6. CASE RetryRejectedByQuota(c) \/ Abort(c)
  <2>1. UNCHANGED <<StreakOf(breaker), QuietOf(breaker)>>
    BY <1>0, <1>6, BreakerAsSeen
       DEF RetryRejectedByQuota, Abort, End, Over, StreakOf, QuietOf
  <2>2. c \in Unhandled \/ (Flights[c].left > 0 /\ Flights[c].sent < MaxAttempts)
    BY <1>6 DEF RetryRejectedByQuota, Abort, Flights, AllCounted, Counted
  <2> QED
    BY <1>1, <1>6, <2>1, <2>2, EndAsSeen DEF RetryRejectedByQuota, Abort, Contract!Drop
<1> QED
  BY <1>2, <1>3, <1>4, <1>5, <1>6 DEF Finish

(* A tick is one of the contract.                                            *)
LEMMA TickAsSeen ==
    ASSUME TypeOK, AllCounted, TripsAtThreshold, Tick
    PROVE  Contract!Tick
<1>1. breaker \in Breaker /\ Tripping(breaker)
  BY DEF TypeOK, TripsAtThreshold
<1>2. /\ StreakOf(breaker)' = StreakOf(breaker)
      /\ QuietOf(breaker)' = IF QuietOf(breaker) > 0 THEN QuietOf(breaker) - 1 ELSE 0
  BY <1>1, BreakerAsSeen DEF Tick, StreakOf, QuietOf
<1>3. \A c \in InFlight : Flights[c].left > 0
  BY DEF Tick, Flights, InFlight
<1>4. Flights' = [c \in Calls |-> IF c \in InFlight THEN [Flights[c] EXCEPT !.left = @ - 1]
                                  ELSE Flights[c]]
  <2>1. \A c \in Calls : /\ call'[c].left = IF c \in InFlight THEN call[c].left - 1
                                            ELSE call[c].left
                         /\ call'[c].attempt = call[c].attempt
    BY DEF Tick, TypeOK, Call
  <2> QED
    BY <2>1 DEF Flights
<1> QED
  BY <1>2, <1>3, <1>4, BusyInFlight DEF Contract!Tick

(* The refreshes over the breaker and the budget implement the contract, if  *)
(* RecoveryTimeout exceeds Deadline.                                         *)
THEOREM ContractImplemented ==
    ASSUME RecoveryTimeout > Deadline
    PROVE  Spec => ImplementsContract
<1> DEFINE Seen == <<Flights, StreakOf(breaker), QuietOf(breaker)>>
<1>1. Init => Contract!Init
  <2> SUFFICES ASSUME Init PROVE Contract!Init
    OBVIOUS
  <2>1. Flights = [c \in Calls |-> Contract!Over]
    BY DEF Init, Idle, Flights, Contract!Over
  <2>2. StreakOf(breaker) = 0 /\ QuietOf(breaker) = 0
    BY BreakerAssumption DEF Init, NewBreaker, StreakOf, QuietOf, CLOSED, OPEN
  <2> QED
    BY <2>1, <2>2 DEF Contract!Init
<1>2. TypeOK /\ AllCounted /\ TripsAtThreshold /\ ProbeInv /\ [Next]_vars => [Contract!Next]_Seen
  <2> SUFFICES ASSUME TypeOK, AllCounted, TripsAtThreshold, ProbeInv, [Next]_vars
               PROVE  Contract!Next \/ UNCHANGED Seen
    OBVIOUS
  <2>1. CASE Tick
    BY <2>1, TickAsSeen DEF Contract!Next
  <2>2. ASSUME NEW c \in Calls, Request(c) PROVE Contract!Next \/ UNCHANGED Seen
    BY <2>2, RequestAsSeen DEF Contract!Next
  <2>3. ASSUME NEW c \in Calls, Finish(c) PROVE Contract!Next \/ UNCHANGED Seen
    BY <2>3, FinishAsSeen DEF Contract!Next
  <2>4. CASE UNCHANGED vars
    BY <2>4 DEF vars, Flights
  <2> QED
    BY <2>1, <2>2, <2>3, <2>4 DEF Next
<1>3. Spec => Contract!Spec
  BY <1>1, <1>2, TypeCorrect, CountsKept, ThresholdHolds, ProbeInvHolds, PTL
  DEF Spec, Contract!Spec
<1> QED
  BY <1>3 DEF ImplementsContract
=============================================================================
