--------------------------- MODULE RefreshContract ---------------------------
(***************************************************************************)
(* What the refreshes of one provider promise together, to the caches that *)
(* wait for them and to the provider: a refresh sends at most MaxAttempts  *)
(* requests and is over by its deadline; and a provider that has failed    *)
(* FailureThreshold times in a row is left alone for RecoveryTimeout ticks *)
(* and is then tried by one refresh at a time until one succeeds.  What was*)
(* admitted before may still send, as in the code, and be counted          *)
(* (docs/architecture.md, providers/circuit_breaker.py:29).                *)
(*                                                                         *)
(* There is no circuit here, no budget, no backoff and no status code.     *)
(***************************************************************************)
EXTENDS Naturals

CONSTANTS Calls, MaxAttempts, Deadline, FailureThreshold, RecoveryTimeout, Unhandled

VARIABLES refresh,   \* refresh[c]: the ticks it may still take, the requests it sent
          streak,    \* failures in a row, up to FailureThreshold
          quiet      \* ticks the provider is still left alone

Over == [left |-> 0, sent |-> 0]
Busy == {c \in Calls : refresh[c].sent > 0}

Start(c) ==
    /\ c \notin Busy
    /\ quiet = 0
    /\ streak = FailureThreshold => Busy = {}
    /\ refresh' = [refresh EXCEPT ![c] = [left |-> Deadline, sent |-> 1]]
    /\ UNCHANGED <<streak, quiet>>

(* Sent by a refresh that was admitted: nothing asks whether others have     *)
(* failed since (the documents would ask: ProviderRefresh!StopsCalling).     *)
Resend(c) ==
    /\ c \in Busy
    /\ refresh[c].left > 0
    /\ refresh[c].sent < MaxAttempts
    /\ refresh' = [refresh EXCEPT ![c].sent = @ + 1]
    /\ UNCHANGED <<streak, quiet>>

End(c) == c \in Busy /\ refresh' = [refresh EXCEPT ![c] = Over]

Succeed(c) == End(c) /\ streak' = 0 /\ quiet' = 0

(* A late failure counts like any other and prolongs the pause.              *)
Fail(c) ==
    /\ End(c)
    /\ streak' = IF streak < FailureThreshold THEN streak + 1 ELSE FailureThreshold
    /\ quiet' = IF streak' = FailureThreshold THEN RecoveryTimeout ELSE 0

(* No verdict: the budget refused another request, or nobody handled an      *)
(* exception.                                                                *)
Drop(c) ==
    /\ End(c)
    /\ c \in Unhandled \/ (refresh[c].left > 0 /\ refresh[c].sent < MaxAttempts)
    /\ UNCHANGED <<streak, quiet>>

Tick ==
    /\ \A c \in Busy : refresh[c].left > 0
    /\ refresh' = [c \in Calls |->
                     IF c \in Busy THEN [refresh[c] EXCEPT !.left = @ - 1] ELSE refresh[c]]
    /\ quiet' = IF quiet > 0 THEN quiet - 1 ELSE 0
    /\ UNCHANGED streak

Init == refresh = [c \in Calls |-> Over] /\ streak = 0 /\ quiet = 0

Next ==
    \/ Tick
    \/ \E c \in Calls : Start(c) \/ Resend(c) \/ Succeed(c) \/ Fail(c) \/ Drop(c)

Spec == Init /\ [][Next]_<<refresh, streak, quiet>>
=============================================================================
