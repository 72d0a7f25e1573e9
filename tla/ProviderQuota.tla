---------------------------- MODULE ProviderQuota ----------------------------
(***************************************************************************)
(* The request budget of one provider (backend/app/providers/quota.py):    *)
(* one or more fixed windows, all checked before any is charged, with part *)
(* of each window kept for interactive requests, and a usage header of the *)
(* provider that may only raise the count of the shortest window.          *)
(*                                                                         *)
(* A window that has run its length and one that was never started behave  *)
(* alike, so both are a window of full age with nothing used.              *)
(***************************************************************************)
EXTENDS Naturals

CONSTANTS Windows,             \* the provider's policies
          Limit,               \* Limit[w]: weight a window admits
          Length,              \* Length[w]: its length in ticks
          InteractiveReserve   \* InteractiveReserve[w]: kept from scheduled work

INTERACTIVE == "interactive"
SCHEDULED   == "scheduled"
Kinds       == {INTERACTIVE, SCHEDULED}

ASSUME QuotaAssumption ==
    /\ Windows # {}
    /\ Limit \in [Windows -> Nat \ {0}]
    /\ Length \in [Windows -> Nat \ {0}]
    /\ InteractiveReserve \in [Windows -> Nat]
    /\ \A w \in Windows : InteractiveReserve[w] <= Limit[w]
    /\ \A v, w \in Windows : Length[v] = Length[w] => v = w
    /\ \E s \in Windows : \A w \in Windows : Length[s] <= Length[w]

Window == [used : Nat, age : Nat]

(* Policies are sorted by length; the header counts against the first.       *)
Shortest == CHOOSE s \in Windows : \A w \in Windows : Length[s] <= Length[w]

Unstarted(w) == [used |-> 0, age |-> Length[w]]

NoWindows == [w \in Windows |-> Unstarted(w)]

(* The window a request made now is counted in.                              *)
Current(q, w) ==
    IF q[w].age >= Length[w] THEN [used |-> 0, age |-> 0] ELSE q[w]

EffectiveLimit(w, kind) ==
    IF kind = SCHEDULED THEN Limit[w] - InteractiveReserve[w] ELSE Limit[w]

CanReserve(q, weight, kind) ==
    \A w \in Windows : Current(q, w).used + weight <= EffectiveLimit(w, kind)

Reserve(q, weight) ==
    [w \in Windows |-> [used |-> Current(q, w).used + weight,
                        age  |-> Current(q, w).age]]

(* Fault: the provider's count replaces a higher local one.                  *)
ReconcileOverwrite(q, reported) ==
    [q EXCEPT ![Shortest] = [used |-> reported, age |-> Current(q, Shortest).age]]

(* reconcile_used_weight starts the shortest window if it has run out.       *)
ReconcileUsedWeight(q, reported) ==
    LET now == Current(q, Shortest)
    IN  [q EXCEPT ![Shortest] =
            [used |-> IF reported > now.used THEN reported ELSE now.used,
             age  |-> now.age]]

(* One tick of the monotonic clock.                                          *)
Elapsed(q) ==
    [w \in Windows |->
        IF q[w].age + 1 >= Length[w] THEN Unstarted(w)
        ELSE [used |-> q[w].used, age |-> q[w].age + 1]]
=============================================================================
