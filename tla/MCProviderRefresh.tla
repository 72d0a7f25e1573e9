-------------------------- MODULE MCProviderRefresh --------------------------
(***************************************************************************)
(* Small instances of ProviderRefresh.  The wide budget never refuses; the *)
(* tight one has two windows of different lengths, a reserve, and a limit  *)
(* that retries can exhaust.                                               *)
(***************************************************************************)
EXTENDS ProviderRefresh

OneWindow == {"minute"}
TwoWindows == {"second", "minute"}

WideLimit == [w \in OneWindow |-> 4]
WideLength == [w \in OneWindow |-> 2]
WideReserve == [w \in OneWindow |-> 0]

TightLimit == [w \in TwoWindows |-> IF w = "second" THEN 2 ELSE 3]
TightLength == [w \in TwoWindows |-> IF w = "second" THEN 1 ELSE 3]
TightReserve == [w \in TwoWindows |-> IF w = "second" THEN 0 ELSE 1]

AfterDelay == {0, 2}
BackoffDelays == {0, 1}
=============================================================================
