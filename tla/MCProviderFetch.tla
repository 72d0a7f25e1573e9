--------------------------- MODULE MCProviderFetch ---------------------------
(***************************************************************************)
(* A small instance of ProviderFetch: callers of two API processes that    *)
(* share Redis.                                                            *)
(***************************************************************************)
EXTENDS ProviderFetch, TLC

CONSTANTS c1, c2, c3, p1, p2

TwoProcesses == c1 :> p1 @@ c2 :> p1 @@ c3 :> p2
=============================================================================
