------------------------- MODULE MCIdentitySessions -------------------------
(***************************************************************************)
(* Small instances of IdentitySessions: requests and rows of a table are   *)
(* interchangeable.                                                        *)
(***************************************************************************)
EXTENDS IdentitySessions, TLC

Symmetric == Permutations(Clients) \cup Permutations(Sessions)
=============================================================================
