---------------------------- MODULE MCStockUploads ----------------------------
(***************************************************************************)
(* Small instances of StockUploads: two contents of different length for   *)
(* two assets, and limits that two uploads reach.                          *)
(***************************************************************************)
EXTENDS StockUploads, TLC

CONSTANTS short, long

Lengths == short :> 1 @@ long :> 2

Symmetric == Permutations(Clients) \cup Permutations(Uploads) \cup Permutations(Assets)
=============================================================================
