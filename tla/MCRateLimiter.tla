---------------------------- MODULE MCRateLimiter ----------------------------
(* Instances of RateLimiter for TLC.  Clients are interchangeable: no window *)
(* or history depends on which one it is.                                    *)
EXTENDS RateLimiter, TLC

Symmetry == Permutations(Clients)
=============================================================================
