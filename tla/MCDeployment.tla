----------------------------- MODULE MCDeployment -----------------------------
(* Small instances of Deployment for TLC.                                    *)
EXTENDS Deployment, TLC

Symmetry == Permutations(Askers) \cup Permutations(Users)
=============================================================================
