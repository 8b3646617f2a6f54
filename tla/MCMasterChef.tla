---------------------------- MODULE MCMasterChef ----------------------------
(* Instances of MasterChef for TLC.                                        *)
EXTENDS MasterChef, TLC

CONSTANTS u1, u2, lp1, lp2

\* Users and LP tokens are interchangeable; used with invariants only.
Symmetry == Permutations({u1, u2}) \cup Permutations({lp1, lp2})
=============================================================================
