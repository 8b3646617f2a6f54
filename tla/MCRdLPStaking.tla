---------------------------- MODULE MCRdLPStaking ----------------------------
(* Two users and two LP tokens, in no order, for TLC. *)
EXTENDS RdLPStaking, TLC

CONSTANTS u1, u2, lpA, lpB

Permuted == Permutations(Users) \cup Permutations(LPTokens)
=============================================================================
