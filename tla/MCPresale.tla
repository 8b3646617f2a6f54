----------------------------- MODULE MCPresale -----------------------------
(* Two buyers, one of them on the guest list, for TLC. *)
EXTENDS PublicClaim

CONSTANTS u1, u2
=============================================================================
