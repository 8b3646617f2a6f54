---------------------------- MODULE MCLeverager ----------------------------
(* Small instances of Leverager for TLC.                                   *)
EXTENDS Leverager, TLC

CONSTANTS u1, u2

\* Indices that grow by a quarter and by a half of a ray per instant.
MCIncome == [t \in Times |-> RAY + (t \div 2) * (RAY \div 4)]
MCDebt == [t \in Times |-> RAY + (t \div 2) * (RAY \div 2)]
=============================================================================
