------------------------------- MODULE MCDLPVault -------------------------------
(* Small instances of DLPVault for TLC. *)
EXTENDS DLPVault, TLC

CONSTANTS u1, u2

MCUsers == {u1, u2}
QueueFunds == u1 :> 2 @@ u2 :> 1 @@ Admin :> 1 @@ Treasury :> 0 @@ Pool :> 0
QueueAmounts == {1, 2}

PricingUsers == {u1}
PricingFunds == u1 :> 5 @@ Admin :> 0 @@ Treasury :> 0 @@ Pool :> 1
PricingAmounts == {1, 2, 4}
=================================================================================
