---------------------------- MODULE VestedClaims ----------------------------
(***************************************************************************)
(* What the Leverager promises to those who claim: a claim is issued for   *)
(* an amount, a fee and a receiver, none of which changes any more; after  *)
(* its expiry, and not before, it is settled, once, by paying exactly the  *)
(* amount to the receiver and the fee to the distributor.                  *)
(* Leverager implements this specification, see Leverager!Escrow.          *)
(***************************************************************************)
EXTENDS Integers, Sequences

CONSTANT Receivers

VARIABLES
  now,
  issued,       \* the claims in the order they were issued
  settled,      \* the indices of those that were paid
  received,     \* [receiver]: what was paid to them
  distributed   \* fees passed on

escrowVars == <<now, issued, settled, received, distributed>>

VestedClaim == [amount : Nat \ {0}, feeAmount : Nat, receiver : Receivers, expireAt : Nat]

EscrowInit ==
  /\ issued = <<>>
  /\ settled = {}
  /\ received = [r \in Receivers |-> 0]
  /\ distributed = 0

Pass ==
  /\ now' > now
  /\ UNCHANGED <<issued, settled, received, distributed>>

\* One more claim, that will expire later.
Issue ==
  LET claim == issued'[Len(issued) + 1]
  IN /\ Len(issued') = Len(issued) + 1
     /\ issued' = Append(issued, claim)
     /\ claim \in VestedClaim /\ claim.expireAt > now
     /\ UNCHANGED <<now, settled, received, distributed>>

Settle(i) ==
  /\ i \notin settled
  /\ issued[i].expireAt < now
  /\ settled' = settled \cup {i}
  /\ received' = [received EXCEPT ![issued[i].receiver] = @ + issued[i].amount]
  /\ distributed' = distributed + issued[i].feeAmount
  /\ UNCHANGED <<now, issued>>

EscrowNext ==
  \/ Pass
  \/ Issue
  \/ \E i \in 1 .. Len(issued) : Settle(i)

EscrowSpec == EscrowInit /\ [][EscrowNext]_escrowVars
=============================================================================
