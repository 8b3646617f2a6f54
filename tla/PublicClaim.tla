---------------------------- MODULE PublicClaim ----------------------------
(***************************************************************************)
(* The public claim (contract RADTClaim at the end of                      *)
(* src/src/launch_contracts/RADTPublicClaim.sol) beside the presale whose  *)
(* userInfo it reads: it pays what a beneficiary bought in the presale a   *)
(* second way, with a release, a book and a balance of its own.            *)
(***************************************************************************)
EXTENDS Presale

CONSTANTS
  guestList,   \* beneficiaries it refuses
  unlockTime,  \* 3 days, by which the unlocked amount is divided
  fullTime     \* 7 days, after which all is unlocked

ASSUME PublicClaimAssumption ==
  /\ guestList \subseteq Users
  /\ unlockTime \in Nat \ {0} /\ fullTime \in Nat /\ unlockTime <= fullTime

VARIABLES
  claimReleased, claimReleaseTime,
  publicClaimed,  \* [user]: claimed
  claimHeld       \* the contract's RADT

public == <<claimReleased, claimReleaseTime, publicClaimed, claimHeld>>
vars == <<presaleVars, public>>

Init ==
  /\ PresaleInit
  /\ claimReleased = FALSE /\ claimReleaseTime = 0
  /\ publicClaimed = [u \in Users |-> 0]
  /\ claimHeld = 0

ReleaseClaims ==
  /\ Call
  /\ claimReleased' = TRUE
  /\ claimReleaseTime' = now
  /\ UNCHANGED <<now, presale, supply, publicClaimed, claimHeld>>

SendRADT(amount) ==
  /\ Call
  /\ amount <= supply
  /\ supply' = supply - amount
  /\ claimHeld' = claimHeld + amount
  /\ UNCHANGED <<now, presale, claimReleased, claimReleaseTime, publicClaimed>>

RecoverRADT(amount) ==
  /\ Call
  /\ amount <= claimHeld
  /\ claimHeld' = claimHeld - amount
  /\ UNCHANGED <<now, presale, supply, claimReleased, claimReleaseTime, publicClaimed>>

\* _unlocked
Unlocked(u) ==
  LET timePass == now - claimReleaseTime
  IN IF timePass >= fullTime THEN userInfo[u].claimable
     ELSE (userInfo[u].claimable * timePass) \div unlockTime

\* Mutated form of ClaimUnlocked: what was claimed before is paid again.
ClaimUnlockedAgain(u) ==
  /\ Call
  /\ u \notin guestList
  /\ claimReleased
  /\ Unlocked(u) > 0 /\ Unlocked(u) <= claimHeld
  /\ publicClaimed' = [publicClaimed EXCEPT ![u] = @ + Unlocked(u)]
  /\ claimHeld' = claimHeld - Unlocked(u)
  /\ UNCHANGED <<now, presale, supply, claimReleased, claimReleaseTime>>

\* claim; it reverts as well when less is unlocked than was claimed, as it
\* is after a second release, or after fullTime for who claimed shortly before.
ClaimUnlocked(u) ==
  LET claiming == Unlocked(u) - publicClaimed[u]
  IN /\ Call
     /\ u \notin guestList
     /\ claimReleased
     /\ claiming > 0 /\ claiming <= claimHeld
     /\ publicClaimed' = [publicClaimed EXCEPT ![u] = @ + claiming]
     /\ claimHeld' = claimHeld - claiming
     /\ UNCHANGED <<now, presale, supply, claimReleased, claimReleaseTime>>

Next ==
  \/ PresaleNext /\ UNCHANGED public
  \/ Tick /\ UNCHANGED public
  \/ ReleaseClaims
  \/ \E amount \in Deliveries : SendRADT(amount) \/ RecoverRADT(amount)
  \/ \E u \in Users : ClaimUnlocked(u)

Spec == Init /\ [][Next]_vars

-----------------------------------------------------------------------------
(* Properties.                                                             *)

\* Types of both contracts.
TypeOK ==
  /\ PresaleTypeOK
  /\ claimReleased \in BOOLEAN /\ claimReleaseTime \in 0 .. now
  /\ publicClaimed \in [Users -> Nat] /\ claimHeld \in Nat

\* Whatever the owner releases again and whatever is bought in between, the
\* public claim pays nobody more than fullTime / unlockTime of his purchase.
\* It is no less: _unlocked (RADTPublicClaim.sol:341-351) divides by 3 days
\* until 7 days have passed, so that the most is unlocked just before "fully
\* unlocked", and the 3 days of the presale are not where it stops.
OverpaidUntilFullOnly ==
  \A u \in Users : publicClaimed[u] * unlockTime <= userInfo[u].claimable * fullTime
=============================================================================
