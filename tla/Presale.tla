------------------------------ MODULE Presale ------------------------------
(***************************************************************************)
(* The presale of RAD for USDC (contract RADPresale at the end of          *)
(* src/src/launch_contracts/PresaleContractFlattened.sol): tokens are sold *)
(* under a cap, one for all buyers and one for each, and are claimed in    *)
(* parts over vestDuration once the owner has released them.               *)
(*                                                                         *)
(* One action is one transaction; a transaction that reverts is an action  *)
(* whose guard fails.  The owner acts at any time, may release again, and  *)
(* may sell after the release.  Time starts at 1: block.timestamp is never *)
(* 0, and the code takes lastClaimed = 0 for a first claim.                *)
(***************************************************************************)
EXTENDS Sums

CONSTANTS
  Users,         \* buyers and beneficiaries
  Scale,         \* tokens for one USDC at rate 1, 10^14
  vestDuration,  \* vestDuration, 3 days
  initialRate, initialCap,
  recoverTime,   \* the instant after which the owner may take tokens out
  USDCFunds,     \* USDC each user has at first
  Rates,         \* rates the owner may set, besides 0
  Caps,          \* caps the owner may set, for all and for a buyer
  Amounts,       \* bound: the USDC of one purchase
  Deliveries,    \* bound: the RAD sent or taken out at a time
  RADFunds,      \* bound: the RAD there is to send to the contracts
  MaxTime,       \* bound: the last instant
  MaxCalls       \* bound: the transactions

ASSUME PresaleAssumption ==
  /\ IsFiniteSet(Users)
  /\ Scale \in Nat /\ vestDuration \in Nat \ {0}
  /\ initialRate \in Nat \ {0} /\ initialCap \in Nat
  /\ recoverTime \in Nat /\ USDCFunds \in Nat
  /\ Rates \subseteq Nat /\ Caps \subseteq Nat
  /\ Amounts \subseteq Nat /\ Deliveries \subseteq Nat
  /\ RADFunds \in Nat /\ MaxTime \in Nat \ {0} /\ MaxCalls \in Nat

VARIABLES
  now,          \* block.timestamp
  rate, cap, userCap, sold, usdcRaised,
  userInfo,     \* [user]
  released, releaseTime,
  radHeld,      \* the contract's RAD
  usdc,         \* [user]: USDC outside the contract
  supply,       \* RAD that has not been sent to the contracts
  (* History, read by the properties and by bounds only. *)
  firstRelease, \* when the owner released for the first time
  calls         \* transactions so far

terms == <<rate, cap, userCap>>
sale == <<sold, usdcRaised, usdc>>
vesting == <<released, releaseTime, firstRelease>>
presale == <<terms, sale, vesting, userInfo, radHeld>>
presaleVars == <<now, presale, supply, calls>>

UserInfo == [claimable : Nat, contributed : Nat, lastClaimed : Nat, claimed : Nat]

PresaleInit ==
  /\ now = 1
  /\ rate = initialRate /\ cap = initialCap /\ userCap = 0
  /\ sold = 0 /\ usdcRaised = 0
  /\ userInfo = [u \in Users |->
       [claimable |-> 0, contributed |-> 0, lastClaimed |-> 0, claimed |-> 0]]
  /\ released = FALSE /\ releaseTime = 0 /\ firstRelease = 0
  /\ radHeld = 0 /\ supply = RADFunds
  /\ usdc = [u \in Users |-> USDCFunds]
  /\ calls = 0

Call == calls < MaxCalls /\ calls' = calls + 1

-----------------------------------------------------------------------------
(* The sale.                                                               *)

TokenAmount(amount) == (amount * Scale) \div rate

Bought(user, amount) ==
  [user EXCEPT !.contributed = @ + amount, !.claimable = @ + TokenAmount(amount)]

\* Mutated form of BuyTokens: the cap is compared with what was sold before.
BuyPastCap(payer, beneficiary, amount) ==
  /\ Call
  /\ userInfo[beneficiary].contributed + amount <= userCap
  /\ amount # 0 /\ amount <= usdc[payer]
  /\ sold <= cap
  /\ userInfo' = [userInfo EXCEPT ![beneficiary] = Bought(@, amount)]
  /\ sold' = sold + TokenAmount(amount)
  /\ usdcRaised' = usdcRaised + amount
  /\ usdc' = [usdc EXCEPT ![payer] = @ - amount]
  /\ UNCHANGED <<now, terms, vesting, radHeld, supply>>

BuyTokens(payer, beneficiary, amount) ==
  /\ Call
  /\ userInfo[beneficiary].contributed + amount <= userCap
  /\ amount # 0 /\ amount <= usdc[payer]
  /\ sold + TokenAmount(amount) <= cap
  /\ userInfo' = [userInfo EXCEPT ![beneficiary] = Bought(@, amount)]
  /\ sold' = sold + TokenAmount(amount)
  /\ usdcRaised' = usdcRaised + amount
  /\ usdc' = [usdc EXCEPT ![payer] = @ - amount]
  /\ UNCHANGED <<now, terms, vesting, radHeld, supply>>

-----------------------------------------------------------------------------
(* The owner.                                                              *)

SetRate(newRate) ==
  /\ Call
  /\ newRate > 0
  /\ rate' = newRate
  /\ UNCHANGED <<now, cap, userCap, sale, vesting, userInfo, radHeld, supply>>

SetCap(newCap) ==
  /\ Call
  /\ newCap > sold
  /\ cap' = newCap
  /\ UNCHANGED <<now, rate, userCap, sale, vesting, userInfo, radHeld, supply>>

\* Mutated form of SetUserCap: the cap may be lowered as well.
SetUserCapAnyhow(newCap) ==
  /\ Call
  /\ userCap' = newCap
  /\ UNCHANGED <<now, rate, cap, sale, vesting, userInfo, radHeld, supply>>

SetUserCap(newCap) ==
  /\ Call
  /\ newCap > userCap
  /\ userCap' = newCap
  /\ UNCHANGED <<now, rate, cap, sale, vesting, userInfo, radHeld, supply>>

\* release() may be called again: the time of release is then a later one.
Release ==
  /\ Call
  /\ released' = TRUE
  /\ releaseTime' = now
  /\ firstRelease' = IF released THEN firstRelease ELSE now
  /\ UNCHANGED <<now, terms, sale, userInfo, radHeld, supply>>

\* RAD reaches the contract by plain transfers, and leaves it again by
\* governanceRecoverUnsupported; what the owner takes leaves the model.
SendRAD(amount) ==
  /\ Call
  /\ amount <= supply
  /\ supply' = supply - amount
  /\ radHeld' = radHeld + amount
  /\ UNCHANGED <<now, terms, sale, vesting, userInfo>>

RecoverRAD(amount) ==
  /\ Call
  /\ now > recoverTime
  /\ amount <= radHeld
  /\ radHeld' = radHeld - amount
  /\ UNCHANGED <<now, terms, sale, vesting, userInfo, supply>>

-----------------------------------------------------------------------------
(* Claims, which anybody may make for a beneficiary.                       *)

\* Since when the tokens of the next claim vest.
VestsFrom(user) == IF user.lastClaimed = 0 THEN releaseTime ELSE user.lastClaimed

Claiming(user) ==
  LET timePass == now - VestsFrom(user)
  IN IF timePass >= vestDuration \/ now - releaseTime >= vestDuration
     THEN user.claimable - user.claimed
     ELSE (user.claimable * timePass) \div vestDuration

\* Mutated form of Claimed: the time of the claim is not kept.
ClaimedUnclocked(user) ==
  [user EXCEPT !.lastClaimed = VestsFrom(user), !.claimed = @ + Claiming(user)]

Claimed(user) ==
  [user EXCEPT !.lastClaimed = now, !.claimed = @ + Claiming(user)]

Claim(u) ==
  /\ Call
  /\ released
  /\ userInfo[u].claimed < userInfo[u].claimable
  /\ Claiming(userInfo[u]) <= radHeld
  /\ userInfo' = [userInfo EXCEPT ![u] = Claimed(@)]
  /\ radHeld' = radHeld - Claiming(userInfo[u])
  /\ UNCHANGED <<now, terms, sale, vesting, supply>>

Tick ==
  /\ now < MaxTime
  /\ now' = now + 1
  /\ UNCHANGED <<presale, supply, calls>>

PresaleNext ==
  \/ \E payer, beneficiary \in Users, amount \in Amounts : BuyTokens(payer, beneficiary, amount)
  \/ \E newRate \in Rates : SetRate(newRate)
  \/ \E newCap \in Caps : SetCap(newCap) \/ SetUserCap(newCap)
  \/ Release
  \/ \E amount \in Deliveries : SendRAD(amount) \/ RecoverRAD(amount)
  \/ \E u \in Users : Claim(u)

-----------------------------------------------------------------------------
(* Properties.                                                             *)

\* Types; in particular nobody has contributed more than a buyer may, however
\* the owner changes that (setUserCap only raises it), and no claim is dated
\* before the first release or later than now.
PresaleTypeOK ==
  /\ now \in 1 .. MaxTime
  /\ rate \in Nat \ {0} /\ cap \in Nat /\ userCap \in Nat
  /\ sold \in Nat /\ usdcRaised \in Nat
  /\ userInfo \in [Users -> UserInfo]
  /\ released \in BOOLEAN /\ releaseTime \in 0 .. now /\ firstRelease \in 0 .. releaseTime
  /\ radHeld \in Nat /\ supply \in Nat /\ usdc \in [Users -> Nat] /\ calls \in 0 .. MaxCalls
  /\ \A u \in Users :
       /\ userInfo[u].contributed <= userCap
       /\ userInfo[u].lastClaimed # 0 => userInfo[u].lastClaimed \in firstRelease .. now

SumOfUsers(f) == SumOver(f, EnumerationOf(Users))

\* Whoever pays for whom, at whatever rate and under whatever caps: what was
\* sold is what the beneficiaries may claim in the end and stays within the
\* cap, and what was raised is what was contributed for them
\* (PresaleContractFlattened.sol:1765-1800 and 1872-1875).
SalesAddUp ==
  /\ sold = SumOfUsers([u \in Users |-> userInfo[u].claimable])
  /\ sold <= cap
  /\ usdcRaised = SumOfUsers([u \in Users |-> userInfo[u].contributed])

\* Claims in parts, at whatever times and with purchases in between, never
\* come ahead of the time passed since the first release, even when the owner
\* releases again; and as long as the owner does not, nobody is paid more
\* than he bought.  (Released again, claims count on from the old date and
\* may pass the purchase: PresaleContractFlattened.sol:1802-1836.)
VestingIsKept ==
  \A u \in Users :
    LET user == userInfo[u]
    IN /\ user.claimed * vestDuration <= user.claimable * (now - firstRelease)
       /\ releaseTime = firstRelease => user.claimed <= user.claimable
=============================================================================
