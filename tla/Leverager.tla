----------------------------- MODULE Leverager -----------------------------
(***************************************************************************)
(* The Leverager (src/src/policies/Leverager_Audit.sol) with the parts of  *)
(* the DLP vault it calls (DLPVault_Audit.sol).  Stakers lend an asset     *)
(* through it, looped once with a flash loan; the position is held by the  *)
(* vault, and the RDNT it earns is shared among the stakers by one         *)
(* accumulator, vests, and is paid with the fee going to the MasterChef.   *)
(*                                                                         *)
(* One action is one transaction; a transaction that reverts is an action  *)
(* whose guard fails.  Radiant's lending pool, incentives controller and   *)
(* MultiFeeDistribution (MFD) are external: scaled balances with rounded   *)
(* ray arithmetic, an amount that grows with time, and a record of when    *)
(* each reward started to vest.  The checks on the health of a loan are    *)
(* left out: they only make transactions revert.                           *)
(***************************************************************************)
EXTENDS Sums

CONSTANTS
  Users,          \* accounts that stake
  MULTIPLIER,     \* 100% of fee, borrowRatio and flash loan premium
  PRECISION,      \* precision of the accumulator
  RAY,            \* precision of the indices
  Fee,            \* fee
  BorrowRatio,    \* borrowRatio
  PremiumRate,    \* what a flash loan costs
  VestDuration,   \* MFD.vestDuration()
  Threshold,      \* the least amount of an aToken reward that the vault swaps
  MaxTime,        \* bound: the last instant
  IncomeIndex,    \* [time]: getReserveNormalizedIncome
  DebtIndex,      \* [time]: getReserveNormalizedVariableDebt
  Amounts,        \* bound: the amounts users stake and unstake
  RewardFunds,    \* bound: the RDNT there is to earn
  Harvests,       \* bound: the aTokens the vault may harvest at once
  MaxHarvests,    \* bound: how many times it harvests them
  MaxMoves,       \* bound: how many times users stake or unstake
  MaxClaims       \* bound: the claims made

Times == 0 .. MaxTime

ASSUME LeveragerAssumption ==
  /\ IsFiniteSet(Users)
  /\ MULTIPLIER \in Nat /\ PRECISION \in Nat \ {0} /\ RAY \in Nat \ {0}
  /\ Fee \in Nat /\ Fee < MULTIPLIER              \* else initialize reverts
  /\ BorrowRatio \in Nat /\ BorrowRatio < MULTIPLIER
  /\ PremiumRate \in Nat /\ VestDuration \in Nat \ {0} /\ Threshold \in Nat
  /\ MaxTime \in Nat
  /\ IncomeIndex \in [Times -> Nat] /\ DebtIndex \in [Times -> Nat]
  /\ \A t \in Times : IncomeIndex[t] >= RAY /\ DebtIndex[t] >= RAY  \* they start at one ray
  /\ \A s, t \in Times : s <= t => IncomeIndex[s] <= IncomeIndex[t]  \* interest is not negative
  /\ Amounts \subseteq Nat /\ RewardFunds \in Nat /\ Harvests \subseteq Nat
  /\ MaxHarvests \in Nat /\ MaxMoves \in Nat /\ MaxClaims \in Nat

VARIABLES
  (* The Leverager. *)
  accTokenPerShare,
  totalSB,
  stakeInfo,     \* [user]
  claimInfo,     \* the claims; claimIndex is its length
  userClaims,    \* [user]: _userClaims
  (* The rest of the system. *)
  now,           \* block.timestamp
  position,      \* the vault's scaled balances at the lending pool
  aTokenReward,  \* the vault's reward.pending of the aToken
  funds,         \* RDNT that nobody has earned yet
  chefPending,   \* CHEF.pendingRewards(vault)
  vesting,       \* [time]: the vault's RDNT that started to vest then
  distributorOpen,      \* distributor.receiveReward does not revert: no pool is empty
  paid,          \* [user]: RDNT paid
  distributed,   \* fees passed on to the distributor
  (* History, read by the properties and by bounds only. *)
  collected,     \* RDNT that was shared out
  harvests,      \* times the vault harvested aTokens
  moves          \* stakes and unstakes so far

rewardVars == <<accTokenPerShare, collected, chefPending, vesting>>
claimVars == <<claimInfo, userClaims, paid, distributed>>
environment == <<now, funds, distributorOpen>>
vars == <<rewardVars, claimVars, environment, totalSB, stakeInfo, position, aTokenReward,
          harvests, moves>>

Stakes == [aTSB : Nat, dTSB : Nat, pending : Nat, debt : Nat]
Claims == [amount : Nat, feeAmount : Nat, receiver : Users, isClaimed : BOOLEAN, expireAt : Nat]
Positions == [aToken : Nat, debt : Nat]

Init ==
  /\ accTokenPerShare = 0
  /\ totalSB = 0
  /\ stakeInfo = [u \in Users |-> [aTSB |-> 0, dTSB |-> 0, pending |-> 0, debt |-> 0]]
  /\ claimInfo = <<>>
  /\ userClaims = [u \in Users |-> {}]
  /\ now = 0
  /\ position = [aToken |-> 0, debt |-> 0]
  /\ aTokenReward = 0
  /\ funds = RewardFunds
  /\ chefPending = 0
  /\ vesting = [t \in Times |-> 0]
  /\ distributorOpen = FALSE
  /\ paid = [u \in Users |-> 0]
  /\ distributed = 0
  /\ collected = 0 /\ harvests = 0 /\ moves = 0

-----------------------------------------------------------------------------
(* The lending pool, as the contracts use it.  It refuses to mint, burn or *)
(* withdraw nothing of a scaled balance.                                   *)

RayMul(a, b) == (a * b + RAY \div 2) \div RAY

RayDiv(a, b) == (a * RAY + b \div 2) \div b

ATokens(scaled) == RayMul(scaled, IncomeIndex[now])

DebtTokens(scaled) == RayMul(scaled, DebtIndex[now])

Deposited(p, amount) == [p EXCEPT !.aToken = @ + RayDiv(amount, IncomeIndex[now])]

Borrowed(p, amount) == [p EXCEPT !.debt = @ + RayDiv(amount, DebtIndex[now])]

\* repay takes no more than the debt
Repaid(p, amount) ==
  LET due == DebtTokens(p.debt)
      repaid == IF amount < due THEN amount ELSE due
  IN [p EXCEPT !.debt = @ - RayDiv(repaid, DebtIndex[now])]

Withdrawn(p, amount) == [p EXCEPT !.aToken = @ - RayDiv(amount, IncomeIndex[now])]

Premium(amount) == (amount * PremiumRate + MULTIPLIER \div 2) \div MULTIPLIER

-----------------------------------------------------------------------------
(* Looping and unlooping.                                                  *)

LoanFor(amount) == (amount * BorrowRatio) \div (MULTIPLIER - BorrowRatio)

\* _loop with executeOperation: deposit, and deposit a flash loan that is
\* paid back by borrowing
Looped(p, amount) ==
  LET loan == LoanFor(amount)
      own == Deposited(p, amount)
  IN IF loan = 0 THEN own
     ELSE Borrowed(Deposited(own, loan), loan + Premium(loan))

\* what has to be repaid to take amount out: the same share of the debt
RepayFor(aTokens, debtTokens, amount) ==
  (debtTokens * amount + (aTokens - debtTokens) - 1) \div (aTokens - debtTokens)

\* the vault's executeOperation: repay, pay the flash loan back, and
\* withdraw the rest for the account
Unlooped(p, amount, repay) ==
  LET less == Withdrawn(Repaid(p, repay), repay + Premium(repay))
      rest == amount - Premium(repay)
      balance == ATokens(less.aToken)
  IN Withdrawn(less, IF rest < balance THEN rest ELSE balance)

\* its checked subtraction, and the lending pool's, do not revert
CanUnloop(p, amount, repay) ==
  /\ Premium(repay) <= amount
  /\ repay + Premium(repay) <= ATokens(p.aToken)

Unstakeable(info) ==
  IF ATokens(info.aTSB) < DebtTokens(info.dTSB) THEN 0
  ELSE ATokens(info.aTSB) - DebtTokens(info.dTSB)

-----------------------------------------------------------------------------
(* Rewards.                                                                *)

\* What _update collects; nothing while nobody stakes.
Collectable == IF totalSB = 0 THEN 0 ELSE chefPending

NewAccTokenPerShare ==
  IF Collectable = 0 THEN accTokenPerShare
  ELSE accTokenPerShare + (Collectable * PRECISION) \div totalSB

Accrued(acc, scaled) == (acc * scaled) \div PRECISION

\* Mutated form of Updated: the debt is left out.
UpdatedInFull(info) ==
  IF Collectable = 0 THEN info
  ELSE [info EXCEPT !.pending = @ + Accrued(NewAccTokenPerShare, info.aTSB)]

\* _update returns early when there is nothing to collect, and then leaves
\* what the account is owed by the accumulator where it is.
Updated(info) ==
  IF Collectable = 0 THEN info
  ELSE [info EXCEPT !.pending = @ + Accrued(NewAccTokenPerShare, info.aTSB) - info.debt]

\* _updateDebt
WithDebt(info) == [info EXCEPT !.debt = Accrued(NewAccTokenPerShare, info.aTSB)]

\* The part of _update that is not about the account.
Collect ==
  /\ accTokenPerShare' = NewAccTokenPerShare
  /\ collected' = collected + Collectable
  /\ chefPending' = chefPending - Collectable
  /\ vesting' = [vesting EXCEPT ![now] = @ + Collectable]

-----------------------------------------------------------------------------
(* Stakers.                                                                *)

\* Mutated form of Staked: the debt is not brought up to date.
StakedWithOldDebt(info, gained) ==
  [Updated(info) EXCEPT !.aTSB = @ + gained.aToken, !.dTSB = @ + gained.debt]

\* The staker's record after _update, a change of position and _updateDebt.
Staked(info, gained) ==
  WithDebt([Updated(info) EXCEPT !.aTSB = @ + gained.aToken, !.dTSB = @ + gained.debt])

Change(before, after) ==
  [aToken |-> after.aToken - before.aToken, debt |-> after.debt - before.debt]

Stake(u, amount) ==
  LET after == Looped(position, amount)
      gained == Change(position, after)
  IN /\ moves < MaxMoves
     /\ amount # 0
     /\ position' = after
     /\ stakeInfo' = [stakeInfo EXCEPT ![u] = Staked(@, gained)]
     /\ totalSB' = totalSB + gained.aToken
     /\ Collect
     /\ moves' = moves + 1
     /\ UNCHANGED <<claimVars, environment, aTokenReward, harvests>>

\* Mutated form of Unstake: the staker's share is lowered by what was asked
\* for, not by what left the position.
UnstakeAsked(u, amount) ==
  LET info == stakeInfo[u]
      asked == IF amount = 0 THEN Unstakeable(info) ELSE amount
      repay == RepayFor(ATokens(info.aTSB), DebtTokens(info.dTSB), asked)
      after == IF asked = 0 THEN position ELSE Unlooped(position, asked, repay)
      gained == [Change(position, after) EXCEPT !.aToken = -RayDiv(asked, IncomeIndex[now])]
  IN /\ moves < MaxMoves
     /\ asked <= Unstakeable(info)
     /\ asked # 0 => CanUnloop(position, asked, repay)
     /\ info.aTSB + gained.aToken >= 0 /\ info.dTSB + gained.debt >= 0
     /\ position' = after
     /\ stakeInfo' = [stakeInfo EXCEPT ![u] = Staked(@, gained)]
     /\ totalSB' = totalSB + Change(position, after).aToken
     /\ Collect
     /\ moves' = moves + 1
     /\ UNCHANGED <<claimVars, environment, aTokenReward, harvests>>

\* amount = 0 asks for everything.  The subtractions from the staker's
\* scaled balances are checked: more than the staker's cannot leave.
Unstake(u, amount) ==
  LET info == stakeInfo[u]
      asked == IF amount = 0 THEN Unstakeable(info) ELSE amount
      repay == RepayFor(ATokens(info.aTSB), DebtTokens(info.dTSB), asked)
      after == IF asked = 0 THEN position ELSE Unlooped(position, asked, repay)
      gained == Change(position, after)
  IN /\ moves < MaxMoves
     /\ asked <= Unstakeable(info)
     /\ asked # 0 => CanUnloop(position, asked, repay)
     /\ info.aTSB + gained.aToken >= 0 /\ info.dTSB + gained.debt >= 0
     /\ position' = after
     /\ stakeInfo' = [stakeInfo EXCEPT ![u] = Staked(@, gained)]
     /\ totalSB' = totalSB + gained.aToken
     /\ Collect
     /\ moves' = moves + 1
     /\ UNCHANGED <<claimVars, environment, aTokenReward, harvests>>

\* Mutated form of NewClaim: it expires at the duration, not after it.
NewClaimUndated(u, amount, expireAt) ==
  LET feeAmount == (amount * Fee) \div MULTIPLIER
  IN [amount |-> amount - feeAmount, feeAmount |-> feeAmount, receiver |-> u,
      isClaimed |-> FALSE, expireAt |-> VestDuration]

NewClaim(u, amount, expireAt) ==
  LET feeAmount == (amount * Fee) \div MULTIPLIER
  IN [amount |-> amount - feeAmount, feeAmount |-> feeAmount, receiver |-> u,
      isClaimed |-> FALSE, expireAt |-> expireAt]

\* Mutated form of Claim: the index is not added to the staker's claims.
ClaimUnlisted(u) ==
  LET info == WithDebt(Updated(stakeInfo[u]))
  IN /\ Collect
     /\ IF info.pending > 0
        THEN /\ Len(claimInfo) < MaxClaims /\ now + VestDuration < MaxTime
             /\ stakeInfo' = [stakeInfo EXCEPT ![u] = [info EXCEPT !.pending = 0]]
             /\ claimInfo' = Append(claimInfo, NewClaim(u, info.pending, now + VestDuration))
        ELSE /\ stakeInfo' = [stakeInfo EXCEPT ![u] = info]
             /\ UNCHANGED claimInfo
     /\ UNCHANGED <<userClaims, paid, distributed, environment, totalSB, position, aTokenReward,
                    harvests, moves>>

\* The bounds leave time for the claim to expire.
Claim(u) ==
  LET info == WithDebt(Updated(stakeInfo[u]))
      index == Len(claimInfo) + 1
  IN /\ Collect
     /\ IF info.pending > 0
        THEN /\ Len(claimInfo) < MaxClaims /\ now + VestDuration < MaxTime
             /\ stakeInfo' = [stakeInfo EXCEPT ![u] = [info EXCEPT !.pending = 0]]
             /\ claimInfo' = Append(claimInfo, NewClaim(u, info.pending, now + VestDuration))
             /\ userClaims' = [userClaims EXCEPT ![u] = @ \cup {index}]
        ELSE /\ stakeInfo' = [stakeInfo EXCEPT ![u] = info]
             /\ UNCHANGED <<claimInfo, userClaims>>
     /\ UNCHANGED <<paid, distributed, environment, totalSB, position, aTokenReward,
                    harvests, moves>>

\* RDNT of the vault at MFD, vested or not, that was not withdrawn.
Held ==
  SumTo([k \in 1 .. MaxTime + 1 |-> vesting[k - 1]], MaxTime + 1)
    - SumOver(paid, EnumerationOf(Users)) - distributed

\* Mutated form of ClaimVested: the expiry is not looked at.
ClaimVestedEarly(i) ==
  LET info == claimInfo[i]
  IN /\ info.amount # 0
     /\ ~info.isClaimed
     /\ i \in userClaims[info.receiver]
     /\ info.amount + info.feeAmount <= Held
     /\ distributorOpen
     /\ claimInfo' = [claimInfo EXCEPT ![i].isClaimed = TRUE]
     /\ userClaims' = [userClaims EXCEPT ![info.receiver] = @ \ {i}]
     /\ paid' = [paid EXCEPT ![info.receiver] = @ + info.amount]
     /\ distributed' = distributed + info.feeAmount
     /\ UNCHANGED <<rewardVars, environment, totalSB, stakeInfo, position, aTokenReward,
                    harvests, moves>>

\* Anybody may call it.  Both withdrawals from MFD and the distributor's
\* receiveReward succeed, or nothing happens.
ClaimVested(i) ==
  LET info == claimInfo[i]
  IN /\ info.amount # 0
     /\ ~info.isClaimed
     /\ info.expireAt < now
     /\ i \in userClaims[info.receiver]
     /\ info.amount + info.feeAmount <= Held
     /\ distributorOpen
     /\ claimInfo' = [claimInfo EXCEPT ![i].isClaimed = TRUE]
     /\ userClaims' = [userClaims EXCEPT ![info.receiver] = @ \ {i}]
     /\ paid' = [paid EXCEPT ![info.receiver] = @ + info.amount]
     /\ distributed' = distributed + info.feeAmount
     /\ UNCHANGED <<rewardVars, environment, totalSB, stakeInfo, position, aTokenReward,
                    harvests, moves>>

-----------------------------------------------------------------------------
(* The vault and the rest of the world.                                    *)

\* Mutated form of Compound: the balance before is not taken off.
CompoundWholeBalance(amount) ==
  LET richer == Deposited(position, amount)
      booked == aTokenReward + ATokens(richer.aToken)
  IN /\ harvests < MaxHarvests
     /\ harvests' = harvests + 1
     /\ IF booked < Threshold
        THEN position' = richer /\ aTokenReward' = booked
        ELSE /\ booked <= ATokens(richer.aToken)
             /\ position' = Withdrawn(richer, booked)
             /\ aTokenReward' = 0
     /\ UNCHANGED <<rewardVars, claimVars, environment, totalSB, stakeInfo, moves>>

\* The vault's compound() with a reward in the aToken that backs the stakes:
\* what the balance grew by is booked, and all that is booked is withdrawn
\* and swapped once it is worth it.
Compound(amount) ==
  LET before == ATokens(position.aToken)
      richer == Deposited(position, amount)
      booked == aTokenReward + ATokens(richer.aToken) - before
  IN /\ harvests < MaxHarvests
     /\ harvests' = harvests + 1
     /\ IF booked < Threshold
        THEN position' = richer /\ aTokenReward' = booked
        ELSE /\ booked <= ATokens(richer.aToken)
             /\ position' = Withdrawn(richer, booked)
             /\ aTokenReward' = 0
     /\ UNCHANGED <<rewardVars, claimVars, environment, totalSB, stakeInfo, moves>>

\* Time passes, and the position may earn.
Tick(earned) ==
  /\ now < MaxTime
  /\ now' = now + 1
  /\ funds' = funds - earned
  /\ chefPending' = chefPending + earned
  /\ UNCHANGED <<accTokenPerShare, collected, vesting, claimVars, distributorOpen, totalSB,
                 stakeInfo, position, aTokenReward, harvests, moves>>

\* CHEF.claim(vault, ...) names the vault, not its caller: others call it too.
ChefClaim ==
  /\ chefPending > 0
  /\ chefPending' = 0
  /\ vesting' = [vesting EXCEPT ![now] = @ + chefPending]
  /\ UNCHANGED <<accTokenPerShare, collected, claimVars, environment, totalSB, stakeInfo,
                 position, aTokenReward, harvests, moves>>

\* The last staker leaves a pool of the MasterChef, or each has one again, or
\* the admin names another distributor.
DistributorChanges ==
  /\ distributorOpen' = ~distributorOpen
  /\ UNCHANGED <<rewardVars, claimVars, now, funds, totalSB, stakeInfo, position, aTokenReward,
                 harvests, moves>>

Next ==
  \/ \E u \in Users :
       \/ \E amount \in Amounts : Stake(u, amount)
       \/ \E amount \in Amounts \cup {0} : Unstake(u, amount)
       \/ Claim(u)
  \/ \E i \in 1 .. Len(claimInfo) : ClaimVested(i)
  \/ \E amount \in Harvests : Compound(amount)
  \/ \E earned \in 0 .. funds : Tick(earned)
  \/ ChefClaim
  \/ DistributorChanges

Spec == Init /\ [][Next]_vars

\* Time passes, and somebody, the receiver at least, keeps calling
\* claimVested for a claim while it can be paid now and then.
Fairness ==
  /\ WF_vars(\E earned \in 0 .. funds : Tick(earned))
  /\ \A i \in 1 .. MaxClaims : SF_vars(i <= Len(claimInfo) /\ ClaimVested(i))

FairSpec == Spec /\ Fairness

-----------------------------------------------------------------------------
(* Properties.                                                             *)

SumOf(f) == SumOver(f, EnumerationOf(Users))

\* What the accumulator owes a staker beyond pending.
Unsettled(info) == Accrued(accTokenPerShare, info.aTSB) - info.debt

\* Types; in particular what accrued is never less than the debt, so that the
\* checked subtraction of _update (Leverager_Audit.sol:359) cannot revert and
\* lock a stake in, and every claim is of some amount, or it could never be
\* paid (line 626).
TypeOK ==
  /\ accTokenPerShare \in Nat /\ totalSB \in Nat
  /\ stakeInfo \in [Users -> Stakes]
  /\ claimInfo \in Seq(Claims)
  /\ userClaims \in [Users -> SUBSET (1 .. Len(claimInfo))]
  /\ now \in Times
  /\ position \in Positions
  /\ aTokenReward \in Nat /\ funds \in Nat /\ chefPending \in Nat
  /\ vesting \in [Times -> Nat]
  /\ distributorOpen \in BOOLEAN
  /\ paid \in [Users -> Nat] /\ distributed \in Nat
  /\ collected \in Nat /\ harvests \in Nat /\ moves \in Nat
  /\ \A u \in Users : stakeInfo[u].debt <= Accrued(accTokenPerShare, stakeInfo[u].aTSB)
  /\ \A i \in 1 .. Len(claimInfo) : claimInfo[i].amount > 0

\* The stakers' scaled balances add up to totalSB, which the rewards are
\* divided by, and to the vault's debt: stakes and loans that come and go at
\* different indices leave nothing with nobody and nothing with two
\* (Leverager_Audit.sol:400-407, 466-473).
StakesAddUp ==
  /\ SumOf([u \in Users |-> stakeInfo[u].aTSB]) = totalSB
  /\ SumOf([u \in Users |-> stakeInfo[u].dTSB]) = position.debt

\* The aTokens that back the stakes are there although the vault swaps its
\* aToken rewards out of the same balance (DLPVault_Audit.sol:627), but for a
\* unit of rounding whenever it harvested some.
PositionsAreBacked == totalSB <= position.aToken + harvests

ClaimTotals == [i \in 1 .. Len(claimInfo) |-> claimInfo[i].amount + claimInfo[i].feeAmount]

\* Stakers are never promised more RDNT than was shared out, whoever triggered
\* the sharing and whoever called in between, except for one unit of rounding
\* for every change of a stake: the debt is rounded down as well.
RewardsAreSharedOnce ==
  SumOf([u \in Users |-> stakeInfo[u].pending + Unsettled(stakeInfo[u])])
    + SumTo(ClaimTotals, Len(claimInfo)) <= collected + moves

\* What has vested at MFD by now.
Vested == SumTo([k \in 1 .. MaxTime + 1 |->
                   IF k - 1 + VestDuration <= now THEN vesting[k - 1] ELSE 0], MaxTime + 1)

Expired(i) == claimInfo[i].isClaimed \/ claimInfo[i].expireAt < now

\* Claims expire late enough for MFD to have vested what they are paid from,
\* which came to the vault in other stakers' transactions at other times: MFD
\* never pays early, at its penalty, but for the rounding.
PaidFromVested ==
  SumTo([i \in 1 .. Len(claimInfo) |-> IF Expired(i) THEN ClaimTotals[i] ELSE 0], Len(claimInfo))
    <= Vested + moves

Escrow == INSTANCE VestedClaims WITH
  Receivers <- Users,
  issued <- [i \in 1 .. Len(claimInfo) |->
               [amount |-> claimInfo[i].amount, feeAmount |-> claimInfo[i].feeAmount,
                receiver |-> claimInfo[i].receiver, expireAt |-> claimInfo[i].expireAt]],
  settled <- {i \in 1 .. Len(claimInfo) : claimInfo[i].isClaimed},
  received <- paid

\* A claim is paid once, after it expired, to its receiver and in full with
\* its fee, and nothing else is paid.
ClaimsAreVested == Escrow!EscrowSpec

\* What a staker was promised so far: pending, what the accumulator owes, and
\* the claims made.
Promised(u) ==
  stakeInfo[u].pending + Unsettled(stakeInfo[u])
    + SumTo([i \in 1 .. Len(claimInfo) |->
               IF claimInfo[i].receiver = u THEN ClaimTotals[i] ELSE 0], Len(claimInfo))

\* A staker's share of what was shared out is theirs for good: _update moves it
\* to pending ("update pending", Leverager_Audit.sol:356) before _updateDebt
\* takes the accumulator as settled.
SharesAreKept == [][\A u \in Users : Promised(u)' >= Promised(u)]_vars

\* A claim is paid in the end, if the distributor keeps becoming ready to take
\* its fee and the vault has the RDNT.
EveryClaimIsPaid ==
  \A i \in 1 .. MaxClaims :
    []<>(distributorOpen /\ i <= Len(claimInfo)
           /\ claimInfo[i].amount + claimInfo[i].feeAmount <= Held) =>
      <>(i <= Len(claimInfo) /\ claimInfo[i].isClaimed)
=============================================================================
