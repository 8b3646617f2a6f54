----------------------------- MODULE RdLPStaking -----------------------------
(***************************************************************************)
(* rdLP staking (contract rdLPstaking of src/src/policies/rdLPChef.sol;    *)
(* src/src/launch_contracts/MasterChef.sol is the same contract) together  *)
(* with esRADT, in which it pays: stakers of LP tokens earn esRADT by the  *)
(* second, and reward points (RP) that count like LP tokens until the      *)
(* staker withdraws.                                                       *)
(*                                                                         *)
(* One action is one transaction; a transaction that reverts is an action  *)
(* whose guard fails.  There is one pool for each LP token, as             *)
(* checkForDuplicate has it.                                               *)
(***************************************************************************)
EXTENDS EsRADT

CONSTANTS
  LPTokens,      \* LP tokens a pool may be added for
  PRECISION,     \* precision of the accumulators, 1e12
  FeeShare,      \* a deposit costs amount \div FeeShare (10/10000 in the code)
  startTime,
  AllocPoints,   \* bound: the points the owner gives; at most MaxAllocPoint
  initialRate,   \* esRADT per second, and RP per second, at first
  initialRPRate,
  Rates,         \* bound: the rates of either the owner sets
  Supplies,      \* bound: the amounts of esRADT the owner supplies
  MaxPools,      \* bound: the pools the owner adds
  Deposits,      \* bound: the amounts of LP tokens deposited at once
  LPFunds        \* LP tokens each user has at first, of each kind

ASSUME RdLPStakingAssumption ==
  /\ PRECISION \in Nat \ {0} /\ FeeShare \in Nat \ {0} /\ startTime \in Nat
  /\ AllocPoints \subseteq Nat /\ Rates \subseteq Nat /\ Supplies \subseteq Nat
  /\ initialRate \in Nat /\ initialRPRate \in Nat
  /\ Deposits \subseteq Nat
  /\ MaxPools \in Nat /\ LPFunds \in Nat

VARIABLES
  poolInfo,        \* the pools; pool pid of the code is poolInfo[pid + 1]
  totalAllocPoint,
  stakerInfo,      \* [pool][user]: userInfo of the staking contract
  esRADTPerSecond,
  RPPerSecond,
  withdrawable,
  lpBalance,       \* [LP token]: the contract's balance
  wallet,          \* [user][LP token]: LP tokens not staked
  (* History, read by the properties and by bounds only. *)
  emitted,         \* esRADTPerSecond summed over the seconds since startTime
  paid,            \* pending rewards that deposits and withdrawals settled
  stakes           \* deposits and withdrawals so far

stakingState == <<poolInfo, totalAllocPoint, stakerInfo, esRADTPerSecond, RPPerSecond, withdrawable,
                  lpBalance, wallet>>
stakingHistory == <<emitted, paid, stakes>>
vars == <<escrowVars, stakingState, stakingHistory>>

PoolIds == 1 .. MaxPools
Pids == 1 .. Len(poolInfo)
PoolInfo == [lpToken : LPTokens, totalRP : Nat, allocPoint : Nat, lastRewardTime : Nat,
             accesRADTPerShare : Nat, accRPPerShare : Nat]
StakerInfo == [RPamount : Nat, amount : Nat, rewardDebt : Nat, RPrewardDebt : Nat]

Init ==
  /\ EscrowInit
  /\ poolInfo = <<>>
  /\ totalAllocPoint = 0
  /\ stakerInfo = [i \in PoolIds |-> [u \in Users |->
                     [RPamount |-> 0, amount |-> 0, rewardDebt |-> 0, RPrewardDebt |-> 0]]]
  /\ esRADTPerSecond = initialRate /\ RPPerSecond = initialRPRate
  /\ withdrawable = FALSE
  /\ lpBalance = [lp \in LPTokens |-> 0]
  /\ wallet = [u \in Users |-> [lp \in LPTokens |-> LPFunds]]
  /\ emitted = 0 /\ paid = 0 /\ stakes = 0

-----------------------------------------------------------------------------
(* Bringing the pools up to date.                                          *)

Later(a, b) == IF a > b THEN a ELSE b

Multiplier(from, to) == IF to < startTime THEN 0 ELSE to - Later(from, startTime)

Earning(pool) == now > pool.lastRewardTime /\ lpBalance[pool.lpToken] # 0

\* Otherwise updatePool divides by a total of zero points.
Updatable(pool) == Earning(pool) => totalAllocPoint # 0

\* One pool's part of what a rate emitted since its last update.
PoolReward(pool, rate) ==
  (Multiplier(pool.lastRewardTime, now) * rate * pool.allocPoint) \div totalAllocPoint

PerShare(pool, reward) ==
  (reward * PRECISION) \div (lpBalance[pool.lpToken] + pool.totalRP)

\* updatePool
UpToDate(pool) ==
  IF Earning(pool)
  THEN [pool EXCEPT !.accesRADTPerShare = @ + PerShare(pool, PoolReward(pool, esRADTPerSecond)),
                    !.accRPPerShare = @ + PerShare(pool, PoolReward(pool, RPPerSecond)),
                    !.lastRewardTime = now]
  ELSE [pool EXCEPT !.lastRewardTime = Later(now, @)]

\* Mutated form of MassUpdated: only a rate or points are changed.
NoneUpdated == [i \in Pids |-> poolInfo[i]]

\* massUpdatePools
MassUpdated == [i \in Pids |-> UpToDate(poolInfo[i])]

-----------------------------------------------------------------------------
(* The owner.                                                              *)

SetWithdrawable(open) ==
  /\ Call
  /\ withdrawable # open
  /\ withdrawable' = open
  /\ UNCHANGED <<now, escrow, poolInfo, totalAllocPoint, stakerInfo, esRADTPerSecond, RPPerSecond,
                 lpBalance, wallet, emitted, paid, stakes>>

\* The chef spends the owner's esRADT, which esRADT allows a whitelisted
\* owner only.
SupplyRewards(amount) ==
  /\ Owner \in whitelist
  /\ amount <= esBalance[Owner]
  /\ esBalance' = Moved(esBalance, Owner, Chef, amount)
  /\ UNCHANGED <<now, radt, radtHeld, whitelist, userInfo, schedule, earlyPaid, burned, calls,
                 stakingState, stakingHistory>>

\* Every setting that changes who earns what brings all pools up to date first.
SetRates(rate, rpRate) ==
  /\ Call
  /\ (rate = esRADTPerSecond) # (rpRate = RPPerSecond)
  /\ \A i \in Pids : Updatable(poolInfo[i])
  /\ poolInfo' = MassUpdated
  /\ esRADTPerSecond' = rate /\ RPPerSecond' = rpRate
  /\ UNCHANGED <<now, escrow, totalAllocPoint, stakerInfo, withdrawable, lpBalance, wallet, emitted,
                 paid, stakes>>

Add(allocPoint, lp) ==
  /\ Len(poolInfo) < MaxPools
  /\ \A i \in Pids : poolInfo[i].lpToken # lp
  /\ \A i \in Pids : Updatable(poolInfo[i])
  /\ poolInfo' = Append(MassUpdated,
       [lpToken |-> lp, totalRP |-> 0, allocPoint |-> allocPoint,
        lastRewardTime |-> Later(now, startTime), accesRADTPerShare |-> 0, accRPPerShare |-> 0])
  /\ totalAllocPoint' = totalAllocPoint + allocPoint
  /\ UNCHANGED <<escrowVars, stakerInfo, esRADTPerSecond, RPPerSecond, withdrawable, lpBalance,
                 wallet, emitted, paid, stakes>>

\* Mutated form of SetAllocPoint: the pool's old points stay in the total.
SetAdding(i, allocPoint) ==
  /\ Call
  /\ \A j \in Pids : Updatable(poolInfo[j])
  /\ poolInfo' = [MassUpdated EXCEPT ![i].allocPoint = allocPoint]
  /\ totalAllocPoint' = totalAllocPoint + allocPoint
  /\ UNCHANGED <<now, escrow, stakerInfo, esRADTPerSecond, RPPerSecond, withdrawable, lpBalance,
                 wallet, emitted, paid, stakes>>

SetAllocPoint(i, allocPoint) ==
  /\ Call
  /\ allocPoint # poolInfo[i].allocPoint
  /\ \A j \in Pids : Updatable(poolInfo[j])
  /\ poolInfo' = [MassUpdated EXCEPT ![i].allocPoint = allocPoint]
  /\ totalAllocPoint' = totalAllocPoint - poolInfo[i].allocPoint + allocPoint
  /\ UNCHANGED <<now, escrow, stakerInfo, esRADTPerSecond, RPPerSecond, withdrawable, lpBalance,
                 wallet, emitted, paid, stakes>>

\* Anybody may call it.
UpdatePool(i) ==
  /\ Call
  /\ now > poolInfo[i].lastRewardTime
  /\ Updatable(poolInfo[i])
  /\ poolInfo' = [poolInfo EXCEPT ![i] = UpToDate(@)]
  /\ UNCHANGED <<now, escrow, totalAllocPoint, stakerInfo, esRADTPerSecond, RPPerSecond,
                 withdrawable, lpBalance, wallet, stakingHistory>>

-----------------------------------------------------------------------------
(* Stakers.                                                                *)

Share(user, acc) == ((user.amount + user.RPamount) * acc) \div PRECISION

\* Mutated form of Settled: the debt is rounded up.
SettledUp(user, pool) ==
  [user EXCEPT !.rewardDebt = ((user.amount + user.RPamount) * pool.accesRADTPerShare
                                + PRECISION - 1) \div PRECISION,
               !.RPrewardDebt = Share(user, pool.accRPPerShare)]

\* The record with the debts that go with a pool's accumulators.
Settled(user, pool) ==
  [user EXCEPT !.rewardDebt = Share(user, pool.accesRADTPerShare),
               !.RPrewardDebt = Share(user, pool.accRPPerShare)]

\* safeesRADTTransfer: pays what there is.
Pay(u, pending) ==
  LET amount == IF pending > esBalance[Chef] THEN esBalance[Chef] ELSE pending
  IN /\ esBalance' = Moved(esBalance, Chef, u, amount)
     /\ paid' = paid + pending
     /\ UNCHANGED <<now, radt, radtHeld, whitelist, userInfo, schedule, earlyPaid, burned>>

\* The RP earned since the last time are compounded; the fee goes to the owner.
Deposit(u, i, amount) ==
  LET pool == UpToDate(poolInfo[i])
      lp == pool.lpToken
      user == stakerInfo[i][u]
      fee == amount \div FeeShare
      RPpending == Share(user, pool.accRPPerShare) - user.RPrewardDebt
      richer == [user EXCEPT !.amount = @ + amount - fee, !.RPamount = @ + RPpending]
  IN /\ Call
     /\ Updatable(poolInfo[i])
     /\ amount <= wallet[u][lp]
     /\ poolInfo' = [poolInfo EXCEPT ![i] = [pool EXCEPT !.totalRP = @ + RPpending]]
     /\ stakerInfo' = [stakerInfo EXCEPT ![i][u] = Settled(richer, pool)]
     /\ Pay(u, Share(user, pool.accesRADTPerShare) - user.rewardDebt)
     /\ wallet' = [wallet EXCEPT ![u][lp] = @ - amount]
     /\ lpBalance' = [lpBalance EXCEPT ![lp] = @ + amount - fee]
     /\ stakes' = stakes + 1
     /\ UNCHANGED <<totalAllocPoint, esRADTPerSecond, RPPerSecond, withdrawable, emitted>>

\* Mutated form of Withdraw: the pool keeps the points that are given up.
WithdrawKeepingRP(u, i, amount) ==
  LET pool == UpToDate(poolInfo[i])
      lp == pool.lpToken
      user == stakerInfo[i][u]
      poorer == [user EXCEPT !.amount = @ - amount, !.RPamount = IF amount > 0 THEN 0 ELSE @]
  IN /\ Call
     /\ Updatable(poolInfo[i])
     /\ amount <= user.amount /\ withdrawable
     /\ poolInfo' = [poolInfo EXCEPT ![i] = pool]
     /\ stakerInfo' = [stakerInfo EXCEPT ![i][u] = Settled(poorer, pool)]
     /\ Pay(u, Share(user, pool.accesRADTPerShare) - user.rewardDebt)
     /\ wallet' = [wallet EXCEPT ![u][lp] = @ + amount]
     /\ lpBalance' = [lpBalance EXCEPT ![lp] = @ - amount]
     /\ stakes' = stakes + 1
     /\ UNCHANGED <<totalAllocPoint, esRADTPerSecond, RPPerSecond, withdrawable, emitted>>

\* Whoever takes LP tokens out gives up all RP; RP not compounded yet are lost
\* in any case.
Withdraw(u, i, amount) ==
  LET pool == UpToDate(poolInfo[i])
      lp == pool.lpToken
      user == stakerInfo[i][u]
      givenUp == IF amount > 0 THEN user.RPamount ELSE 0
      poorer == [user EXCEPT !.amount = @ - amount, !.RPamount = @ - givenUp]
  IN /\ Call
     /\ Updatable(poolInfo[i])
     /\ amount <= user.amount /\ withdrawable
     /\ poolInfo' = [poolInfo EXCEPT ![i] = [pool EXCEPT !.totalRP = @ - givenUp]]
     /\ stakerInfo' = [stakerInfo EXCEPT ![i][u] = Settled(poorer, pool)]
     /\ Pay(u, Share(user, pool.accesRADTPerShare) - user.rewardDebt)
     /\ wallet' = [wallet EXCEPT ![u][lp] = @ + amount]
     /\ lpBalance' = [lpBalance EXCEPT ![lp] = @ - amount]
     /\ stakes' = stakes + 1
     /\ UNCHANGED <<totalAllocPoint, esRADTPerSecond, RPPerSecond, withdrawable, emitted>>

Next ==
  \/ /\ EscrowNext
     /\ emitted' = emitted + esRADTPerSecond * Multiplier(now, now')
     /\ UNCHANGED <<stakingState, paid, stakes>>
  \/ \E open \in BOOLEAN : SetWithdrawable(open)
  \/ \E amount \in Supplies : SupplyRewards(amount)
  \/ \E rate, rpRate \in Rates : SetRates(rate, rpRate)
  \/ \E allocPoint \in AllocPoints, lp \in LPTokens : Add(allocPoint, lp)
  \/ \E i \in Pids : \E allocPoint \in AllocPoints : SetAllocPoint(i, allocPoint)
  \/ \E i \in Pids : UpdatePool(i)
  \/ \E u \in Users, i \in Pids :
       \/ \E amount \in Deposits : Deposit(u, i, amount)
       \/ \E amount \in 0 .. stakerInfo[i][u].amount : Withdraw(u, i, amount)

Spec == Init /\ [][Next]_vars

-----------------------------------------------------------------------------
(* Properties.                                                             *)

SumOf(f) == SumOver(f, EnumerationOf(Users))

\* Types; in particular no debt is above the staker's share of the
\* accumulator, so that the checked subtractions of deposit and withdraw
\* (rdLPChef.sol:1099, 1130) cannot revert and lock a stake in.
TypeOK ==
  /\ EscrowTypeOK
  /\ poolInfo \in Seq(PoolInfo) /\ Len(poolInfo) <= MaxPools
  /\ totalAllocPoint \in Nat
  /\ stakerInfo \in [PoolIds -> [Users -> StakerInfo]]
  /\ esRADTPerSecond \in Nat /\ RPPerSecond \in Nat
  /\ withdrawable \in BOOLEAN
  /\ lpBalance \in [LPTokens -> Nat]
  /\ wallet \in [Users -> [LPTokens -> Nat]]
  /\ emitted \in Nat /\ paid \in Nat
  /\ stakes \in 0 .. MaxCalls
  /\ \A i \in Pids, u \in Users :
       /\ stakerInfo[i][u].rewardDebt <= Share(stakerInfo[i][u], poolInfo[i].accesRADTPerShare)
       /\ stakerInfo[i][u].RPrewardDebt <= Share(stakerInfo[i][u], poolInfo[i].accRPPerShare)

\* "Must be the sum of all allocation points in all pools" (rdLPChef.sol:930),
\* or the pools together would emit another rate than esRADTPerSecond.
PointsAddUp ==
  totalAllocPoint = SumTo([i \in Pids |-> poolInfo[i].allocPoint], Len(poolInfo))

\* What a pool divides its rewards by is what its stakers' shares are made of,
\* although RP are compounded and given up one staker at a time
\* (rdLPChef.sol:1077, 1109, 1135); and whoever took all LP tokens out holds
\* no RP, which would go on earning for nothing.
PowerAddsUp ==
  \A i \in Pids :
    /\ SumOf([u \in Users |-> stakerInfo[i][u].RPamount]) = poolInfo[i].totalRP
    /\ SumOf([u \in Users |-> stakerInfo[i][u].amount]) = lpBalance[poolInfo[i].lpToken]
    /\ \A u \in Users : stakerInfo[i][u].amount = 0 => stakerInfo[i][u].RPamount = 0

\* What the accumulators owe a staker beyond what was settled.
Pending(u) ==
  SumTo([i \in Pids |-> Share(stakerInfo[i][u], poolInfo[i].accesRADTPerShare)
                          - stakerInfo[i][u].rewardDebt], Len(poolInfo))

\* Rewards settled and owed never exceed what the rates emitted, with every
\* second paid at the rate and the points that held then (rdLPChef.sol:970,
\* 996, 1016), except for a unit of rounding for every change of a stake.
RewardsWithinEmission ==
  paid + SumOf([u \in Users |-> Pending(u)]) <= emitted + stakes
=============================================================================
