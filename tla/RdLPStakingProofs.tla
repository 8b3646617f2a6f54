------------------------- MODULE RdLPStakingProofs -------------------------
(***************************************************************************)
(* Theorems about rdLP staking with esRADT for any users, LP tokens,       *)
(* rates, points, precision and fee.  What esRADT keeps comes from         *)
(* EsRADTProofs; here are the pools, the stakers' records and the sums     *)
(* over them.                                                              *)
(***************************************************************************)
EXTENDS RdLPStaking, EsRADTProofs

-----------------------------------------------------------------------------
(* The inductive invariant.                                                *)

Types ==
  /\ poolInfo \in Seq(PoolInfo) /\ Len(poolInfo) <= MaxPools
  /\ totalAllocPoint \in Nat
  /\ stakerInfo \in [PoolIds -> [Users -> StakerInfo]]
  /\ esRADTPerSecond \in Nat /\ RPPerSecond \in Nat
  /\ withdrawable \in BOOLEAN
  /\ lpBalance \in [LPTokens -> Nat]
  /\ wallet \in [Users -> [LPTokens -> Nat]]
  /\ emitted \in Nat /\ paid \in Nat
  /\ stakes \in Nat /\ stakes <= calls

IsSettled(user, pool) ==
  /\ user.rewardDebt <= Share(user, pool.accesRADTPerShare)
  /\ user.RPrewardDebt <= Share(user, pool.accRPPerShare)

AllSettled == \A i \in Pids, u \in Users : IsSettled(stakerInfo[i][u], poolInfo[i])

OnePoolPerToken == \A i, j \in Pids : poolInfo[i].lpToken = poolInfo[j].lpToken => i = j

\* Pools that were not added yet have no stakers, and their tokens no balance.
UnusedPools ==
  /\ \A i \in PoolIds \ Pids, u \in Users :
       stakerInfo[i][u].amount = 0 /\ stakerInfo[i][u].RPamount = 0
       /\ stakerInfo[i][u].rewardDebt = 0 /\ stakerInfo[i][u].RPrewardDebt = 0
  /\ \A lp \in LPTokens : (\A i \in Pids : poolInfo[i].lpToken # lp) => lpBalance[lp] = 0

IInv ==
  /\ EscrowInv /\ Types /\ AllSettled
  /\ OnePoolPerToken /\ UnusedPools /\ PointsAddUp /\ PowerAddsUp

LEMMA TypeOKByParts == IInv => TypeOK
<1> SUFFICES ASSUME IInv PROVE TypeOK
  OBVIOUS
<1>1. stakes \in 0 .. MaxCalls
  <2>1. stakes \in Nat /\ stakes <= calls /\ calls \in 0 .. MaxCalls /\ MaxCalls \in Nat
    BY EsRADTAssumption DEF IInv, Types, EscrowInv, EscrowTypeOK
  <2> QED
    BY <2>1
<1> QED
  BY <1>1 DEF IInv, EscrowInv, Types, AllSettled, IsSettled, TypeOK

LEMMA PoolsAreTyped ==
  ASSUME Types
  PROVE  /\ Len(poolInfo) \in Nat /\ Pids \subseteq PoolIds
         /\ \A i \in Pids :
              /\ poolInfo[i] \in PoolInfo
              /\ poolInfo[i].lpToken \in LPTokens /\ poolInfo[i].totalRP \in Nat
              /\ poolInfo[i].allocPoint \in Nat /\ poolInfo[i].lastRewardTime \in Nat
              /\ poolInfo[i].accesRADTPerShare \in Nat /\ poolInfo[i].accRPPerShare \in Nat
              /\ lpBalance[poolInfo[i].lpToken] \in Nat
         /\ \A i \in PoolIds, u \in Users :
              /\ stakerInfo[i][u] \in StakerInfo
              /\ stakerInfo[i][u].amount \in Nat /\ stakerInfo[i][u].RPamount \in Nat
              /\ stakerInfo[i][u].rewardDebt \in Nat /\ stakerInfo[i][u].RPrewardDebt \in Nat
<1>1. Len(poolInfo) \in Nat /\ MaxPools \in Nat /\ Len(poolInfo) <= MaxPools
  BY RdLPStakingAssumption DEF Types
<1>2. Pids \subseteq PoolIds
  BY <1>1 DEF Pids, PoolIds
<1>3. \A i \in Pids : poolInfo[i] \in PoolInfo
  BY DEF Types, Pids
<1>4. \A i \in Pids :
        /\ poolInfo[i].lpToken \in LPTokens /\ poolInfo[i].totalRP \in Nat
        /\ poolInfo[i].allocPoint \in Nat /\ poolInfo[i].lastRewardTime \in Nat
        /\ poolInfo[i].accesRADTPerShare \in Nat /\ poolInfo[i].accRPPerShare \in Nat
  BY <1>3 DEF PoolInfo
<1>5. \A i \in PoolIds, u \in Users : stakerInfo[i][u] \in StakerInfo
  BY DEF Types
<1>6. \A i \in PoolIds, u \in Users :
        /\ stakerInfo[i][u].amount \in Nat /\ stakerInfo[i][u].RPamount \in Nat
        /\ stakerInfo[i][u].rewardDebt \in Nat /\ stakerInfo[i][u].RPrewardDebt \in Nat
  BY <1>5 DEF StakerInfo
<1>7. \A i \in Pids : lpBalance[poolInfo[i].lpToken] \in Nat
  BY <1>4 DEF Types
<1> QED
  BY <1>1, <1>2, <1>3, <1>4, <1>5, <1>6, <1>7

-----------------------------------------------------------------------------
(* Shares and updates.                                                     *)

\* A share is a natural, and grows with the accumulator.
LEMMA ShareGrows ==
  ASSUME NEW user \in StakerInfo, NEW acc \in Nat, NEW later \in Nat, acc <= later
  PROVE  /\ Share(user, acc) \in Nat /\ Share(user, later) \in Nat
         /\ Share(user, acc) <= Share(user, later)
<1> DEFINE power == user.amount + user.RPamount
           x == power * acc
           y == power * later
           p == x \div PRECISION
           q == y \div PRECISION
<1>1. power \in Nat /\ PRECISION \in Nat \ {0}
  BY RdLPStakingAssumption DEF StakerInfo
<1> HIDE DEF power
<1>2. x \in Nat /\ y \in Nat /\ x <= y
  BY <1>1
<1> HIDE DEF x, y
<1>3. p \in Nat /\ q \in Nat /\ PRECISION * p <= x /\ y < PRECISION * q + PRECISION
  BY <1>1, <1>2, Quotient
<1> HIDE DEF p, q
<1>4. PRECISION * p < PRECISION * (q + 1)
  BY <1>1, <1>2, <1>3
<1>5. p <= q
  BY <1>1, <1>3, <1>4
<1>6. Share(user, acc) = p /\ Share(user, later) = q
  BY DEF Share, power, x, y, p, q
<1> QED
  BY <1>3, <1>5, <1>6

\* An account without stake and points has no share.
LEMMA NoShare ==
  ASSUME NEW user \in StakerInfo, user.amount = 0, user.RPamount = 0, NEW acc \in Nat
  PROVE  Share(user, acc) = 0
<1>1. (user.amount + user.RPamount) * acc = 0 /\ PRECISION \in Nat \ {0}
  BY RdLPStakingAssumption
<1> QED
  BY <1>1 DEF Share

LEMMA MultiplierIsNat ==
  ASSUME NEW from \in Nat, NEW to \in Nat, from <= to
  PROVE  Multiplier(from, to) \in Nat
BY RdLPStakingAssumption DEF Multiplier, Later

\* What a pool earned, per share.
LEMMA RewardIsNat ==
  ASSUME Types, now \in Nat, NEW pool \in PoolInfo, NEW rate \in Nat,
         Earning(pool), totalAllocPoint # 0
  PROVE  PerShare(pool, PoolReward(pool, rate)) \in Nat
<1>1. /\ pool.lpToken \in LPTokens /\ pool.totalRP \in Nat /\ pool.allocPoint \in Nat
      /\ pool.lastRewardTime \in Nat
  BY DEF PoolInfo
<1>2. /\ lpBalance[pool.lpToken] \in Nat \ {0} /\ pool.lastRewardTime <= now
      /\ totalAllocPoint \in Nat \ {0} /\ PRECISION \in Nat
  BY <1>1, RdLPStakingAssumption DEF Types, Earning
<1> DEFINE m == Multiplier(pool.lastRewardTime, now)
           reward == PoolReward(pool, rate)
           shares == lpBalance[pool.lpToken] + pool.totalRP
<1>3. m \in Nat
  BY <1>1, <1>2, MultiplierIsNat
<1>4. reward \in Nat
  <2> HIDE DEF m
  <2>1. m * rate * pool.allocPoint \in Nat
    BY <1>1, <1>3
  <2>2. (m * rate * pool.allocPoint) \div totalAllocPoint \in Nat
    BY <1>2, <2>1, Quotient
  <2> QED
    BY <2>2 DEF PoolReward, m
<1>5. shares \in Nat \ {0}
  BY <1>1, <1>2
<1> HIDE DEF reward, shares
<1>6. reward * PRECISION \in Nat
  BY <1>2, <1>4
<1>7. (reward * PRECISION) \div shares \in Nat
  BY <1>5, <1>6, Quotient
<1> QED
  BY <1>7 DEF PerShare, reward, shares

\* updatePool raises the accumulators and leaves the rest of a pool.
LEMMA UpToDateGrows ==
  ASSUME Types, now \in Nat, NEW pool \in PoolInfo, Updatable(pool)
  PROVE  LET new == UpToDate(pool)
         IN  /\ new \in PoolInfo /\ new.lpToken = pool.lpToken
             /\ new.totalRP = pool.totalRP /\ new.allocPoint = pool.allocPoint
             /\ pool.accesRADTPerShare <= new.accesRADTPerShare
             /\ pool.accRPPerShare <= new.accRPPerShare
<1> DEFINE new == UpToDate(pool)
           a == PerShare(pool, PoolReward(pool, esRADTPerSecond))
           b == PerShare(pool, PoolReward(pool, RPPerSecond))
<1>1. /\ pool.lastRewardTime \in Nat
      /\ pool.accesRADTPerShare \in Nat /\ pool.accRPPerShare \in Nat
  BY DEF PoolInfo
<1>2. CASE Earning(pool)
  <2>1. totalAllocPoint # 0 /\ esRADTPerSecond \in Nat /\ RPPerSecond \in Nat
    BY <1>2 DEF Updatable, Types
  <2>2. a \in Nat /\ b \in Nat
    BY <1>2, <2>1, RewardIsNat
  <2>3. new = [pool EXCEPT !.accesRADTPerShare = @ + a, !.accRPPerShare = @ + b,
                           !.lastRewardTime = now]
    BY <1>2 DEF UpToDate
  <2> HIDE DEF a, b, new
  <2>4. /\ new.lpToken = pool.lpToken
        /\ new.totalRP = pool.totalRP /\ new.allocPoint = pool.allocPoint
        /\ new.accesRADTPerShare = pool.accesRADTPerShare + a
        /\ new.accRPPerShare = pool.accRPPerShare + b
    BY <2>3 DEF PoolInfo
  <2>5. pool.accesRADTPerShare + a \in Nat /\ pool.accRPPerShare + b \in Nat
    BY <1>1, <2>2
  <2>6. new \in PoolInfo
    BY <2>3, <2>5 DEF PoolInfo
  <2> QED
    BY <1>1, <2>2, <2>4, <2>6 DEF new
<1>3. CASE ~Earning(pool)
  <2>1. new = [pool EXCEPT !.lastRewardTime = Later(now, @)] /\ Later(now, pool.lastRewardTime) \in Nat
    BY <1>1, <1>3 DEF UpToDate, Later
  <2> HIDE DEF new
  <2>2. /\ new \in PoolInfo /\ new.lpToken = pool.lpToken
        /\ new.totalRP = pool.totalRP /\ new.allocPoint = pool.allocPoint
        /\ new.accesRADTPerShare = pool.accesRADTPerShare
        /\ new.accRPPerShare = pool.accRPPerShare
    BY <2>1 DEF PoolInfo
  <2> QED
    BY <1>1, <2>2 DEF new
<1> QED
  BY <1>2, <1>3

\* massUpdatePools does that to each.
LEMMA MassUpdatedGrows ==
  ASSUME Types, now \in Nat, \A i \in Pids : Updatable(poolInfo[i])
  PROVE  /\ MassUpdated \in Seq(PoolInfo) /\ Len(MassUpdated) = Len(poolInfo)
         /\ \A i \in Pids :
              /\ MassUpdated[i] \in PoolInfo
              /\ MassUpdated[i].lpToken = poolInfo[i].lpToken
              /\ MassUpdated[i].totalRP = poolInfo[i].totalRP
              /\ MassUpdated[i].allocPoint = poolInfo[i].allocPoint
              /\ poolInfo[i].accesRADTPerShare <= MassUpdated[i].accesRADTPerShare
              /\ poolInfo[i].accRPPerShare <= MassUpdated[i].accRPPerShare
<1>1. Len(poolInfo) \in Nat /\ \A i \in Pids : poolInfo[i] \in PoolInfo
  BY PoolsAreTyped
<1>2. \A i \in Pids :
        /\ MassUpdated[i] = UpToDate(poolInfo[i])
        /\ UpToDate(poolInfo[i]) \in PoolInfo
        /\ UpToDate(poolInfo[i]).lpToken = poolInfo[i].lpToken
        /\ UpToDate(poolInfo[i]).totalRP = poolInfo[i].totalRP
        /\ UpToDate(poolInfo[i]).allocPoint = poolInfo[i].allocPoint
        /\ poolInfo[i].accesRADTPerShare <= UpToDate(poolInfo[i]).accesRADTPerShare
        /\ poolInfo[i].accRPPerShare <= UpToDate(poolInfo[i]).accRPPerShare
  BY <1>1, UpToDateGrows DEF MassUpdated
<1>3. MassUpdated \in Seq(PoolInfo) /\ Len(MassUpdated) = Len(poolInfo)
  BY <1>1, <1>2 DEF MassUpdated, Pids
<1> QED
  BY <1>2, <1>3

\* A settled record stays so as its pool's accumulators grow.
LEMMA StaysSettled ==
  ASSUME NEW user \in StakerInfo, NEW pool \in PoolInfo, NEW new \in PoolInfo,
         IsSettled(user, pool),
         pool.accesRADTPerShare <= new.accesRADTPerShare,
         pool.accRPPerShare <= new.accRPPerShare
  PROVE  IsSettled(user, new)
<1>1. /\ user.rewardDebt \in Nat /\ user.RPrewardDebt \in Nat
      /\ pool.accesRADTPerShare \in Nat /\ pool.accRPPerShare \in Nat
      /\ new.accesRADTPerShare \in Nat /\ new.accRPPerShare \in Nat
  BY DEF StakerInfo, PoolInfo
<1>2. /\ Share(user, pool.accesRADTPerShare) \in Nat
      /\ Share(user, new.accesRADTPerShare) \in Nat
      /\ Share(user, pool.accesRADTPerShare) <= Share(user, new.accesRADTPerShare)
  BY <1>1, ShareGrows
<1>3. /\ Share(user, pool.accRPPerShare) \in Nat
      /\ Share(user, new.accRPPerShare) \in Nat
      /\ Share(user, pool.accRPPerShare) <= Share(user, new.accRPPerShare)
  BY <1>1, ShareGrows
<1> QED
  BY <1>1, <1>2, <1>3 DEF IsSettled


-----------------------------------------------------------------------------
(* What the steps have in common.                                          *)

\* The steps of esRADT and of the clock.
LEMMA EscrowPasses ==
  ASSUME EscrowInv, EscrowNext
  PROVE  /\ now \in Nat /\ now' \in Nat /\ now <= now'
         /\ calls \in Nat /\ calls' \in Nat /\ calls <= calls'
<1>1. now \in Nat /\ calls \in Nat
  BY EsRADTAssumption DEF EscrowInv, EscrowTypeOK
<1>2. CASE Tick
  BY <1>1, <1>2 DEF Tick, escrow
<1>3. CASE Call /\ now' = now
  BY <1>1, <1>3 DEF Call
<1>4. Tick \/ (Call /\ now' = now)
  BY DEF EscrowNext, Transfer, Burn, Lock, Vest, ExitWhitelisted, ExitEarly, ClaimVested,
         WhitelistAddress
<1> QED
  BY <1>2, <1>3, <1>4

\* A call that leaves esRADT and the time alone.
LEMMA CallStep ==
  ASSUME EscrowInv, Call, UNCHANGED <<now, escrow>>
  PROVE  EscrowInv' /\ calls \in Nat /\ calls' \in Nat /\ calls' = calls + 1
<1>1. /\ now \in 0 .. MaxTime /\ calls \in 0 .. MaxCalls
      /\ now \in Nat /\ calls \in Nat /\ MaxTime \in Nat /\ MaxCalls \in Nat
  BY EsRADTAssumption DEF EscrowInv, EscrowTypeOK
<1>2. calls' \in 0 .. MaxCalls /\ calls' \in Nat /\ calls' = calls + 1
  BY <1>1 DEF Call
<1>3. now' \in 0 .. MaxTime /\ now' >= now
  BY <1>1
<1>4. EscrowInv'
  BY <1>2, <1>3, PassingStep
<1> QED
  BY <1>1, <1>2, <1>4

\* Pools that were only brought up to date keep every relation to the stakers.
LEMMA PoolsGrow ==
  ASSUME IInv, poolInfo' \in Seq(PoolInfo), Len(poolInfo') = Len(poolInfo),
         UNCHANGED <<stakerInfo, lpBalance>>,
         \A i \in Pids : /\ poolInfo'[i].lpToken = poolInfo[i].lpToken
                         /\ poolInfo'[i].totalRP = poolInfo[i].totalRP
                         /\ poolInfo[i].accesRADTPerShare <= poolInfo'[i].accesRADTPerShare
                         /\ poolInfo[i].accRPPerShare <= poolInfo'[i].accRPPerShare
  PROVE  AllSettled' /\ OnePoolPerToken' /\ UnusedPools' /\ PowerAddsUp'
<1>1. Pids' = Pids /\ Types
  BY DEF Pids, IInv
<1>2. AllSettled'
  <2> SUFFICES ASSUME NEW i \in Pids, NEW u \in Users
               PROVE  IsSettled(stakerInfo[i][u], poolInfo'[i])
    BY <1>1 DEF AllSettled, IsSettled, Share
  <2>1. /\ stakerInfo[i][u] \in StakerInfo /\ poolInfo[i] \in PoolInfo
        /\ IsSettled(stakerInfo[i][u], poolInfo[i])
    BY <1>1, PoolsAreTyped DEF IInv, AllSettled
  <2>2. poolInfo'[i] \in PoolInfo
    BY DEF Pids
  <2> QED
    BY <2>1, <2>2, StaysSettled
<1>3. OnePoolPerToken'
  BY <1>1 DEF IInv, OnePoolPerToken
<1>4. UnusedPools'
  BY <1>1 DEF IInv, UnusedPools
<1>5. PowerAddsUp'
  BY <1>1 DEF IInv, PowerAddsUp
<1> QED
  BY <1>2, <1>3, <1>4, <1>5

\* The sum of the points depends on the points alone.
LEMMA PointsStay ==
  ASSUME IInv, Len(poolInfo') = Len(poolInfo), UNCHANGED totalAllocPoint,
         \A i \in Pids : poolInfo'[i].allocPoint = poolInfo[i].allocPoint
  PROVE  PointsAddUp'
<1> DEFINE f == [i \in Pids |-> poolInfo[i].allocPoint]
           g == [i \in Pids |-> poolInfo'[i].allocPoint]
<1>1. Pids' = Pids /\ Types
  BY DEF Pids, IInv
<1>2. Len(poolInfo) \in Nat /\ \A i \in Pids : f[i] \in Nat /\ f[i] = g[i]
  BY <1>1, PoolsAreTyped
<1>3. SumTo(f, Len(poolInfo)) = SumTo(g, Len(poolInfo))
  <2> HIDE DEF f, g
  <2> QED
    BY <1>2, SumToAgrees DEF Pids
<1> QED
  BY <1>1, <1>3 DEF IInv, PointsAddUp

\* A staker's stake and points are part of the pool's.
LEMMA ColumnBounds ==
  ASSUME Types, PowerAddsUp, NEW i \in Pids, NEW u \in Users
  PROVE  /\ stakerInfo[i][u].RPamount <= poolInfo[i].totalRP
         /\ stakerInfo[i][u].amount <= lpBalance[poolInfo[i].lpToken]
<1> DEFINE points == [v \in Users |-> stakerInfo[i][v].RPamount]
           amounts == [v \in Users |-> stakerInfo[i][v].amount]
<1>1. IsFiniteSet(Users)
  BY AccountsAreFinite
<1>2. i \in PoolIds /\ points \in [Users -> Nat] /\ amounts \in [Users -> Nat]
  BY PoolsAreTyped
<1>3. /\ SumOver(points, EnumerationOf(Users)) = poolInfo[i].totalRP
      /\ SumOver(amounts, EnumerationOf(Users)) = lpBalance[poolInfo[i].lpToken]
  BY DEF PowerAddsUp, SumOf
<1>4. points[u] = stakerInfo[i][u].RPamount /\ amounts[u] = stakerInfo[i][u].amount
  OBVIOUS
<1> HIDE DEF points, amounts
<1>5. /\ points[u] <= SumOver(points, EnumerationOf(Users))
      /\ amounts[u] <= SumOver(amounts, EnumerationOf(Users))
  BY <1>1, <1>2, SumOverAccounts
<1> QED
  BY <1>3, <1>4, <1>5


-----------------------------------------------------------------------------
(* The owner.                                                              *)

LEMMA EscrowNextStep ==
  ASSUME IInv, EscrowNext, emitted' = emitted + esRADTPerSecond * Multiplier(now, now'),
         UNCHANGED <<stakingState, paid, stakes>>
  PROVE  IInv'
<1>1. EscrowInv' /\ EscrowInv /\ Types
  BY EscrowStep DEF IInv
<1>2. /\ now \in Nat /\ now' \in Nat /\ now <= now'
      /\ calls \in Nat /\ calls' \in Nat /\ calls <= calls'
  BY <1>1, EscrowPasses
<1>3. emitted' \in Nat
  <2>1. Multiplier(now, now') \in Nat /\ emitted \in Nat /\ esRADTPerSecond \in Nat
    BY <1>1, <1>2, MultiplierIsNat DEF Types
  <2> QED
    BY <2>1
<1>4. stakes' \in Nat /\ stakes' <= calls'
  BY <1>1, <1>2 DEF Types
<1>5. Types'
  BY <1>1, <1>3, <1>4 DEF Types, stakingState
<1> QED
  BY <1>1, <1>5 DEF IInv, stakingState, AllSettled, IsSettled, Share, OnePoolPerToken, UnusedPools,
                    PointsAddUp, PowerAddsUp, Pids

LEMMA SetWithdrawableStep ==
  ASSUME IInv, NEW open \in BOOLEAN, SetWithdrawable(open)
  PROVE  IInv'
<1>1. Call /\ EscrowInv /\ UNCHANGED <<now, escrow>> /\ Types
  BY DEF SetWithdrawable, IInv
<1>2. EscrowInv' /\ calls \in Nat /\ calls' = calls + 1
  BY <1>1, CallStep
<1>3. /\ UNCHANGED <<poolInfo, totalAllocPoint, stakerInfo, esRADTPerSecond, RPPerSecond,
                     lpBalance, wallet, emitted, paid, stakes>>
      /\ withdrawable' \in BOOLEAN
  BY DEF SetWithdrawable
<1>4. Types'
  BY <1>1, <1>2, <1>3 DEF Types
<1> QED
  BY <1>2, <1>3, <1>4 DEF IInv, AllSettled, IsSettled, Share, OnePoolPerToken, UnusedPools,
                          PointsAddUp, PowerAddsUp, Pids

LEMMA SupplyRewardsStep ==
  ASSUME IInv, NEW amount \in Supplies, SupplyRewards(amount)
  PROVE  IInv'
<1>1. /\ amount \in Nat /\ Owner \in Accounts /\ Chef \in Accounts /\ EscrowInv
      /\ calls' \in 0 .. MaxCalls
  BY AccountsAreFinite, RdLPStakingAssumption DEF SupplyRewards, IInv, EscrowInv, EscrowTypeOK
<1>2. EscrowInv'
  <2>1. /\ amount <= esBalance[Owner] /\ esBalance' = Moved(esBalance, Owner, Chef, amount)
        /\ UNCHANGED <<now, radt, radtHeld, whitelist, userInfo, schedule, earlyPaid, burned>>
    BY DEF SupplyRewards
  <2> QED
    BY <1>1, <2>1, MovedStep
<1>3. UNCHANGED <<calls, poolInfo, totalAllocPoint, stakerInfo, esRADTPerSecond, RPPerSecond,
                  withdrawable, lpBalance, wallet, emitted, paid, stakes>>
  BY DEF SupplyRewards, stakingState, stakingHistory
<1>4. Types'
  BY <1>3 DEF IInv, Types
<1> QED
  BY <1>2, <1>3, <1>4 DEF IInv, AllSettled, IsSettled, Share, OnePoolPerToken, UnusedPools,
                          PointsAddUp, PowerAddsUp, Pids

LEMMA SetRatesStep ==
  ASSUME IInv, NEW rate \in Rates, NEW rpRate \in Rates, SetRates(rate, rpRate)
  PROVE  IInv'
<1>1. /\ Call /\ EscrowInv /\ UNCHANGED <<now, escrow>> /\ Types
      /\ \A i \in Pids : Updatable(poolInfo[i])
      /\ now \in Nat /\ rate \in Nat /\ rpRate \in Nat
  BY EscrowIsTyped, RdLPStakingAssumption DEF SetRates, IInv
<1>2. EscrowInv' /\ calls \in Nat /\ calls' = calls + 1
  BY <1>1, CallStep
<1>3. /\ UNCHANGED <<totalAllocPoint, stakerInfo, withdrawable, lpBalance, wallet, emitted, paid,
                     stakes>>
      /\ poolInfo' = MassUpdated /\ esRADTPerSecond' = rate /\ RPPerSecond' = rpRate
  BY DEF SetRates
<1>4. /\ poolInfo' \in Seq(PoolInfo) /\ Len(poolInfo') = Len(poolInfo)
      /\ \A i \in Pids :
           /\ poolInfo'[i].lpToken = poolInfo[i].lpToken
           /\ poolInfo'[i].totalRP = poolInfo[i].totalRP
           /\ poolInfo'[i].allocPoint = poolInfo[i].allocPoint
           /\ poolInfo[i].accesRADTPerShare <= poolInfo'[i].accesRADTPerShare
           /\ poolInfo[i].accRPPerShare <= poolInfo'[i].accRPPerShare
  <2> HIDE DEF MassUpdated
  <2> QED
    BY <1>1, <1>3, MassUpdatedGrows
<1>5. AllSettled' /\ OnePoolPerToken' /\ UnusedPools' /\ PowerAddsUp'
  BY <1>3, <1>4, PoolsGrow
<1>6. PointsAddUp'
  BY <1>3, <1>4, PointsStay
<1>7. Types'
  BY <1>1, <1>2, <1>3, <1>4 DEF Types
<1> QED
  BY <1>2, <1>5, <1>6, <1>7 DEF IInv

LEMMA SetAllocPointStep ==
  ASSUME IInv, NEW i \in Pids, NEW allocPoint \in AllocPoints, SetAllocPoint(i, allocPoint)
  PROVE  IInv'
<1>1. /\ Call /\ EscrowInv /\ UNCHANGED <<now, escrow>> /\ Types
      /\ \A j \in Pids : Updatable(poolInfo[j])
      /\ now \in Nat /\ allocPoint \in Nat
  BY EscrowIsTyped, RdLPStakingAssumption DEF SetAllocPoint, IInv
<1>2. EscrowInv' /\ calls \in Nat /\ calls' = calls + 1
  BY <1>1, CallStep
<1>3. /\ UNCHANGED <<stakerInfo, esRADTPerSecond, RPPerSecond, withdrawable, lpBalance, wallet,
                     emitted, paid, stakes>>
      /\ poolInfo' = [MassUpdated EXCEPT ![i].allocPoint = allocPoint]
      /\ totalAllocPoint' = totalAllocPoint - poolInfo[i].allocPoint + allocPoint
  BY DEF SetAllocPoint
<1>4. /\ MassUpdated \in Seq(PoolInfo) /\ Len(MassUpdated) = Len(poolInfo)
      /\ \A j \in Pids :
           /\ MassUpdated[j] \in PoolInfo
           /\ MassUpdated[j].lpToken = poolInfo[j].lpToken
           /\ MassUpdated[j].totalRP = poolInfo[j].totalRP
           /\ MassUpdated[j].allocPoint = poolInfo[j].allocPoint
           /\ poolInfo[j].accesRADTPerShare <= MassUpdated[j].accesRADTPerShare
           /\ poolInfo[j].accRPPerShare <= MassUpdated[j].accRPPerShare
  BY <1>1, MassUpdatedGrows
<1>5. /\ poolInfo' \in Seq(PoolInfo) /\ Len(poolInfo') = Len(poolInfo)
      /\ \A j \in Pids \ {i} : poolInfo'[j] = MassUpdated[j]
      /\ poolInfo'[i] = [MassUpdated[i] EXCEPT !.allocPoint = allocPoint]
  <2> DEFINE mass == MassUpdated
             new == [mass[i] EXCEPT !.allocPoint = allocPoint]
  <2>1. new \in PoolInfo
    BY <1>1, <1>4 DEF PoolInfo
  <2>2. poolInfo' = [mass EXCEPT ![i] = new]
    BY <1>3
  <2>3. i \in 1 .. Len(mass)
    BY <1>4 DEF Pids
  <2> HIDE DEF mass, new
  <2>4. mass \in Seq(PoolInfo) /\ Len(mass) = Len(poolInfo)
    BY <1>4 DEF mass
  <2>5. /\ poolInfo' \in Seq(PoolInfo) /\ Len(poolInfo') = Len(mass)
        /\ \A j \in 1 .. Len(mass) : poolInfo'[j] = IF j = i THEN new ELSE mass[j]
    BY <2>1, <2>2, <2>3, <2>4
  <2> QED
    BY <2>3, <2>4, <2>5 DEF mass, new, Pids
<1>6. /\ poolInfo'[i].lpToken = poolInfo[i].lpToken
      /\ poolInfo'[i].totalRP = poolInfo[i].totalRP
      /\ poolInfo'[i].allocPoint = allocPoint
      /\ poolInfo[i].accesRADTPerShare <= poolInfo'[i].accesRADTPerShare
      /\ poolInfo[i].accRPPerShare <= poolInfo'[i].accRPPerShare
  BY <1>4, <1>5 DEF PoolInfo
<1>7. AllSettled' /\ OnePoolPerToken' /\ UnusedPools' /\ PowerAddsUp'
  <2>1. \A j \in Pids : /\ poolInfo'[j].lpToken = poolInfo[j].lpToken
                        /\ poolInfo'[j].totalRP = poolInfo[j].totalRP
                        /\ poolInfo[j].accesRADTPerShare <= poolInfo'[j].accesRADTPerShare
                        /\ poolInfo[j].accRPPerShare <= poolInfo'[j].accRPPerShare
    BY <1>4, <1>5, <1>6
  <2>2. poolInfo' \in Seq(PoolInfo) /\ Len(poolInfo') = Len(poolInfo)
        /\ UNCHANGED <<stakerInfo, lpBalance>>
    BY <1>3, <1>5
  <2> QED
    BY <2>1, <2>2, PoolsGrow
<1>8. PointsAddUp' /\ totalAllocPoint' \in Nat
  <2> DEFINE f == [j \in Pids |-> poolInfo[j].allocPoint]
             g == [j \in Pids |-> poolInfo'[j].allocPoint]
  <2>1. Pids' = Pids /\ Len(poolInfo) \in Nat /\ i \in 1 .. Len(poolInfo)
    BY <1>1, <1>5, PoolsAreTyped DEF Pids
  <2>2. /\ \A j \in 1 .. Len(poolInfo) : f[j] \in Nat /\ g[j] \in Nat
        /\ \A j \in 1 .. Len(poolInfo) : j # i => f[j] = g[j]
        /\ f[i] = poolInfo[i].allocPoint /\ g[i] = allocPoint
    BY <1>1, <1>4, <1>5, <1>6, PoolsAreTyped DEF Pids
  <2>3. totalAllocPoint = SumTo(f, Len(poolInfo))
    BY DEF IInv, PointsAddUp
  <2>4. SumTo(g, Len(poolInfo)) = SumTo(f, Len(poolInfo)) - f[i] + g[i]
        /\ SumTo(g, Len(poolInfo)) \in Nat
    <3> HIDE DEF f, g
    <3>1. \A m \in 0 .. Len(poolInfo) : SumTo(g, m) \in Nat
      BY <2>1, <2>2, SumToNat
    <3>2. SumTo(g, Len(poolInfo)) = SumTo(f, Len(poolInfo)) - f[i] + g[i]
      BY <2>1, <2>2, SumToChanges
    <3>3. Len(poolInfo) \in 0 .. Len(poolInfo)
      BY <2>1
    <3> QED
      BY <3>1, <3>2, <3>3
  <2>5. totalAllocPoint' = SumTo(g, Len(poolInfo)) /\ totalAllocPoint' \in Nat
    BY <1>3, <2>2, <2>3, <2>4
  <2>6. Len(poolInfo') = Len(poolInfo)
    BY <1>5
  <2> QED
    BY <2>1, <2>5, <2>6 DEF PointsAddUp
<1>9. Types'
  BY <1>1, <1>2, <1>3, <1>5, <1>8 DEF Types
<1> QED
  BY <1>2, <1>7, <1>8, <1>9 DEF IInv


LEMMA UpdatePoolStep ==
  ASSUME IInv, NEW i \in Pids, UpdatePool(i)
  PROVE  IInv'
<1>1. /\ Call /\ EscrowInv /\ UNCHANGED <<now, escrow>> /\ Types
      /\ Updatable(poolInfo[i]) /\ now \in Nat
  BY EscrowIsTyped DEF UpdatePool, IInv
<1>2. EscrowInv' /\ calls \in Nat /\ calls' = calls + 1
  BY <1>1, CallStep
<1>3. /\ UNCHANGED <<totalAllocPoint, stakerInfo, esRADTPerSecond, RPPerSecond, withdrawable,
                     lpBalance, wallet, emitted, paid, stakes>>
      /\ poolInfo' = [poolInfo EXCEPT ![i] = UpToDate(poolInfo[i])]
  BY DEF UpdatePool, stakingHistory
<1> DEFINE new == UpToDate(poolInfo[i])
<1>4. /\ poolInfo[i] \in PoolInfo /\ i \in 1 .. Len(poolInfo)
      /\ poolInfo \in Seq(PoolInfo)
      /\ \A j \in Pids : poolInfo[j].accesRADTPerShare \in Nat /\ poolInfo[j].accRPPerShare \in Nat
  BY <1>1, PoolsAreTyped DEF Pids, Types
<1>5. /\ new \in PoolInfo /\ new.lpToken = poolInfo[i].lpToken
      /\ new.totalRP = poolInfo[i].totalRP /\ new.allocPoint = poolInfo[i].allocPoint
      /\ poolInfo[i].accesRADTPerShare <= new.accesRADTPerShare
      /\ poolInfo[i].accRPPerShare <= new.accRPPerShare
  BY <1>1, <1>4, UpToDateGrows
<1>6. poolInfo' = [poolInfo EXCEPT ![i] = new]
  BY <1>3
<1> HIDE DEF new
<1>7. /\ poolInfo' \in Seq(PoolInfo) /\ Len(poolInfo') = Len(poolInfo)
      /\ \A j \in Pids : poolInfo'[j] = IF j = i THEN new ELSE poolInfo[j]
  BY <1>4, <1>5, <1>6 DEF Pids
<1>8. \A j \in Pids :
        /\ poolInfo'[j].lpToken = poolInfo[j].lpToken
        /\ poolInfo'[j].totalRP = poolInfo[j].totalRP
        /\ poolInfo'[j].allocPoint = poolInfo[j].allocPoint
        /\ poolInfo[j].accesRADTPerShare <= poolInfo'[j].accesRADTPerShare
        /\ poolInfo[j].accRPPerShare <= poolInfo'[j].accRPPerShare
  BY <1>4, <1>5, <1>7
<1>9. AllSettled' /\ OnePoolPerToken' /\ UnusedPools' /\ PowerAddsUp'
  BY <1>3, <1>7, <1>8, PoolsGrow
<1>10. PointsAddUp'
  BY <1>3, <1>7, <1>8, PointsStay
<1>11. Types'
  BY <1>1, <1>2, <1>3, <1>7 DEF Types
<1> QED
  BY <1>2, <1>9, <1>10, <1>11 DEF IInv

\* A new pool has no stakers, and no points are lost.
LEMMA AddStep ==
  ASSUME IInv, NEW allocPoint \in AllocPoints, NEW lp \in LPTokens, Add(allocPoint, lp)
  PROVE  IInv'
<1> DEFINE n == Len(poolInfo)
           new == [lpToken |-> lp, totalRP |-> 0, allocPoint |-> allocPoint,
                   lastRewardTime |-> Later(now, startTime),
                   accesRADTPerShare |-> 0, accRPPerShare |-> 0]
<1>1. /\ EscrowInv /\ Types /\ now \in Nat /\ allocPoint \in Nat
      /\ n \in Nat /\ n < MaxPools /\ MaxPools \in Nat
      /\ \A j \in Pids : Updatable(poolInfo[j]) /\ poolInfo[j].lpToken # lp
  BY EscrowIsTyped, RdLPStakingAssumption, PoolsAreTyped DEF Add, IInv
<1>2. /\ UNCHANGED <<now, escrow, calls, stakerInfo, esRADTPerSecond, RPPerSecond, withdrawable,
                     lpBalance, wallet, emitted, paid, stakes>>
      /\ poolInfo' = Append(MassUpdated, new)
      /\ totalAllocPoint' = totalAllocPoint + allocPoint
  BY DEF Add, escrowVars
<1>3. EscrowInv'
  <2>1. /\ now' \in 0 .. MaxTime /\ now' >= now /\ calls' \in 0 .. MaxCalls /\ UNCHANGED escrow
    BY <1>1, <1>2 DEF EscrowInv, EscrowTypeOK
  <2> QED
    BY <1>1, <2>1, PassingStep
<1>4. /\ MassUpdated \in Seq(PoolInfo) /\ Len(MassUpdated) = n
      /\ \A j \in Pids :
           /\ MassUpdated[j] \in PoolInfo
           /\ MassUpdated[j].lpToken = poolInfo[j].lpToken
           /\ MassUpdated[j].totalRP = poolInfo[j].totalRP
           /\ MassUpdated[j].allocPoint = poolInfo[j].allocPoint
           /\ poolInfo[j].accesRADTPerShare <= MassUpdated[j].accesRADTPerShare
           /\ poolInfo[j].accRPPerShare <= MassUpdated[j].accRPPerShare
  BY <1>1, MassUpdatedGrows
<1>5. new \in PoolInfo
  <2>1. Later(now, startTime) \in Nat
    BY <1>1, RdLPStakingAssumption DEF Later
  <2> QED
    BY <1>1, <2>1 DEF PoolInfo
<1>6. /\ new.lpToken = lp /\ new.totalRP = 0 /\ new.allocPoint = allocPoint
      /\ new.accesRADTPerShare = 0 /\ new.accRPPerShare = 0
  OBVIOUS
<1> HIDE DEF new
<1>7. /\ poolInfo' \in Seq(PoolInfo) /\ Len(poolInfo') = n + 1
      /\ \A j \in Pids : poolInfo'[j] = MassUpdated[j]
      /\ poolInfo'[n + 1] = new
  <2> DEFINE mass == MassUpdated
  <2>1. mass \in Seq(PoolInfo) /\ Len(mass) = n /\ poolInfo' = Append(mass, new)
    BY <1>2, <1>4
  <2> HIDE DEF mass
  <2>2. /\ poolInfo' \in Seq(PoolInfo) /\ Len(poolInfo') = n + 1
        /\ \A j \in 1 .. n : poolInfo'[j] = mass[j]
        /\ poolInfo'[n + 1] = new
    BY <1>1, <1>5, <2>1
  <2> QED
    BY <2>2 DEF mass, Pids
<1>8. /\ Pids' = Pids \cup {n + 1} /\ n + 1 \notin Pids /\ n + 1 \in PoolIds /\ Pids \subseteq PoolIds
  BY <1>1, <1>7 DEF Pids, PoolIds
<1> HIDE DEF n
<1>9. \A u \in Users :
        /\ stakerInfo[n + 1][u].amount = 0 /\ stakerInfo[n + 1][u].RPamount = 0
        /\ stakerInfo[n + 1][u].rewardDebt = 0 /\ stakerInfo[n + 1][u].RPrewardDebt = 0
        /\ stakerInfo[n + 1][u] \in StakerInfo
  BY <1>1, <1>8, PoolsAreTyped DEF IInv, UnusedPools
<1>10. lpBalance[lp] = 0
  BY <1>1 DEF IInv, UnusedPools
<1>11. \A j \in Pids :
         /\ poolInfo'[j].lpToken = poolInfo[j].lpToken
         /\ poolInfo'[j].totalRP = poolInfo[j].totalRP
         /\ poolInfo'[j].allocPoint = poolInfo[j].allocPoint
         /\ poolInfo[j].accesRADTPerShare <= poolInfo'[j].accesRADTPerShare
         /\ poolInfo[j].accRPPerShare <= poolInfo'[j].accRPPerShare
         /\ poolInfo[j] \in PoolInfo /\ poolInfo'[j] \in PoolInfo
  BY <1>1, <1>4, <1>7, PoolsAreTyped
<1>12. AllSettled'
  <2>1. \A j \in Pids, u \in Users : IsSettled(stakerInfo[j][u], poolInfo'[j])
    <3> TAKE j \in Pids, u \in Users
    <3>1. stakerInfo[j][u] \in StakerInfo /\ IsSettled(stakerInfo[j][u], poolInfo[j])
      BY <1>1, <1>8, PoolsAreTyped DEF IInv, AllSettled
    <3> QED
      BY <1>11, <3>1, StaysSettled
  <2>2. \A u \in Users : IsSettled(stakerInfo[n + 1][u], new)
    <3> TAKE u \in Users
    <3>1. Share(stakerInfo[n + 1][u], 0) = 0
      BY <1>9, NoShare
    <3> QED
      BY <1>6, <1>9, <3>1 DEF IsSettled
  <2>3. \A j \in Pids', u \in Users : IsSettled(stakerInfo[j][u], poolInfo'[j])
    BY <1>7, <1>8, <2>1, <2>2
  <2> QED
    BY <1>2, <2>3 DEF AllSettled, IsSettled, Share
<1>13. OnePoolPerToken'
  <2>1. \A j, k \in Pids : poolInfo[j].lpToken = poolInfo[k].lpToken => j = k
    BY DEF IInv, OnePoolPerToken
  <2>2. \A j, k \in Pids \cup {n + 1} : poolInfo'[j].lpToken = poolInfo'[k].lpToken => j = k
    BY <1>1, <1>6, <1>7, <1>11, <2>1
  <2> QED
    BY <1>8, <2>2 DEF OnePoolPerToken
<1>14. UnusedPools'
  <2>1. \A j \in PoolIds \ Pids', u \in Users :
          stakerInfo[j][u].amount = 0 /\ stakerInfo[j][u].RPamount = 0
          /\ stakerInfo[j][u].rewardDebt = 0 /\ stakerInfo[j][u].RPrewardDebt = 0
    BY <1>8 DEF IInv, UnusedPools
  <2>2. ASSUME NEW token \in LPTokens, \A j \in Pids' : poolInfo'[j].lpToken # token
        PROVE  lpBalance[token] = 0
    BY <1>8, <1>11, <2>2 DEF IInv, UnusedPools
  <2> QED
    BY <1>2, <2>1, <2>2 DEF UnusedPools
<1>15. PointsAddUp'
  <2> DEFINE f == [j \in Pids |-> poolInfo[j].allocPoint]
             g == [j \in Pids \cup {n + 1} |-> poolInfo'[j].allocPoint]
  <2>1. totalAllocPoint = SumTo(f, n)
    BY DEF IInv, PointsAddUp, n
  <2>2. /\ \A j \in 1 .. n : f[j] \in Nat /\ f[j] = g[j]
        /\ g[n + 1] = allocPoint
    BY <1>1, <1>6, <1>7, <1>11, PoolsAreTyped DEF Pids, n
  <2>3. SumTo(g, n + 1) = SumTo(f, n) + allocPoint
    <3> HIDE DEF f, g
    <3>1. SumTo(f, n) = SumTo(g, n)
      BY <1>1, <2>2, SumToAgrees DEF n
    <3>2. SumTo(g, n + 1) = SumTo(g, n) + g[n + 1]
      BY <1>1, SumToUnfolds
    <3> QED
      BY <2>2, <3>1, <3>2
  <2>4. totalAllocPoint' = SumTo(g, n + 1)
    BY <1>2, <2>1, <2>3
  <2> QED
    BY <1>7, <1>8, <2>4 DEF PointsAddUp
<1>16. PowerAddsUp'
  <2>1. \A j \in Pids :
          /\ SumOf([u \in Users |-> stakerInfo[j][u].RPamount]) = poolInfo'[j].totalRP
          /\ SumOf([u \in Users |-> stakerInfo[j][u].amount]) = lpBalance[poolInfo'[j].lpToken]
          /\ \A u \in Users : stakerInfo[j][u].amount = 0 => stakerInfo[j][u].RPamount = 0
    BY <1>11 DEF IInv, PowerAddsUp
  <2>2. /\ SumOf([u \in Users |-> stakerInfo[n + 1][u].RPamount]) = 0
        /\ SumOf([u \in Users |-> stakerInfo[n + 1][u].amount]) = 0
    <3> DEFINE points == [u \in Users |-> stakerInfo[n + 1][u].RPamount]
               amounts == [u \in Users |-> stakerInfo[n + 1][u].amount]
    <3>1. /\ points \in [Users -> Nat] /\ \A u \in Users : points[u] = 0
          /\ amounts \in [Users -> Nat] /\ \A u \in Users : amounts[u] = 0
      BY <1>9
    <3> HIDE DEF points, amounts
    <3>2. SumOver(points, EnumerationOf(Users)) = 0 /\ SumOver(amounts, EnumerationOf(Users)) = 0
      BY <3>1, AccountsAreFinite, SumOverAccounts
    <3> QED
      BY <3>2 DEF SumOf, points, amounts
  <2>3. \A j \in Pids' :
          /\ SumOf([u \in Users |-> stakerInfo[j][u].RPamount]) = poolInfo'[j].totalRP
          /\ SumOf([u \in Users |-> stakerInfo[j][u].amount]) = lpBalance[poolInfo'[j].lpToken]
          /\ \A u \in Users : stakerInfo[j][u].amount = 0 => stakerInfo[j][u].RPamount = 0
    <3> TAKE j \in Pids'
    <3>1. CASE j \in Pids
      BY <2>1, <3>1
    <3>2. CASE j = n + 1
      BY <1>6, <1>7, <1>9, <1>10, <2>2, <3>2
    <3> QED
      BY <1>8, <3>1, <3>2
  <2> QED
    BY <1>2, <2>3 DEF PowerAddsUp, SumOf
<1>17. Types'
  <2>1. totalAllocPoint' \in Nat /\ Len(poolInfo') <= MaxPools
    BY <1>1, <1>2, <1>7 DEF Types, n
  <2> QED
    BY <1>1, <1>2, <1>7, <2>1 DEF Types
<1> QED
  BY <1>3, <1>12, <1>13, <1>14, <1>15, <1>16, <1>17 DEF IInv


-----------------------------------------------------------------------------
(* Stakers.                                                                *)

\* Paying what is there is a transfer.
LEMMA PayStep ==
  ASSUME EscrowInv, Call, NEW u \in Users, NEW pending \in Nat, Pay(u, pending)
  PROVE  /\ EscrowInv' /\ paid' = paid + pending
         /\ calls \in Nat /\ calls' \in Nat /\ calls' = calls + 1
<1> DEFINE amount == IF pending > esBalance[Chef] THEN esBalance[Chef] ELSE pending
<1>1. /\ Chef \in Accounts /\ u \in Accounts /\ calls \in Nat
      /\ esBalance \in [Accounts -> Nat] /\ calls' \in 0 .. MaxCalls
  BY AccountsAreFinite, EscrowIsTyped, CallCounts
<1>2. amount \in Nat /\ amount <= esBalance[Chef]
  <2>1. esBalance[Chef] \in Nat
    BY <1>1
  <2> QED
    BY <2>1
<1>3. /\ esBalance' = Moved(esBalance, Chef, u, amount) /\ paid' = paid + pending
      /\ UNCHANGED <<now, radt, radtHeld, whitelist, userInfo, schedule, earlyPaid, burned>>
  BY DEF Pay
<1> HIDE DEF amount
<1>4. EscrowInv'
  BY <1>1, <1>2, <1>3, MovedStep
<1> QED
  BY <1>1, <1>3, <1>4 DEF Call

\* A settled record, whatever its stake and points were before.
LEMMA SettledIsSettled ==
  ASSUME NEW user \in StakerInfo, NEW pool \in PoolInfo
  PROVE  /\ Settled(user, pool) \in StakerInfo
         /\ Settled(user, pool).amount = user.amount
         /\ Settled(user, pool).RPamount = user.RPamount
         /\ IsSettled(Settled(user, pool), pool)
<1> DEFINE a == Share(user, pool.accesRADTPerShare)
           b == Share(user, pool.accRPPerShare)
           after == Settled(user, pool)
<1>1. a \in Nat /\ b \in Nat
  <2>1. pool.accesRADTPerShare \in Nat /\ pool.accRPPerShare \in Nat
    BY DEF PoolInfo
  <2> QED
    BY <2>1, ShareGrows
<1>2. after = [user EXCEPT !.rewardDebt = a, !.RPrewardDebt = b]
  BY DEF Settled
<1> HIDE DEF a, b, after
<1>3. /\ after \in StakerInfo /\ after.amount = user.amount /\ after.RPamount = user.RPamount
      /\ after.rewardDebt = a /\ after.RPrewardDebt = b
  BY <1>1, <1>2 DEF StakerInfo
<1>4. /\ Share(after, pool.accesRADTPerShare) = a
      /\ Share(after, pool.accRPPerShare) = b
  BY <1>3 DEF Share, a, b
<1>5. IsSettled(after, pool)
  BY <1>1, <1>3, <1>4 DEF IsSettled
<1> QED
  BY <1>3, <1>5 DEF after

\* What is pending to a staker in a pool brought up to date.
LEMMA PendingIsNat ==
  ASSUME IInv, now \in Nat, NEW u \in Users, NEW i \in Pids, Updatable(poolInfo[i])
  PROVE  LET pool == UpToDate(poolInfo[i])
             user == stakerInfo[i][u]
         IN  /\ Share(user, pool.accesRADTPerShare) - user.rewardDebt \in Nat
             /\ Share(user, pool.accRPPerShare) - user.RPrewardDebt \in Nat
             /\ Share(user, pool.accRPPerShare) \in Nat
<1> DEFINE pool == UpToDate(poolInfo[i])
           user == stakerInfo[i][u]
<1>1. /\ poolInfo[i] \in PoolInfo /\ user \in StakerInfo /\ Types
      /\ user.rewardDebt \in Nat /\ user.RPrewardDebt \in Nat
      /\ IsSettled(user, poolInfo[i])
  BY PoolsAreTyped DEF IInv, AllSettled
<1>2. /\ pool \in PoolInfo
      /\ poolInfo[i].accesRADTPerShare <= pool.accesRADTPerShare
      /\ poolInfo[i].accRPPerShare <= pool.accRPPerShare
  BY <1>1, UpToDateGrows
<1> HIDE DEF pool, user
<1>3. IsSettled(user, pool)
  BY <1>1, <1>2, StaysSettled
<1>4. Share(user, pool.accesRADTPerShare) \in Nat /\ Share(user, pool.accRPPerShare) \in Nat
  <2>1. pool.accesRADTPerShare \in Nat /\ pool.accRPPerShare \in Nat
    BY <1>2 DEF PoolInfo
  <2> QED
    BY <1>1, <2>1, ShareGrows
<1>5. /\ Share(user, pool.accesRADTPerShare) - user.rewardDebt \in Nat
      /\ Share(user, pool.accRPPerShare) - user.RPrewardDebt \in Nat
  BY <1>1, <1>3, <1>4 DEF IsSettled
<1> QED
  BY <1>4, <1>5 DEF pool, user

\* What deposit and withdraw do to the pools, the records and the balances.
Restakes(u, i, changed, total, balance) ==
  /\ poolInfo' = [poolInfo EXCEPT ![i] = [UpToDate(poolInfo[i]) EXCEPT !.totalRP = total]]
  /\ stakerInfo' = [stakerInfo EXCEPT ![i][u] = Settled(changed, UpToDate(poolInfo[i]))]
  /\ lpBalance' = [lpBalance EXCEPT ![poolInfo[i].lpToken] = balance]

\* One staker's stake and points change, and the pool's with them.
LEMMA Restaked ==
  ASSUME IInv, now \in Nat, NEW u \in Users, NEW i \in Pids, Updatable(poolInfo[i]),
         NEW changed \in StakerInfo, NEW total \in Nat, NEW balance \in Nat,
         Restakes(u, i, changed, total, balance), UNCHANGED totalAllocPoint,
         total = poolInfo[i].totalRP - stakerInfo[i][u].RPamount + changed.RPamount,
         balance = lpBalance[poolInfo[i].lpToken] - stakerInfo[i][u].amount + changed.amount,
         changed.amount = 0 => changed.RPamount = 0
  PROVE  /\ poolInfo' \in Seq(PoolInfo) /\ Len(poolInfo') = Len(poolInfo)
         /\ stakerInfo' \in [PoolIds -> [Users -> StakerInfo]]
         /\ lpBalance' \in [LPTokens -> Nat]
         /\ AllSettled' /\ OnePoolPerToken' /\ UnusedPools' /\ PointsAddUp' /\ PowerAddsUp'
         /\ \A j \in Pids \ {i} : poolInfo'[j] = poolInfo[j]
         /\ poolInfo'[i].lpToken = poolInfo[i].lpToken /\ poolInfo'[i].totalRP = total
         /\ poolInfo'[i].allocPoint = poolInfo[i].allocPoint
         /\ poolInfo'[i].lastRewardTime = UpToDate(poolInfo[i]).lastRewardTime
         /\ poolInfo'[i].accesRADTPerShare = UpToDate(poolInfo[i]).accesRADTPerShare
         /\ stakerInfo'[i][u] = Settled(changed, UpToDate(poolInfo[i]))
         /\ \A j \in PoolIds, v \in Users : (j # i \/ v # u) => stakerInfo'[j][v] = stakerInfo[j][v]
         /\ lpBalance'[poolInfo[i].lpToken] = balance
         /\ \A lp \in LPTokens \ {poolInfo[i].lpToken} : lpBalance'[lp] = lpBalance[lp]
<1> DEFINE pool == UpToDate(poolInfo[i])
           new == [pool EXCEPT !.totalRP = total]
           after == Settled(changed, pool)
           token == poolInfo[i].lpToken
<1>1. /\ Types /\ Pids \subseteq PoolIds /\ i \in 1 .. Len(poolInfo) /\ poolInfo \in Seq(PoolInfo)
      /\ token \in LPTokens
      /\ \A j \in Pids : /\ poolInfo[j] \in PoolInfo
                         /\ poolInfo[j].accesRADTPerShare \in Nat
                         /\ poolInfo[j].accRPPerShare \in Nat
      /\ \A j \in PoolIds, v \in Users : stakerInfo[j][v] \in StakerInfo
  BY PoolsAreTyped DEF IInv, Types, Pids
<1>2. /\ pool \in PoolInfo /\ pool.lpToken = token /\ pool.allocPoint = poolInfo[i].allocPoint
      /\ poolInfo[i].accesRADTPerShare <= pool.accesRADTPerShare
      /\ poolInfo[i].accRPPerShare <= pool.accRPPerShare
  BY <1>1, UpToDateGrows
<1>3. /\ after \in StakerInfo /\ after.amount = changed.amount
      /\ after.RPamount = changed.RPamount /\ IsSettled(after, pool)
  <2> HIDE DEF pool
  <2> QED
    BY <1>2, SettledIsSettled
<1> DEFINE row == [stakerInfo[i] EXCEPT ![u] = after]
<1>4. /\ poolInfo' = [poolInfo EXCEPT ![i] = new]
      /\ stakerInfo' = [stakerInfo EXCEPT ![i] = row]
      /\ lpBalance' = [lpBalance EXCEPT ![token] = balance]
  BY DEF Restakes
<1> HIDE DEF pool, after, token
<1>5. /\ new \in PoolInfo /\ new.lpToken = token /\ new.totalRP = total
      /\ new.allocPoint = poolInfo[i].allocPoint
      /\ new.accesRADTPerShare = pool.accesRADTPerShare /\ new.accRPPerShare = pool.accRPPerShare
      /\ new.lastRewardTime = pool.lastRewardTime
  BY <1>2 DEF PoolInfo
<1>6. IsSettled(after, new)
  BY <1>3, <1>5 DEF IsSettled
<1> HIDE DEF new
<1>7. /\ poolInfo' \in Seq(PoolInfo) /\ Len(poolInfo') = Len(poolInfo)
      /\ \A j \in Pids : poolInfo'[j] = IF j = i THEN new ELSE poolInfo[j]
  <2>1. poolInfo' = [poolInfo EXCEPT ![i] = new]
    BY <1>4
  <2> QED
    BY <1>1, <1>5, <2>1 DEF Pids
<1>8. /\ stakerInfo' \in [PoolIds -> [Users -> StakerInfo]]
      /\ stakerInfo'[i][u] = after
      /\ \A j \in PoolIds, v \in Users : (j # i \/ v # u) => stakerInfo'[j][v] = stakerInfo[j][v]
  <2>1. stakerInfo \in [PoolIds -> [Users -> StakerInfo]] /\ i \in PoolIds
    BY <1>1 DEF Types
  <2>2. /\ row \in [Users -> StakerInfo] /\ row[u] = after
        /\ \A v \in Users \ {u} : row[v] = stakerInfo[i][v]
    BY <1>3, <2>1
  <2>3. stakerInfo' = [stakerInfo EXCEPT ![i] = row]
    BY <1>4
  <2> HIDE DEF row
  <2>4. /\ stakerInfo' \in [PoolIds -> [Users -> StakerInfo]] /\ stakerInfo'[i] = row
        /\ \A j \in PoolIds \ {i} : stakerInfo'[j] = stakerInfo[j]
    BY <2>1, <2>2, <2>3
  <2> QED
    BY <2>2, <2>4
<1>9. /\ lpBalance' \in [LPTokens -> Nat] /\ lpBalance'[token] = balance
      /\ \A lp \in LPTokens \ {token} : lpBalance'[lp] = lpBalance[lp]
  BY <1>1, <1>4 DEF Types
<1>10. Pids' = Pids
  BY <1>7 DEF Pids
<1>11. \A j \in Pids : /\ poolInfo'[j].lpToken = poolInfo[j].lpToken
                       /\ poolInfo'[j].allocPoint = poolInfo[j].allocPoint
  BY <1>5, <1>7 DEF token
<1>12. AllSettled'
  <2> SUFFICES ASSUME NEW j \in Pids, NEW v \in Users
               PROVE  IsSettled(stakerInfo'[j][v], poolInfo'[j])
    BY <1>10 DEF AllSettled, IsSettled, Share
  <2>1. CASE j = i /\ v = u
    BY <1>6, <1>7, <1>8, <2>1
  <2>2. CASE j = i /\ v # u
    <3>1. stakerInfo'[j][v] = stakerInfo[j][v] /\ poolInfo'[j] = new
      BY <1>1, <1>7, <1>8, <2>2
    <3>2. stakerInfo[j][v] \in StakerInfo /\ IsSettled(stakerInfo[j][v], poolInfo[i])
      BY <1>1, <2>2 DEF IInv, AllSettled
    <3>3. IsSettled(stakerInfo[j][v], new)
      BY <1>1, <1>2, <1>5, <3>2, StaysSettled
    <3> QED
      BY <3>1, <3>3
  <2>3. CASE j # i
    <3>1. stakerInfo'[j][v] = stakerInfo[j][v] /\ poolInfo'[j] = poolInfo[j]
      BY <1>1, <1>7, <1>8, <2>3
    <3>2. IsSettled(stakerInfo[j][v], poolInfo[j])
      BY DEF IInv, AllSettled
    <3> QED
      BY <3>1, <3>2
  <2> QED
    BY <2>1, <2>2, <2>3
<1>13. OnePoolPerToken'
  BY <1>10, <1>11 DEF IInv, OnePoolPerToken
<1>14. UnusedPools'
  <2>1. \A j \in PoolIds \ Pids, v \in Users : stakerInfo'[j][v] = stakerInfo[j][v]
    BY <1>8
  <2>2. ASSUME NEW lp \in LPTokens, \A j \in Pids : poolInfo'[j].lpToken # lp
        PROVE  lpBalance'[lp] = 0
    <3>1. lp # token
      BY <2>2, <1>11 DEF token
    <3>2. lpBalance[lp] = 0
      BY <2>2, <1>11 DEF IInv, UnusedPools
    <3> QED
      BY <1>9, <3>1, <3>2
  <2>3. \A j \in PoolIds \ Pids, v \in Users :
          stakerInfo'[j][v].amount = 0 /\ stakerInfo'[j][v].RPamount = 0
          /\ stakerInfo'[j][v].rewardDebt = 0 /\ stakerInfo'[j][v].RPrewardDebt = 0
    BY <2>1 DEF IInv, UnusedPools
  <2> QED
    BY <1>10, <2>2, <2>3 DEF UnusedPools
<1>15. PointsAddUp'
  BY <1>7, <1>11, PointsStay
<1>16. PowerAddsUp'
  <2> SUFFICES ASSUME NEW j \in Pids
               PROVE  /\ SumOver([v \in Users |-> stakerInfo'[j][v].RPamount], EnumerationOf(Users))
                           = poolInfo'[j].totalRP
                      /\ SumOver([v \in Users |-> stakerInfo'[j][v].amount], EnumerationOf(Users))
                           = lpBalance'[poolInfo'[j].lpToken]
                      /\ \A v \in Users :
                           stakerInfo'[j][v].amount = 0 => stakerInfo'[j][v].RPamount = 0
    BY <1>10 DEF PowerAddsUp, SumOf
  <2> DEFINE points == [v \in Users |-> stakerInfo[j][v].RPamount]
             amounts == [v \in Users |-> stakerInfo[j][v].amount]
             points1 == [v \in Users |-> stakerInfo'[j][v].RPamount]
             amounts1 == [v \in Users |-> stakerInfo'[j][v].amount]
  <2>1. /\ SumOver(points, EnumerationOf(Users)) = poolInfo[j].totalRP
        /\ SumOver(amounts, EnumerationOf(Users)) = lpBalance[poolInfo[j].lpToken]
        /\ \A v \in Users : stakerInfo[j][v].amount = 0 => stakerInfo[j][v].RPamount = 0
    BY DEF IInv, PowerAddsUp, SumOf
  <2>2. CASE j # i
    <3>1. \A v \in Users : stakerInfo'[j][v] = stakerInfo[j][v]
      BY <1>1, <1>8, <2>2
    <3>2. points1 = points /\ amounts1 = amounts
      BY <3>1
    <3>3. poolInfo'[j] = poolInfo[j] /\ poolInfo[j].lpToken \in LPTokens \ {token}
      BY <1>1, <1>7, <2>2 DEF IInv, OnePoolPerToken, token, PoolInfo
    <3>4. lpBalance'[poolInfo[j].lpToken] = lpBalance[poolInfo[j].lpToken]
      BY <1>9, <3>3
    <3>5. \A v \in Users : stakerInfo'[j][v].amount = 0 => stakerInfo'[j][v].RPamount = 0
      BY <2>1, <3>1
    <3> HIDE DEF points, amounts, points1, amounts1
    <3>6. /\ SumOver(points1, EnumerationOf(Users)) = poolInfo'[j].totalRP
          /\ SumOver(amounts1, EnumerationOf(Users)) = lpBalance'[poolInfo'[j].lpToken]
      BY <2>1, <3>2, <3>3, <3>4
    <3> QED
      BY <3>5, <3>6 DEF points1, amounts1
  <2>3. CASE j = i
    <3>1. /\ points \in [Users -> Nat] /\ points1 \in [Users -> Nat]
          /\ amounts \in [Users -> Nat] /\ amounts1 \in [Users -> Nat]
      <4>1. \A v \in Users : stakerInfo[j][v] \in StakerInfo /\ stakerInfo'[j][v] \in StakerInfo
        BY <1>1, <1>8
      <4> QED
        BY <4>1 DEF StakerInfo
    <3>2. /\ \A v \in Users \ {u} : points1[v] = points[v]
          /\ \A v \in Users \ {u} : amounts1[v] = amounts[v]
      BY <1>1, <1>8
    <3>3. /\ points[u] = stakerInfo[i][u].RPamount /\ points1[u] = changed.RPamount
          /\ amounts[u] = stakerInfo[i][u].amount /\ amounts1[u] = changed.amount
      BY <1>3, <1>8, <2>3
    <3>4. \A v \in Users : stakerInfo'[j][v].amount = 0 => stakerInfo'[j][v].RPamount = 0
      BY <1>1, <1>3, <1>8, <2>1, <2>3
    <3>5. poolInfo'[j].totalRP = total /\ lpBalance'[poolInfo'[j].lpToken] = balance
      BY <1>5, <1>7, <1>9, <2>3
    <3>6. /\ SumOver(points, EnumerationOf(Users)) = poolInfo[i].totalRP
          /\ SumOver(amounts, EnumerationOf(Users)) = lpBalance[poolInfo[i].lpToken]
      BY <2>1, <2>3
    <3> HIDE DEF points, amounts, points1, amounts1
    <3>7. /\ SumOver(points1, EnumerationOf(Users))
               = SumOver(points, EnumerationOf(Users)) - points[u] + points1[u]
          /\ SumOver(amounts1, EnumerationOf(Users))
               = SumOver(amounts, EnumerationOf(Users)) - amounts[u] + amounts1[u]
      BY <3>1, <3>2, AccountsAreFinite, EntryChanges
    <3>8. /\ SumOver(points1, EnumerationOf(Users)) = total
          /\ SumOver(amounts1, EnumerationOf(Users)) = balance
      BY <3>3, <3>6, <3>7
    <3> QED
      BY <3>4, <3>5, <3>8 DEF points1, amounts1
  <2> QED
    BY <2>2, <2>3
<1>17. /\ \A j \in Pids \ {i} : poolInfo'[j] = poolInfo[j]
       /\ poolInfo'[i].lpToken = poolInfo[i].lpToken /\ poolInfo'[i].totalRP = total
       /\ poolInfo'[i].allocPoint = poolInfo[i].allocPoint
       /\ poolInfo'[i].lastRewardTime = UpToDate(poolInfo[i]).lastRewardTime
       /\ poolInfo'[i].accesRADTPerShare = UpToDate(poolInfo[i]).accesRADTPerShare
  BY <1>5, <1>7 DEF pool, token
<1>18. /\ stakerInfo'[i][u] = Settled(changed, UpToDate(poolInfo[i]))
       /\ \A j \in PoolIds, v \in Users :
            (j # i \/ v # u) => stakerInfo'[j][v] = stakerInfo[j][v]
       /\ lpBalance'[poolInfo[i].lpToken] = balance
       /\ \A lp \in LPTokens \ {poolInfo[i].lpToken} : lpBalance'[lp] = lpBalance[lp]
  BY <1>8, <1>9 DEF after, pool, token
<1> QED
  BY <1>7, <1>8, <1>9, <1>12, <1>13, <1>14, <1>15, <1>16, <1>17, <1>18

\* How deposit and withdraw change a stake: the staker's record and the pool's
\* power move together.
Restaking(u, i) ==
  \E changed \in StakerInfo, total \in Nat, balance \in Nat :
    /\ Restakes(u, i, changed, total, balance)
    /\ total = poolInfo[i].totalRP - stakerInfo[i][u].RPamount + changed.RPamount
    /\ balance = lpBalance[poolInfo[i].lpToken] - stakerInfo[i][u].amount + changed.amount
    /\ changed.amount = 0 => changed.RPamount = 0

\* What they settle, and what else they leave alone.
Settles(u, i) ==
  /\ paid' = paid + (Share(stakerInfo[i][u], UpToDate(poolInfo[i]).accesRADTPerShare)
                       - stakerInfo[i][u].rewardDebt)
  /\ stakes' = stakes + 1
  /\ Updatable(poolInfo[i])
  /\ UNCHANGED <<now, totalAllocPoint, esRADTPerSecond, emitted>>


\* The points compounded and the stake less its fee go to staker and pool alike.
LEMMA DepositStep ==
  ASSUME IInv, NEW u \in Users, NEW i \in Pids, NEW amount \in Deposits, Deposit(u, i, amount)
  PROVE  IInv' /\ Restaking(u, i) /\ Settles(u, i)
<1> DEFINE pool == UpToDate(poolInfo[i])
           lp == pool.lpToken
           user == stakerInfo[i][u]
           fee == amount \div FeeShare
           RPpending == Share(user, pool.accRPPerShare) - user.RPrewardDebt
           pending == Share(user, pool.accesRADTPerShare) - user.rewardDebt
           richer == [user EXCEPT !.amount = @ + amount - fee, !.RPamount = @ + RPpending]
           total == poolInfo[i].totalRP + RPpending
           balance == lpBalance[poolInfo[i].lpToken] + amount - fee
<1>1. /\ EscrowInv /\ Types /\ now \in Nat /\ amount \in Nat
      /\ Call /\ amount <= wallet[u][lp] /\ Updatable(poolInfo[i])
      /\ UNCHANGED <<totalAllocPoint, esRADTPerSecond, RPPerSecond, withdrawable, emitted>>
  BY EscrowIsTyped, RdLPStakingAssumption DEF Deposit, IInv
<1>2. /\ poolInfo[i] \in PoolInfo /\ poolInfo[i].lpToken \in LPTokens
      /\ poolInfo[i].totalRP \in Nat /\ lpBalance[poolInfo[i].lpToken] \in Nat
      /\ user \in StakerInfo /\ user.amount \in Nat /\ user.RPamount \in Nat
      /\ user.RPrewardDebt \in Nat
  BY <1>1, PoolsAreTyped
<1>3. pool.lpToken = poolInfo[i].lpToken /\ pool.totalRP = poolInfo[i].totalRP
      /\ pool.accRPPerShare \in Nat
  <2>1. pool \in PoolInfo /\ pool.lpToken = poolInfo[i].lpToken
        /\ pool.totalRP = poolInfo[i].totalRP
    BY <1>1, <1>2, UpToDateGrows
  <2> QED
    BY <2>1 DEF PoolInfo
<1>4. pending \in Nat /\ RPpending \in Nat
  BY <1>1, PendingIsNat
<1>5. fee \in Nat /\ fee <= amount
  <2>1. FeeShare \in Nat \ {0}
    BY RdLPStakingAssumption
  <2>2. fee \in Nat /\ FeeShare * fee <= amount
    BY <1>1, <2>1, Quotient
  <2> HIDE DEF fee
  <2>3. amount <= FeeShare * amount
    BY <1>1, <2>1
  <2>4. FeeShare * fee <= FeeShare * amount
    <3> DEFINE x == FeeShare * fee
               y == FeeShare * amount
    <3>1. x \in Nat /\ y \in Nat
      BY <1>1, <2>1, <2>2
    <3>2. x <= amount /\ amount <= y
      BY <2>2, <2>3
    <3> HIDE DEF x, y
    <3>3. x <= y
      BY <1>1, <3>1, <3>2
    <3> QED
      BY <3>3 DEF x, y
  <2> QED
    BY <1>1, <2>1, <2>2, <2>4, SmallerFactor
<1>6. /\ poolInfo' = [poolInfo EXCEPT ![i] = [pool EXCEPT !.totalRP = pool.totalRP + RPpending]]
      /\ stakerInfo' = [stakerInfo EXCEPT ![i][u] = Settled(richer, pool)]
      /\ lpBalance' = [lpBalance EXCEPT ![lp] = lpBalance[lp] + amount - fee]
      /\ wallet' = [wallet EXCEPT ![u][lp] = wallet[u][lp] - amount]
      /\ stakes' = stakes + 1
      /\ Pay(u, pending)
  BY DEF Deposit
<1>7. EscrowInv' /\ paid' = paid + pending /\ calls \in Nat /\ calls' \in Nat /\ calls' = calls + 1
  <2> HIDE DEF pending
  <2> QED
    BY <1>1, <1>4, <1>6, PayStep
<1>8. Restakes(u, i, richer, total, balance)
  <2> HIDE DEF fee, RPpending, richer
  <2> QED
    BY <1>3, <1>6 DEF Restakes
<1>9. /\ richer.amount = user.amount + amount - fee
      /\ richer.RPamount = user.RPamount + RPpending
      /\ richer \in StakerInfo
  <2> HIDE DEF fee, RPpending, user
  <2>1. user.amount + amount - fee \in Nat /\ user.RPamount + RPpending \in Nat
    BY <1>1, <1>2, <1>4, <1>5
  <2> QED
    BY <1>2, <2>1 DEF StakerInfo
<1>10. richer.amount = 0 => richer.RPamount = 0
  <2> SUFFICES ASSUME richer.amount = 0 PROVE richer.RPamount = 0
    OBVIOUS
  <2>1. user.amount = 0
    <3> HIDE DEF fee, RPpending, user, richer
    <3> QED
      BY <1>1, <1>2, <1>5, <1>9
  <2>2. user.RPamount = 0
    BY <1>2, <2>1 DEF IInv, PowerAddsUp
  <2>3. Share(user, pool.accRPPerShare) = 0
    BY <1>2, <1>3, <2>1, <2>2, NoShare
  <2>4. RPpending = 0
    <3>1. RPpending = 0 - user.RPrewardDebt
      BY <2>3
    <3> HIDE DEF RPpending, user
    <3> QED
      BY <1>2, <1>4, <3>1
  <2> HIDE DEF RPpending, user, richer
  <2> QED
    BY <1>9, <2>2, <2>4
<1> HIDE DEF fee, RPpending, richer, pending
<1>11. /\ total \in Nat /\ balance \in Nat
       /\ total = poolInfo[i].totalRP - user.RPamount + richer.RPamount
       /\ balance = lpBalance[poolInfo[i].lpToken] - user.amount + richer.amount
  <2> HIDE DEF user
  <2> QED
    BY <1>1, <1>2, <1>4, <1>5, <1>9
<1> HIDE DEF total, balance
<1>12. /\ poolInfo' \in Seq(PoolInfo) /\ Len(poolInfo') = Len(poolInfo)
       /\ stakerInfo' \in [PoolIds -> [Users -> StakerInfo]]
       /\ lpBalance' \in [LPTokens -> Nat]
       /\ AllSettled' /\ OnePoolPerToken' /\ UnusedPools' /\ PointsAddUp' /\ PowerAddsUp'
  BY <1>1, <1>8, <1>9, <1>10, <1>11, Restaked
<1>13. wallet' \in [Users -> [LPTokens -> Nat]]
  <2>1. wallet \in [Users -> [LPTokens -> Nat]] /\ lp \in LPTokens
    BY <1>1, <1>2, <1>3 DEF Types
  <2> HIDE DEF lp
  <2>2. wallet[u][lp] - amount \in Nat
    BY <1>1, <2>1
  <2> QED
    BY <1>6, <2>1, <2>2
<1>14. Types'
  <2>1. /\ paid' \in Nat /\ stakes' \in Nat /\ stakes' <= calls'
        /\ Len(poolInfo') <= MaxPools
    <3>1. paid \in Nat /\ stakes \in Nat /\ stakes <= calls /\ Len(poolInfo) <= MaxPools
      BY <1>1 DEF Types
    <3>2. stakes' = stakes + 1
      BY <1>6
    <3>3. Len(poolInfo') = Len(poolInfo)
      BY <1>12
    <3> QED
      BY <1>4, <1>7, <3>1, <3>2, <3>3
  <2>2. /\ totalAllocPoint' \in Nat /\ esRADTPerSecond' \in Nat /\ RPPerSecond' \in Nat
        /\ withdrawable' \in BOOLEAN /\ emitted' \in Nat
    BY <1>1 DEF Types
  <2> QED
    BY <1>12, <1>13, <2>1, <2>2 DEF Types
<1>15. Restaking(u, i)
  BY <1>8, <1>9, <1>10, <1>11 DEF Restaking
<1>16. Settles(u, i)
  BY <1>1, <1>6, <1>7 DEF Settles, Pay, pending
<1> QED
  BY <1>7, <1>12, <1>14, <1>15, <1>16 DEF IInv

\* The stake taken out, and the points given up, leave staker and pool alike.
LEMMA WithdrawStep ==
  ASSUME IInv, NEW u \in Users, NEW i \in Pids, NEW amount \in 0 .. stakerInfo[i][u].amount,
         Withdraw(u, i, amount)
  PROVE  IInv' /\ Restaking(u, i) /\ Settles(u, i)
<1> DEFINE pool == UpToDate(poolInfo[i])
           lp == pool.lpToken
           user == stakerInfo[i][u]
           givenUp == IF amount > 0 THEN user.RPamount ELSE 0
           pending == Share(user, pool.accesRADTPerShare) - user.rewardDebt
           poorer == [user EXCEPT !.amount = @ - amount, !.RPamount = @ - givenUp]
           total == poolInfo[i].totalRP - givenUp
           balance == lpBalance[poolInfo[i].lpToken] - amount
<1>1. /\ EscrowInv /\ Types /\ PowerAddsUp /\ now \in Nat
      /\ Call /\ amount <= user.amount /\ Updatable(poolInfo[i])
      /\ UNCHANGED <<totalAllocPoint, esRADTPerSecond, RPPerSecond, withdrawable, emitted>>
  BY EscrowIsTyped DEF Withdraw, IInv
<1>2. /\ poolInfo[i] \in PoolInfo /\ poolInfo[i].lpToken \in LPTokens
      /\ poolInfo[i].totalRP \in Nat /\ lpBalance[poolInfo[i].lpToken] \in Nat
      /\ user \in StakerInfo /\ user.amount \in Nat /\ user.RPamount \in Nat
  BY <1>1, PoolsAreTyped
<1>3. pool.lpToken = poolInfo[i].lpToken /\ pool.totalRP = poolInfo[i].totalRP
  BY <1>1, <1>2, UpToDateGrows
<1>4. pending \in Nat
  BY <1>1, PendingIsNat
<1>5. /\ user.RPamount <= poolInfo[i].totalRP /\ user.amount <= lpBalance[poolInfo[i].lpToken]
      /\ user.amount = 0 => user.RPamount = 0
  BY <1>1, <1>2, ColumnBounds DEF PowerAddsUp
<1>6. /\ poolInfo' = [poolInfo EXCEPT ![i] = [pool EXCEPT !.totalRP = pool.totalRP - givenUp]]
      /\ stakerInfo' = [stakerInfo EXCEPT ![i][u] = Settled(poorer, pool)]
      /\ lpBalance' = [lpBalance EXCEPT ![lp] = lpBalance[lp] - amount]
      /\ wallet' = [wallet EXCEPT ![u][lp] = wallet[u][lp] + amount]
      /\ stakes' = stakes + 1
      /\ Pay(u, pending)
  BY DEF Withdraw
<1>7. EscrowInv' /\ paid' = paid + pending /\ calls \in Nat /\ calls' \in Nat /\ calls' = calls + 1
  <2> HIDE DEF pending
  <2> QED
    BY <1>1, <1>4, <1>6, PayStep
<1>8. Restakes(u, i, poorer, total, balance)
  <2> HIDE DEF givenUp, poorer
  <2> QED
    BY <1>3, <1>6 DEF Restakes
<1>9. amount \in Nat /\ givenUp \in Nat /\ givenUp <= user.RPamount
      /\ (amount = 0 => givenUp = 0) /\ (amount # 0 => givenUp = user.RPamount)
  <2>1. amount \in Nat
    BY <1>2
  <2> HIDE DEF user
  <2> QED
    BY <1>2, <2>1
<1>10. /\ poorer.amount = user.amount - amount /\ poorer.RPamount = user.RPamount - givenUp
       /\ poorer \in StakerInfo
  <2> HIDE DEF givenUp, user
  <2>1. user.amount - amount \in Nat /\ user.RPamount - givenUp \in Nat
    BY <1>1, <1>2, <1>9
  <2> QED
    BY <1>2, <2>1 DEF StakerInfo
<1> HIDE DEF givenUp, poorer, pending
<1>11. poorer.amount = 0 => poorer.RPamount = 0
  <2> HIDE DEF user
  <2> QED
    BY <1>2, <1>5, <1>9, <1>10
<1>12. /\ total \in Nat /\ balance \in Nat
       /\ total = poolInfo[i].totalRP - user.RPamount + poorer.RPamount
       /\ balance = lpBalance[poolInfo[i].lpToken] - user.amount + poorer.amount
  <2> HIDE DEF user
  <2> QED
    BY <1>1, <1>2, <1>5, <1>9, <1>10
<1> HIDE DEF total, balance
<1>13. /\ poolInfo' \in Seq(PoolInfo) /\ Len(poolInfo') = Len(poolInfo)
       /\ stakerInfo' \in [PoolIds -> [Users -> StakerInfo]]
       /\ lpBalance' \in [LPTokens -> Nat]
       /\ AllSettled' /\ OnePoolPerToken' /\ UnusedPools' /\ PointsAddUp' /\ PowerAddsUp'
  BY <1>1, <1>8, <1>10, <1>11, <1>12, Restaked
<1>14. wallet' \in [Users -> [LPTokens -> Nat]]
  <2>1. wallet \in [Users -> [LPTokens -> Nat]] /\ lp \in LPTokens
    BY <1>1, <1>2, <1>3 DEF Types
  <2> HIDE DEF lp
  <2>2. wallet[u][lp] + amount \in Nat
    BY <1>9, <2>1
  <2> QED
    BY <1>6, <2>1, <2>2
<1>15. Types'
  <2>1. /\ paid' \in Nat /\ stakes' \in Nat /\ stakes' <= calls'
        /\ Len(poolInfo') <= MaxPools
    <3>1. paid \in Nat /\ stakes \in Nat /\ stakes <= calls /\ Len(poolInfo) <= MaxPools
      BY <1>1 DEF Types
    <3>2. stakes' = stakes + 1
      BY <1>6
    <3>3. Len(poolInfo') = Len(poolInfo)
      BY <1>13
    <3> QED
      BY <1>4, <1>7, <3>1, <3>2, <3>3
  <2>2. /\ totalAllocPoint' \in Nat /\ esRADTPerSecond' \in Nat /\ RPPerSecond' \in Nat
        /\ withdrawable' \in BOOLEAN /\ emitted' \in Nat
    BY <1>1 DEF Types
  <2> QED
    BY <1>13, <1>14, <2>1, <2>2 DEF Types
<1>16. Restaking(u, i)
  BY <1>8, <1>10, <1>11, <1>12 DEF Restaking
<1>17. Settles(u, i)
  BY <1>1, <1>6, <1>7 DEF Settles, Pay, pending
<1> QED
  BY <1>7, <1>13, <1>15, <1>16, <1>17 DEF IInv

-----------------------------------------------------------------------------
(* Rewards within emission.  The invariant keeps account of what the       *)
(* accumulators promise, what the rates funded, and what pools that are    *)
(* not up to date are still due; the products with PRECISION and with the  *)
(* total of points stand for the quotients the code rounds down.           *)

\* What the rewards of a pool are divided by.
Power(i) == lpBalance[poolInfo[i].lpToken] + poolInfo[i].totalRP

\* What the accumulators ever promised, times PRECISION.
Gross == [i \in Pids |-> Power(i) * poolInfo[i].accesRADTPerShare]

DebtsOf == [i \in Pids |-> SumOf([u \in Users |-> stakerInfo[i][u].rewardDebt])]

\* What a pool will get once it is brought up to date, times the total of points.
Due == [i \in Pids |-> Multiplier(poolInfo[i].lastRewardTime, now) * esRADTPerSecond
                         * poolInfo[i].allocPoint]

Promised == SumTo(Gross, Len(poolInfo)) + PRECISION * paid
Budget == PRECISION * (emitted + stakes + SumTo(DebtsOf, Len(poolInfo)))

Funded ==
  /\ Promised <= Budget
  /\ totalAllocPoint * Promised + PRECISION * SumTo(Due, Len(poolInfo)) <= totalAllocPoint * Budget

Timely == \A i \in Pids : poolInfo[i].lastRewardTime <= Later(now, startTime)

EInv == Funded /\ Timely

LEMMA TimeSince ==
  ASSUME NEW from \in Nat, NEW to \in Nat, from <= Later(to, startTime)
  PROVE  Multiplier(from, to) \in Nat
BY RdLPStakingAssumption DEF Multiplier, Later

\* Everything is a natural number.
LEMMA FundsAreNat ==
  ASSUME Types, now \in Nat, Timely
  PROVE  /\ Len(poolInfo) \in Nat /\ PRECISION \in Nat \ {0} /\ totalAllocPoint \in Nat
         /\ \A i \in Pids : /\ Power(i) \in Nat /\ Gross[i] \in Nat /\ DebtsOf[i] \in Nat
                            /\ Due[i] \in Nat
         /\ SumTo(Gross, Len(poolInfo)) \in Nat /\ SumTo(DebtsOf, Len(poolInfo)) \in Nat
         /\ SumTo(Due, Len(poolInfo)) \in Nat
         /\ Promised \in Nat /\ Budget \in Nat
<1>1. /\ Len(poolInfo) \in Nat /\ PRECISION \in Nat \ {0} /\ totalAllocPoint \in Nat
      /\ paid \in Nat /\ emitted \in Nat /\ stakes \in Nat /\ esRADTPerSecond \in Nat
      /\ Pids = 1 .. Len(poolInfo) /\ Len(poolInfo) \in 0 .. Len(poolInfo)
  <2>1. Len(poolInfo) \in Nat
    BY PoolsAreTyped
  <2> QED
    BY <2>1, RdLPStakingAssumption DEF Types, Pids
<1>2. \A i \in Pids : Power(i) \in Nat /\ Gross[i] \in Nat
  <2> SUFFICES ASSUME NEW i \in Pids PROVE Power(i) \in Nat /\ Gross[i] \in Nat
    OBVIOUS
  <2>1. /\ lpBalance[poolInfo[i].lpToken] \in Nat /\ poolInfo[i].totalRP \in Nat
        /\ poolInfo[i].accesRADTPerShare \in Nat
    BY PoolsAreTyped
  <2>2. Power(i) \in Nat
    BY <2>1 DEF Power
  <2>3. Power(i) * poolInfo[i].accesRADTPerShare \in Nat
    BY <2>1, <2>2
  <2> QED
    BY <2>2, <2>3 DEF Gross
<1>3. \A i \in Pids : DebtsOf[i] \in Nat
  <2> SUFFICES ASSUME NEW i \in Pids PROVE DebtsOf[i] \in Nat
    OBVIOUS
  <2> DEFINE debts == [u \in Users |-> stakerInfo[i][u].rewardDebt]
  <2>1. debts \in [Users -> Nat]
    BY PoolsAreTyped
  <2> HIDE DEF debts
  <2>2. SumOver(debts, EnumerationOf(Users)) \in Nat
    BY <2>1, AccountsAreFinite, SumOverAccounts
  <2> QED
    BY <2>2 DEF DebtsOf, SumOf, debts
<1>4. \A i \in Pids : Due[i] \in Nat
  <2> SUFFICES ASSUME NEW i \in Pids PROVE Due[i] \in Nat
    OBVIOUS
  <2> DEFINE m == Multiplier(poolInfo[i].lastRewardTime, now)
  <2>1. /\ poolInfo[i].lastRewardTime \in Nat /\ poolInfo[i].allocPoint \in Nat
        /\ poolInfo[i].lastRewardTime <= Later(now, startTime)
    BY PoolsAreTyped DEF Timely
  <2>2. m \in Nat
    BY <2>1, TimeSince
  <2> HIDE DEF m
  <2>3. m * esRADTPerSecond * poolInfo[i].allocPoint \in Nat
    BY <1>1, <2>1, <2>2
  <2> QED
    BY <2>3 DEF Due, m
<1>5. SumTo(Gross, Len(poolInfo)) \in Nat
  <2>1. \A m \in 0 .. Len(poolInfo) : SumTo(Gross, m) \in Nat
    BY <1>1, <1>2, SumToNat
  <2> QED
    BY <1>1, <2>1
<1>6. SumTo(DebtsOf, Len(poolInfo)) \in Nat
  <2>1. \A m \in 0 .. Len(poolInfo) : SumTo(DebtsOf, m) \in Nat
    BY <1>1, <1>3, SumToNat
  <2> QED
    BY <1>1, <2>1
<1>7. SumTo(Due, Len(poolInfo)) \in Nat
  <2>1. \A m \in 0 .. Len(poolInfo) : SumTo(Due, m) \in Nat
    BY <1>1, <1>4, SumToNat
  <2> QED
    BY <1>1, <2>1
<1>8. Promised \in Nat
  BY <1>1, <1>5 DEF Promised
<1>9. Budget \in Nat
  BY <1>1, <1>6 DEF Budget
<1> QED
  BY <1>1, <1>2, <1>3, <1>4, <1>5, <1>6, <1>7, <1>8, <1>9

\* Where each pool's promise grows by no more than it was due, the account
\* stays balanced.  With a total of no points nothing may be promised.
LEMMA FundsCarryOver ==
  ASSUME NEW n \in Nat, NEW t \in Nat, NEW p \in Nat \ {0}, NEW other \in Nat, NEW b \in Nat,
         NEW f, NEW g, NEW q, NEW r,
         \A i \in 1 .. n : /\ f[i] \in Nat /\ g[i] \in Nat /\ q[i] \in Nat /\ r[i] \in Nat
                           /\ t * g[i] + p * r[i] <= t * f[i] + p * q[i]
                           /\ t = 0 => g[i] <= f[i],
         SumTo(f, n) + other <= b,
         t * (SumTo(f, n) + other) + p * SumTo(q, n) <= t * b
  PROVE  /\ SumTo(g, n) + other <= b
         /\ t * (SumTo(g, n) + other) + p * SumTo(r, n) <= t * b
<1> DEFINE F == SumTo(f, n)
           G == SumTo(g, n)
           Q == SumTo(q, n)
           R == SumTo(r, n)
<1>1. F \in Nat /\ G \in Nat /\ Q \in Nat /\ R \in Nat
  <2>1. n \in 0 .. n
    OBVIOUS
  <2>2. (\A m \in 0 .. n : SumTo(f, m) \in Nat) /\ (\A m \in 0 .. n : SumTo(g, m) \in Nat)
    BY SumToNat
  <2>3. (\A m \in 0 .. n : SumTo(q, m) \in Nat) /\ (\A m \in 0 .. n : SumTo(r, m) \in Nat)
    BY SumToNat
  <2> QED
    BY <2>1, <2>2, <2>3
<1>2. t * G + p * R <= t * F + p * Q
  <2>1. p \in Nat
    OBVIOUS
  <2>2. \A i \in 1 .. n : /\ g[i] \in Nat /\ r[i] \in Nat /\ f[i] \in Nat /\ q[i] \in Nat
                          /\ t * g[i] + p * r[i] <= t * f[i] + p * q[i]
    OBVIOUS
  <2> QED
    BY <2>1, <2>2, SumToCombines
<1>3. t = 0 => G <= F
  <2> SUFFICES ASSUME t = 0 PROVE G <= F
    OBVIOUS
  <2>1. \A i \in 1 .. n : g[i] \in Nat /\ f[i] \in Nat /\ g[i] <= f[i]
    OBVIOUS
  <2> QED
    BY <2>1, SumsAreOrdered
<1>4. F + other <= b /\ t * (F + other) + p * Q <= t * b
  OBVIOUS
<1> HIDE DEF F, G, Q, R
<1>5. t * (F + other) = t * F + t * other /\ t * (G + other) = t * G + t * other
  BY <1>1
<1>6. /\ t * F \in Nat /\ t * G \in Nat /\ t * other \in Nat /\ t * b \in Nat
      /\ p * Q \in Nat /\ p * R \in Nat
  BY <1>1
<1>7. t * (G + other) + p * R <= t * b
  <2> DEFINE tF == t * F
             tG == t * G
             to == t * other
             tb == t * b
             pQ == p * Q
             pR == p * R
  <2>1. /\ tF \in Nat /\ tG \in Nat /\ to \in Nat /\ tb \in Nat /\ pQ \in Nat /\ pR \in Nat
        /\ tG + pR <= tF + pQ /\ tF + to + pQ <= tb
    BY <1>2, <1>4, <1>5, <1>6
  <2> HIDE DEF tF, tG, to, tb, pQ, pR
  <2>2. tG + to + pR <= tb
    BY <2>1
  <2> QED
    BY <1>5, <2>2 DEF tG, to, pR, tb
<1>8. G + other <= b
  <2>1. CASE t = 0
    BY <1>1, <1>3, <1>4, <2>1
  <2>2. CASE t # 0
    <3>1. t * (G + other) <= t * b
      <4> DEFINE x == t * (G + other)
                 y == t * b
                 z == p * R
      <4>1. x \in Nat /\ y \in Nat /\ z \in Nat /\ x + z <= y
        BY <1>1, <1>6, <1>7
      <4> HIDE DEF x, y, z
      <4>2. x <= y
        BY <4>1
      <4> QED
        BY <4>2 DEF x, y
    <3>2. G + other \in Int /\ b \in Int /\ t \in Nat \ {0}
      BY <1>1, <2>2
    <3> QED
      BY <3>1, <3>2, SmallerFactor
  <2> QED
    BY <2>1, <2>2
<1> QED
  BY <1>7, <1>8 DEF G, R

\* Bringing a pool up to date promises no more than what it was due.
LEMMA UpdateIsDue ==
  ASSUME Types, now \in Nat, NEW i \in Pids, Updatable(poolInfo[i]),
         poolInfo[i].lastRewardTime <= Later(now, startTime)
  PROVE  LET new == UpToDate(poolInfo[i])
         IN  /\ new.lastRewardTime <= Later(now, startTime)
             /\ Multiplier(new.lastRewardTime, now) = 0
             /\ new.accesRADTPerShare \in Nat
             /\ totalAllocPoint * (Power(i) * new.accesRADTPerShare)
                  <= totalAllocPoint * Gross[i] + PRECISION * Due[i]
             /\ totalAllocPoint = 0 => new.accesRADTPerShare = poolInfo[i].accesRADTPerShare
<1> DEFINE pool == poolInfo[i]
           new == UpToDate(pool)
           t == totalAllocPoint
           p == PRECISION
           w == Power(i)
           acc == pool.accesRADTPerShare
           due == Due[i]
           last == pool.lastRewardTime
<1>1. /\ pool \in PoolInfo /\ last \in Nat /\ acc \in Nat /\ pool.allocPoint \in Nat
      /\ lpBalance[pool.lpToken] \in Nat /\ pool.totalRP \in Nat
      /\ last <= Later(now, startTime) /\ startTime \in Nat
      /\ t \in Nat /\ p \in Nat \ {0} /\ esRADTPerSecond \in Nat
  BY PoolsAreTyped, RdLPStakingAssumption DEF Types
<1>2. w \in Nat /\ w = lpBalance[pool.lpToken] + pool.totalRP
  BY <1>1 DEF Power
<1>3. Gross[i] = w * acc
  BY DEF Gross
<1>4. due \in Nat /\ due = Multiplier(last, now) * esRADTPerSecond * pool.allocPoint
  <2> DEFINE m == Multiplier(last, now)
  <2>1. m \in Nat
    BY <1>1, TimeSince
  <2>2. due = m * esRADTPerSecond * pool.allocPoint
    BY DEF Due
  <2> HIDE DEF m, due
  <2>3. m * esRADTPerSecond * pool.allocPoint \in Nat
    BY <1>1, <2>1
  <2> QED
    BY <2>2, <2>3 DEF m
<1>5. CASE Earning(pool)
  <2> DEFINE a == PerShare(pool, PoolReward(pool, esRADTPerSecond))
             b == PerShare(pool, PoolReward(pool, RPPerSecond))
             reward == due \div t
             gain == reward * p
  <2>1. new = [pool EXCEPT !.accesRADTPerShare = @ + a, !.accRPPerShare = @ + b,
                           !.lastRewardTime = now]
    BY <1>5 DEF UpToDate
  <2>2. new.accesRADTPerShare = acc + a /\ new.lastRewardTime = now
    <3> HIDE DEF a, b
    <3> QED
      BY <1>1, <2>1 DEF PoolInfo
  <2>3. t \in Nat \ {0} /\ w \in Nat \ {0}
    BY <1>1, <1>2, <1>5 DEF Updatable, Earning
  <2>4. reward \in Nat /\ t * reward <= due
    <3> HIDE DEF t, due
    <3> QED
      BY <1>4, <2>3, Quotient
  <2>5. gain \in Nat
    <3> HIDE DEF reward, p
    <3> QED
      BY <1>1, <2>4
  <2>6. a = gain \div w
    BY <1>2, <1>4 DEF PerShare, PoolReward
  <2>7. a \in Nat /\ w * a <= gain
    <3> HIDE DEF a, w, gain
    <3> QED
      BY <2>3, <2>5, <2>6, Quotient
  <2>8. /\ now <= Later(now, startTime) /\ Multiplier(now, now) = 0
    BY <1>1 DEF Later, Multiplier
  <2> HIDE DEF a, b, reward
  <2>9. t * (w * (acc + a)) <= t * (w * acc) + p * due
    <3> HIDE DEF t, p, w, acc, due
    <3>1. t * (w * a) <= t * gain
      <4> DEFINE x == w * a
      <4>1. x \in Nat /\ x <= gain
        BY <2>3, <2>7
      <4> HIDE DEF x, gain
      <4>2. t * x <= t * gain
        BY <2>3, <2>5, <4>1
      <4> QED
        BY <4>2 DEF x
    <3>2. t * gain <= p * due
      <4> DEFINE x == t * reward
      <4>1. x \in Nat /\ x <= due
        BY <2>3, <2>4
      <4>2. t * gain = p * x
        BY <1>1, <2>3, <2>4
      <4> HIDE DEF x, gain
      <4>3. p * x <= p * due
        BY <1>1, <1>4, <4>1
      <4> QED
        BY <4>2, <4>3
    <3>3. t * (w * (acc + a)) = t * (w * acc) + t * (w * a)
      BY <1>1, <2>3, <2>7
    <3> DEFINE x == t * (w * a)
               y == t * gain
               z == p * due
               v == t * (w * acc)
    <3>4. x \in Nat /\ y \in Nat /\ z \in Nat /\ v \in Nat /\ x <= y /\ y <= z
      BY <1>1, <1>4, <2>3, <2>5, <2>7, <3>1, <3>2
    <3>5. t * (w * (acc + a)) = v + x
      BY <3>3
    <3> HIDE DEF x, y, z, v
    <3>6. v + x <= v + z
      BY <3>4
    <3> QED
      BY <3>5, <3>6 DEF v, z
  <2>10. acc + a \in Nat
    BY <1>1, <2>7
  <2> QED
    BY <1>3, <2>2, <2>3, <2>8, <2>9, <2>10
<1>6. CASE ~Earning(pool)
  <2>1. new = [pool EXCEPT !.lastRewardTime = Later(now, @)]
    BY <1>6 DEF UpToDate
  <2>2. new.accesRADTPerShare = acc /\ new.lastRewardTime = Later(now, last)
    BY <1>1, <2>1 DEF PoolInfo
  <2>3. Later(now, last) <= Later(now, startTime) /\ Multiplier(Later(now, last), now) = 0
    BY <1>1 DEF Later, Multiplier
  <2>4. t * (w * acc) <= t * Gross[i] + p * due
    <3>1. t * Gross[i] = t * (w * acc)
      BY <1>3
    <3> HIDE DEF t, p, w, acc, due
    <3>2. t * (w * acc) \in Nat /\ p * due \in Nat
      BY <1>1, <1>2, <1>4
    <3> DEFINE x == t * (w * acc)
               z == p * due
    <3>3. x \in Nat /\ z \in Nat /\ t * Gross[i] = x
      BY <3>1, <3>2
    <3> HIDE DEF x, z
    <3>4. x <= x + z
      BY <3>3
    <3> QED
      BY <3>3, <3>4 DEF x, z
  <2> QED
    BY <1>1, <2>2, <2>3, <2>4
<1> QED
  BY <1>5, <1>6

\* Bringing one pool up to date, in the account of all of them.
LEMMA FundsUpdated ==
  ASSUME Types, now \in Nat, EInv, NEW i \in Pids, Updatable(poolInfo[i])
  PROVE  LET x == Power(i) * UpToDate(poolInfo[i]).accesRADTPerShare
             other == PRECISION * paid
             g == [Gross EXCEPT ![i] = x]
             r == [Due EXCEPT ![i] = 0]
             n == Len(poolInfo)
         IN  /\ x \in Nat
             /\ SumTo(g, n) + other <= Budget
             /\ totalAllocPoint * (SumTo(g, n) + other) + PRECISION * SumTo(r, n)
                  <= totalAllocPoint * Budget
<1> DEFINE acc == UpToDate(poolInfo[i]).accesRADTPerShare
           x == Power(i) * acc
           other == PRECISION * paid
           g == [Gross EXCEPT ![i] = x]
           r == [Due EXCEPT ![i] = 0]
           n == Len(poolInfo)
           t == totalAllocPoint
<1>1. /\ n \in Nat /\ PRECISION \in Nat \ {0} /\ t \in Nat
      /\ \A j \in Pids : Power(j) \in Nat /\ Gross[j] \in Nat /\ Due[j] \in Nat
      /\ Budget \in Nat /\ Pids = 1 .. n
  BY FundsAreNat DEF EInv, Pids
<1>2. other \in Nat
  <2>1. paid \in Nat
    BY DEF Types
  <2> QED
    BY <1>1, <2>1
<1>3. /\ acc \in Nat
      /\ t * x <= t * Gross[i] + PRECISION * Due[i]
      /\ t = 0 => acc = poolInfo[i].accesRADTPerShare
  BY UpdateIsDue DEF EInv, Timely
<1>4. x \in Nat /\ (t = 0 => x = Gross[i])
  <2> DEFINE w == Power(i)
             old == poolInfo[i].accesRADTPerShare
  <2>1. Gross[i] = w * old /\ x = w * acc /\ w \in Nat /\ acc \in Nat
    BY <1>1, <1>3 DEF Gross
  <2>2. t = 0 => acc = old
    BY <1>3
  <2> HIDE DEF acc, x, w, old, t
  <2>3. w * acc \in Nat
    BY <2>1
  <2> QED
    BY <2>1, <2>2, <2>3
<1>5. /\ g[i] = x /\ r[i] = 0
      /\ \A j \in Pids : j # i => g[j] = Gross[j] /\ r[j] = Due[j]
  BY DEF Gross, Due
<1>6. /\ SumTo(Gross, n) + other <= Budget
      /\ t * (SumTo(Gross, n) + other) + PRECISION * SumTo(Due, n) <= t * Budget
  BY DEF EInv, Funded, Promised
<1> HIDE DEF x, other, g, r, n, t
<1>7. \A j \in 1 .. n : /\ Gross[j] \in Nat /\ g[j] \in Nat /\ Due[j] \in Nat /\ r[j] \in Nat
                        /\ t * g[j] + PRECISION * r[j] <= t * Gross[j] + PRECISION * Due[j]
                        /\ t = 0 => g[j] <= Gross[j]
  <2> SUFFICES ASSUME NEW j \in 1 .. n
               PROVE  /\ Gross[j] \in Nat /\ g[j] \in Nat /\ Due[j] \in Nat /\ r[j] \in Nat
                      /\ t * g[j] + PRECISION * r[j] <= t * Gross[j] + PRECISION * Due[j]
                      /\ t = 0 => g[j] <= Gross[j]
    OBVIOUS
  <2>1. CASE j = i
    <3>1. t * x + PRECISION * 0 = t * x
      BY <1>1, <1>4
    <3> QED
      BY <1>1, <1>3, <1>4, <1>5, <2>1, <3>1
  <2>2. CASE j # i
    <3>1. g[j] = Gross[j] /\ r[j] = Due[j] /\ Gross[j] \in Nat /\ Due[j] \in Nat
      BY <1>1, <1>5, <2>2
    <3> DEFINE gross == Gross[j]
               due == Due[j]
               sum == t * gross + PRECISION * due
    <3>2. gross \in Nat /\ due \in Nat /\ PRECISION \in Nat
      BY <1>1, <3>1
    <3>3. g[j] = gross /\ r[j] = due /\ Gross[j] = gross /\ Due[j] = due
      BY <3>1
    <3> HIDE DEF gross, due
    <3>4. sum \in Nat /\ gross <= gross
      BY <1>1, <3>2
    <3>5. t * g[j] + PRECISION * r[j] = sum /\ t * Gross[j] + PRECISION * Due[j] = sum
      BY <3>3
    <3> HIDE DEF sum
    <3>6. sum <= sum
      BY <3>4
    <3> QED
      BY <3>2, <3>3, <3>4, <3>5, <3>6
  <2> QED
    BY <2>1, <2>2
<1>8. /\ SumTo(g, n) + other <= Budget
      /\ t * (SumTo(g, n) + other) + PRECISION * SumTo(r, n) <= t * Budget
  BY <1>1, <1>2, <1>6, <1>7, FundsCarryOver
<1> QED
  BY <1>4, <1>8 DEF x, other, g, r, n, t

\* Once no pool is due anything, the points may be divided anew.
LEMMA NothingIsDue ==
  ASSUME NEW n \in Nat, NEW t \in Nat, NEW p \in Nat, NEW s \in Nat, NEW b \in Nat, NEW f,
         \A i \in 1 .. n : f[i] = 0, s <= b
  PROVE  t * s + p * SumTo(f, n) <= t * b
<1>1. SumTo(f, n) = 0
  BY SumOfNothing
<1>2. t * s \in Nat /\ t * s <= t * b
  OBVIOUS
<1>3. t * s + p * 0 = t * s
  BY <1>2
<1> QED
  BY <1>1, <1>2, <1>3

\* The account depends on these variables only.
LEMMA SameFunds ==
  ASSUME EInv, UNCHANGED <<now, poolInfo, totalAllocPoint, stakerInfo, esRADTPerSecond, lpBalance,
                           emitted, paid, stakes>>
  PROVE  EInv'
BY DEF EInv, Funded, Timely, Promised, Budget, Gross, DebtsOf, Due, Power, Pids, SumOf

\* After massUpdatePools no pool is due anything.
LEMMA AllUpdated ==
  ASSUME Types, now \in Nat, EInv, \A i \in Pids : Updatable(poolInfo[i])
  PROVE  LET g == [i \in Pids |-> Power(i) * MassUpdated[i].accesRADTPerShare]
         IN  /\ \A i \in Pids :
                  /\ MassUpdated[i].lastRewardTime <= Later(now, startTime)
                  /\ Multiplier(MassUpdated[i].lastRewardTime, now) = 0
                  /\ g[i] \in Nat
             /\ SumTo(g, Len(poolInfo)) + PRECISION * paid <= Budget
<1> DEFINE g == [i \in Pids |-> Power(i) * MassUpdated[i].accesRADTPerShare]
           r == [i \in Pids |-> 0]
           other == PRECISION * paid
           n == Len(poolInfo)
           t == totalAllocPoint
<1>1. /\ n \in Nat /\ PRECISION \in Nat \ {0} /\ t \in Nat
      /\ \A j \in Pids : Power(j) \in Nat /\ Gross[j] \in Nat /\ Due[j] \in Nat
      /\ Budget \in Nat /\ Pids = 1 .. n
  BY FundsAreNat DEF EInv, Pids
<1>2. other \in Nat
  <2>1. paid \in Nat
    BY DEF Types
  <2> QED
    BY <1>1, <2>1
<1>3. \A i \in Pids :
        /\ MassUpdated[i] = UpToDate(poolInfo[i])
        /\ MassUpdated[i].lastRewardTime <= Later(now, startTime)
        /\ Multiplier(MassUpdated[i].lastRewardTime, now) = 0
        /\ MassUpdated[i].accesRADTPerShare \in Nat
        /\ t * (Power(i) * MassUpdated[i].accesRADTPerShare) <= t * Gross[i] + PRECISION * Due[i]
        /\ t = 0 => MassUpdated[i].accesRADTPerShare = poolInfo[i].accesRADTPerShare
  <2> TAKE i \in Pids
  <2>1. MassUpdated[i] = UpToDate(poolInfo[i])
    BY DEF MassUpdated
  <2> QED
    BY <2>1, UpdateIsDue DEF EInv, Timely
<1>4. \A i \in Pids : g[i] \in Nat /\ t * g[i] <= t * Gross[i] + PRECISION * Due[i]
                      /\ (t = 0 => g[i] = Gross[i])
  <2> TAKE i \in Pids
  <2> DEFINE w == Power(i)
             acc == MassUpdated[i].accesRADTPerShare
             old == poolInfo[i].accesRADTPerShare
  <2>1. g[i] = w * acc /\ Gross[i] = w * old /\ w \in Nat /\ acc \in Nat
    BY <1>1, <1>3 DEF Gross
  <2>2. t = 0 => acc = old
    BY <1>3
  <2>3. t * (w * acc) <= t * Gross[i] + PRECISION * Due[i]
    BY <1>3
  <2> HIDE DEF g, w, acc, old, t
  <2>4. w * acc \in Nat
    BY <2>1
  <2> QED
    BY <2>1, <2>2, <2>3, <2>4
<1>5. /\ SumTo(Gross, n) + other <= Budget
      /\ t * (SumTo(Gross, n) + other) + PRECISION * SumTo(Due, n) <= t * Budget
  BY DEF EInv, Funded, Promised
<1>6. \A i \in Pids : r[i] = 0
  OBVIOUS
<1> HIDE DEF g, r, other, n, t
<1>7. \A j \in 1 .. n : /\ Gross[j] \in Nat /\ g[j] \in Nat /\ Due[j] \in Nat /\ r[j] \in Nat
                        /\ t * g[j] + PRECISION * r[j] <= t * Gross[j] + PRECISION * Due[j]
                        /\ t = 0 => g[j] <= Gross[j]
  <2> SUFFICES ASSUME NEW j \in 1 .. n
               PROVE  /\ Gross[j] \in Nat /\ g[j] \in Nat /\ Due[j] \in Nat /\ r[j] \in Nat
                      /\ t * g[j] + PRECISION * r[j] <= t * Gross[j] + PRECISION * Due[j]
                      /\ t = 0 => g[j] <= Gross[j]
    OBVIOUS
  <2>1. g[j] \in Nat /\ r[j] = 0 /\ PRECISION \in Nat /\ t \in Nat /\ Gross[j] \in Nat
        /\ t * g[j] <= t * Gross[j] + PRECISION * Due[j] /\ (t = 0 => g[j] = Gross[j])
    BY <1>1, <1>4, <1>6
  <2>2. t * g[j] + PRECISION * r[j] = t * g[j]
    <3>1. t * g[j] \in Nat
      BY <2>1
    <3> QED
      BY <2>1, <3>1
  <2>3. Due[j] \in Nat /\ r[j] \in Nat /\ (t = 0 => g[j] <= Gross[j])
    <3>1. Due[j] \in Nat /\ r[j] \in Nat
      BY <1>1, <1>6
    <3>2. ASSUME t = 0 PROVE g[j] <= Gross[j]
      BY <2>1, <3>2
    <3> QED
      BY <3>1, <3>2
  <2>4. t * g[j] + PRECISION * r[j] <= t * Gross[j] + PRECISION * Due[j]
    BY <2>1, <2>2
  <2> QED
    BY <2>1, <2>3, <2>4
<1>8. /\ SumTo(g, n) + other <= Budget
      /\ t * (SumTo(g, n) + other) + PRECISION * SumTo(r, n) <= t * Budget
  BY <1>1, <1>2, <1>5, <1>7, FundsCarryOver
<1> QED
  BY <1>3, <1>4, <1>8 DEF g, other, n, t

\* The clock: what the rate emits in the meantime is what the pools will be
\* due, each by its points.
LEMMA ClockFunds ==
  ASSUME IInv, EInv, Tick, emitted' = emitted + esRADTPerSecond * Multiplier(now, now'),
         UNCHANGED <<stakingState, paid, stakes>>
  PROVE  EInv'
<1> DEFINE n == Len(poolInfo)
           t == totalAllocPoint
           p == PRECISION
           rate == esRADTPerSecond
           m == Multiplier(now, now')
           k == rate * m
           points == [i \in Pids |-> poolInfo[i].allocPoint]
           due1 == [i \in Pids |-> Multiplier(poolInfo[i].lastRewardTime, now') * rate
                                     * poolInfo[i].allocPoint]
<1>1. /\ Types /\ Timely /\ now \in Nat /\ now' = now + 1 /\ now' \in Nat /\ startTime \in Nat
      /\ rate \in Nat
  <2>1. Types /\ Timely /\ now \in Nat /\ startTime \in Nat /\ now' = now + 1
    BY EscrowIsTyped, RdLPStakingAssumption DEF IInv, EInv, Tick
  <2> QED
    BY <2>1 DEF Types
<1>2. /\ n \in Nat /\ p \in Nat \ {0} /\ t \in Nat
      /\ \A i \in Pids : Due[i] \in Nat
      /\ SumTo(Due, n) \in Nat /\ SumTo(Gross, n) \in Nat /\ SumTo(DebtsOf, n) \in Nat
      /\ Promised \in Nat /\ Budget \in Nat /\ Pids = 1 .. n
  BY <1>1, FundsAreNat DEF Pids
<1>3. m \in Nat /\ k \in Nat
  <2>1. m \in Nat
    BY <1>1, MultiplierIsNat
  <2> HIDE DEF m
  <2> QED
    BY <1>1, <2>1
<1>4. Timely'
  <2>1. \A i \in Pids : poolInfo[i].lastRewardTime \in Nat
                        /\ poolInfo[i].lastRewardTime <= Later(now, startTime)
    BY <1>1, PoolsAreTyped DEF Timely
  <2>2. Later(now, startTime) <= Later(now', startTime)
        /\ Later(now, startTime) \in Nat /\ Later(now', startTime) \in Nat
    BY <1>1 DEF Later
  <2>3. \A i \in Pids : poolInfo[i].lastRewardTime <= Later(now', startTime)
    BY <2>1, <2>2
  <2> QED
    BY <2>3 DEF Timely, Pids, stakingState, Later
<1>5. \A i \in Pids : /\ due1[i] \in Nat /\ points[i] \in Nat
                      /\ due1[i] <= Due[i] + k * points[i]
  <2> TAKE i \in Pids
  <2> DEFINE last == poolInfo[i].lastRewardTime
             a == Multiplier(last, now)
             b == Multiplier(last, now')
             q == poolInfo[i].allocPoint
  <2>1. last \in Nat /\ q \in Nat /\ last <= Later(now, startTime)
    BY <1>1, PoolsAreTyped DEF Timely
  <2>2. a \in Nat /\ b \in Nat /\ b <= a + m
    <3> HIDE DEF last
    <3> QED
      BY <1>1, <2>1 DEF Multiplier, Later
  <2>3. due1[i] = b * rate * q /\ Due[i] = a * rate * q /\ points[i] = q
    BY DEF Due
  <2> HIDE DEF a, b, q, rate, m, due1, points
  <2>4. b * (rate * q) <= (a + m) * (rate * q)
    <3> DEFINE z == rate * q
    <3>1. z \in Nat /\ a + m \in Nat
      BY <1>1, <1>3, <2>1, <2>2
    <3> HIDE DEF z
    <3>2. b * z <= (a + m) * z
      BY <1>3, <2>2, <3>1
    <3> QED
      BY <3>2 DEF z
  <2>5. (a + m) * (rate * q) = a * rate * q + (rate * m) * q /\ b * (rate * q) = b * rate * q
    BY <1>1, <1>3, <2>1, <2>2
  <2>6. b * rate * q \in Nat
    BY <1>1, <2>1, <2>2
  <2> QED
    BY <2>1, <2>3, <2>4, <2>5, <2>6
<1>6. t = SumTo(points, n)
  BY DEF IInv, PointsAddUp
<1>7. SumTo(due1, n) \in Nat /\ SumTo(due1, n) <= SumTo(Due, n) + k * t
  <2> HIDE DEF due1, points, k, n
  <2>1. \A i \in 1 .. n : /\ due1[i] \in Nat /\ points[i] \in Nat /\ Due[i] \in Nat
                          /\ 1 * due1[i] + 0 * due1[i] <= 1 * Due[i] + k * points[i]
    BY <1>2, <1>3, <1>5
  <2>2. 1 * SumTo(due1, n) + 0 * SumTo(due1, n) <= 1 * SumTo(Due, n) + k * SumTo(points, n)
    BY <1>2, <1>3, <2>1, SumToCombines
  <2>3. SumTo(due1, n) \in Nat
    <3>1. \A j \in 0 .. n : SumTo(due1, j) \in Nat
      BY <1>2, <2>1, SumToNat
    <3> QED
      BY <1>2, <3>1
  <2> QED
    BY <1>2, <1>3, <1>6, <2>2, <2>3
<1>8. /\ UNCHANGED <<poolInfo, totalAllocPoint, stakerInfo, rate, lpBalance, paid, stakes>>
      /\ emitted' = emitted + k
  BY DEF stakingState
<1>9. Promised' = Promised /\ Budget' = Budget + p * k /\ Due' = due1
  <2>1. Promised' = Promised
    BY <1>8 DEF Promised, Gross, Power, Pids
  <2>2. SumTo(DebtsOf, Len(poolInfo))' = SumTo(DebtsOf, Len(poolInfo))
    BY <1>8 DEF DebtsOf, SumOf, Pids
  <2>3. Budget' = p * (emitted + k + stakes + SumTo(DebtsOf, n))
    BY <1>8, <2>2 DEF Budget
  <2>4. emitted \in Nat /\ stakes \in Nat
    BY <1>1 DEF Types
  <2>5. Budget = p * (emitted + stakes + SumTo(DebtsOf, n))
    BY DEF Budget
  <2>6. Due' = due1
    BY <1>8 DEF Due, Pids
  <2> DEFINE debts == SumTo(DebtsOf, n)
  <2>7. debts \in Nat
    BY <1>2
  <2>8. Budget' = p * (emitted + k + stakes + debts) /\ Budget = p * (emitted + stakes + debts)
    BY <2>3, <2>5
  <2> HIDE DEF k, p, debts
  <2>9. p * (emitted + k + stakes + debts) = p * (emitted + stakes + debts) + p * k
    BY <1>2, <1>3, <2>4, <2>7
  <2> QED
    BY <2>1, <2>6, <2>8, <2>9
<1>10. Funded'
  <2> DEFINE s == Promised
             b == Budget
             d == SumTo(Due, n)
             d1 == SumTo(due1, n)
  <2>1. /\ s \in Nat /\ b \in Nat /\ d \in Nat /\ d1 \in Nat /\ d1 <= d + k * t
        /\ s <= b /\ t * s + p * d <= t * b
    BY <1>2, <1>7 DEF EInv, Funded
  <2>2. s <= b + p * k /\ t * s + p * d1 <= t * (b + p * k)
    <3> HIDE DEF s, b, d, d1, k, p, t
    <3>1. p * k \in Nat
      BY <1>2, <1>3
    <3>2. p * d1 <= p * (d + k * t)
      <4> DEFINE e == d + k * t
      <4>1. e \in Nat /\ d1 <= e
        BY <1>2, <1>3, <2>1
      <4> HIDE DEF e
      <4>2. p * d1 <= p * e
        BY <1>2, <2>1, <4>1
      <4> QED
        BY <4>2 DEF e
    <3>3. p * (d + k * t) = p * d + t * (p * k) /\ t * (b + p * k) = t * b + t * (p * k)
      BY <1>2, <1>3, <2>1
    <3> DEFINE x == t * s
               y == p * d1
               z == p * d
               v == t * (p * k)
               w == t * b
    <3>4. /\ x \in Nat /\ y \in Nat /\ z \in Nat /\ v \in Nat /\ w \in Nat
          /\ y <= z + v /\ x + z <= w
      BY <1>2, <1>3, <2>1, <3>2, <3>3
    <3>5. t * (b + p * k) = w + v
      BY <3>3
    <3> HIDE DEF x, y, z, v, w
    <3>6. x + y <= w + v
      BY <3>4
    <3> QED
      BY <2>1, <3>1, <3>5, <3>6 DEF x, y
  <2>3. /\ Promised' = s /\ Budget' = b + p * k /\ SumTo(Due, Len(poolInfo))' = d1
        /\ totalAllocPoint' = t
    BY <1>8, <1>9
  <2> HIDE DEF s, b, d, d1, k
  <2>4. s <= b + p * k /\ t * s + PRECISION * d1 <= t * (b + p * k)
    BY <2>2
  <2>5. Promised' <= Budget'
        /\ totalAllocPoint' * Promised' + PRECISION * SumTo(Due, Len(poolInfo))'
             <= totalAllocPoint' * Budget'
    BY <2>3, <2>4
  <2> QED
    BY <2>5 DEF Funded
<1> QED
  BY <1>4, <1>10 DEF EInv

\* A new setting: every pool was brought up to date first, so that no pool is
\* due anything at the old rate or points.
LEMMA SettingFunds ==
  ASSUME Types, now \in Nat, EInv, \A i \in Pids : Updatable(poolInfo[i]),
         Len(poolInfo') = Len(poolInfo),
         \A i \in Pids :
           /\ poolInfo'[i].lpToken = poolInfo[i].lpToken
           /\ poolInfo'[i].totalRP = poolInfo[i].totalRP
           /\ poolInfo'[i].allocPoint \in Nat
           /\ poolInfo'[i].accesRADTPerShare = MassUpdated[i].accesRADTPerShare
           /\ poolInfo'[i].lastRewardTime = MassUpdated[i].lastRewardTime,
         UNCHANGED <<now, stakerInfo, lpBalance, emitted, paid, stakes>>,
         totalAllocPoint' \in Nat, esRADTPerSecond' \in Nat
  PROVE  EInv'
<1> DEFINE n == Len(poolInfo)
           g == [i \in Pids |-> Power(i) * MassUpdated[i].accesRADTPerShare]
           s == SumTo(g, n) + PRECISION * paid
           due1 == Due'
           t1 == totalAllocPoint'
<1>1. /\ \A i \in Pids :
           /\ MassUpdated[i].lastRewardTime <= Later(now, startTime)
           /\ Multiplier(MassUpdated[i].lastRewardTime, now) = 0
           /\ g[i] \in Nat
      /\ s <= Budget
  BY AllUpdated
<1>2. /\ n \in Nat /\ PRECISION \in Nat /\ Budget \in Nat /\ Pids' = Pids /\ Pids = 1 .. n
      /\ paid \in Nat
  <2>1. n \in Nat /\ PRECISION \in Nat /\ Budget \in Nat
    BY FundsAreNat DEF EInv
  <2> QED
    BY <2>1 DEF Types, Pids
<1>3. s \in Nat
  <2> HIDE DEF g, n
  <2>1. \A m \in 0 .. n : SumTo(g, m) \in Nat
    BY <1>1, <1>2, SumToNat
  <2>2. SumTo(g, n) \in Nat
    BY <1>2, <2>1
  <2> QED
    BY <1>2, <2>2
<1>4. Timely'
  <2>1. \A i \in Pids : poolInfo'[i].lastRewardTime <= Later(now, startTime)
    BY <1>1
  <2> QED
    BY <1>2, <2>1 DEF Timely, Later
<1>5. Promised' = s /\ Budget' = Budget
  <2>1. Gross' = g
    BY <1>2 DEF Gross, Power
  <2>2. DebtsOf' = DebtsOf
    BY <1>2 DEF DebtsOf, SumOf
  <2> QED
    BY <2>1, <2>2 DEF Promised, Budget
<1>6. \A i \in 1 .. n : due1[i] = 0
  <2> SUFFICES ASSUME NEW i \in Pids PROVE due1[i] = 0
    BY <1>2
  <2> DEFINE rate1 == esRADTPerSecond'
             q1 == poolInfo'[i].allocPoint
  <2>1. due1[i] = Multiplier(MassUpdated[i].lastRewardTime, now) * rate1 * q1
    BY <1>2 DEF Due, Multiplier, Later
  <2>2. due1[i] = 0 * rate1 * q1 /\ rate1 \in Nat /\ q1 \in Nat
    BY <1>1, <2>1
  <2> HIDE DEF due1, rate1, q1
  <2> QED
    BY <2>2
<1> HIDE DEF s, due1, t1
<1>7. t1 * s + PRECISION * SumTo(due1, n) <= t1 * Budget
  <2>1. t1 \in Nat /\ s <= Budget
    BY <1>1 DEF t1
  <2> QED
    BY <1>2, <1>3, <1>6, <2>1, NothingIsDue
<1>8. Funded'
  <2>1. SumTo(Due, Len(poolInfo))' = SumTo(due1, n)
    BY DEF due1
  <2> QED
    BY <1>1, <1>5, <1>7, <2>1 DEF Funded, t1
<1> QED
  BY <1>4, <1>8 DEF EInv

LEMMA SetRatesFunds ==
  ASSUME IInv, EInv, NEW rate \in Rates, NEW rpRate \in Rates, SetRates(rate, rpRate)
  PROVE  EInv'
<1>1. /\ Types /\ now \in Nat /\ \A i \in Pids : Updatable(poolInfo[i])
      /\ rate \in Nat /\ totalAllocPoint \in Nat
  <2>1. Types /\ now \in Nat /\ rate \in Nat
    BY EscrowIsTyped, RdLPStakingAssumption DEF IInv
  <2> QED
    BY <2>1 DEF SetRates, Types
<1>2. /\ UNCHANGED <<now, totalAllocPoint, stakerInfo, lpBalance, emitted, paid, stakes>>
      /\ poolInfo' = MassUpdated /\ esRADTPerSecond' = rate
  BY DEF SetRates
<1>3. /\ Len(MassUpdated) = Len(poolInfo)
      /\ \A i \in Pids : /\ MassUpdated[i].lpToken = poolInfo[i].lpToken
                         /\ MassUpdated[i].totalRP = poolInfo[i].totalRP
                         /\ MassUpdated[i].allocPoint = poolInfo[i].allocPoint
                         /\ poolInfo[i].allocPoint \in Nat
  BY <1>1, MassUpdatedGrows, PoolsAreTyped
<1>4. /\ Len(poolInfo') = Len(poolInfo)
      /\ \A i \in Pids :
           /\ poolInfo'[i].lpToken = poolInfo[i].lpToken
           /\ poolInfo'[i].totalRP = poolInfo[i].totalRP
           /\ poolInfo'[i].allocPoint \in Nat
           /\ poolInfo'[i].accesRADTPerShare = MassUpdated[i].accesRADTPerShare
           /\ poolInfo'[i].lastRewardTime = MassUpdated[i].lastRewardTime
  <2> DEFINE mass == MassUpdated
  <2> HIDE DEF mass
  <2>1. poolInfo' = mass
    BY <1>2 DEF mass
  <2>2. /\ Len(mass) = Len(poolInfo)
        /\ \A i \in Pids : /\ mass[i].lpToken = poolInfo[i].lpToken
                           /\ mass[i].totalRP = poolInfo[i].totalRP
                           /\ mass[i].allocPoint \in Nat
    BY <1>3 DEF mass
  <2>3. \A i \in Pids : /\ mass[i].accesRADTPerShare = MassUpdated[i].accesRADTPerShare
                        /\ mass[i].lastRewardTime = MassUpdated[i].lastRewardTime
    BY DEF mass
  <2> QED
    BY <2>1, <2>2, <2>3
<1>5. totalAllocPoint' \in Nat /\ esRADTPerSecond' \in Nat
      /\ UNCHANGED <<now, stakerInfo, lpBalance, emitted, paid, stakes>>
  BY <1>1, <1>2
<1> QED
  BY <1>1, <1>4, <1>5, SettingFunds

LEMMA SetAllocPointFunds ==
  ASSUME IInv, EInv, NEW i \in Pids, NEW allocPoint \in AllocPoints, SetAllocPoint(i, allocPoint)
  PROVE  EInv'
<1>1. /\ Types /\ now \in Nat /\ allocPoint \in Nat /\ esRADTPerSecond \in Nat
      /\ \A j \in Pids : Updatable(poolInfo[j])
  <2>1. Types /\ now \in Nat /\ allocPoint \in Nat
    BY EscrowIsTyped, RdLPStakingAssumption DEF IInv
  <2> QED
    BY <2>1 DEF SetAllocPoint, Types
<1>2. /\ UNCHANGED <<now, stakerInfo, esRADTPerSecond, lpBalance, emitted, paid, stakes>>
      /\ poolInfo' = [MassUpdated EXCEPT ![i].allocPoint = allocPoint]
  BY DEF SetAllocPoint
<1>3. totalAllocPoint' \in Nat
  BY SetAllocPointStep DEF IInv, Types
<1>4. /\ MassUpdated \in Seq(PoolInfo) /\ Len(MassUpdated) = Len(poolInfo)
      /\ \A j \in Pids : /\ MassUpdated[j] \in PoolInfo
                         /\ MassUpdated[j].lpToken = poolInfo[j].lpToken
                         /\ MassUpdated[j].totalRP = poolInfo[j].totalRP
                         /\ MassUpdated[j].allocPoint = poolInfo[j].allocPoint
                         /\ poolInfo[j].allocPoint \in Nat
  BY <1>1, MassUpdatedGrows, PoolsAreTyped
<1>5. /\ Len(poolInfo') = Len(poolInfo)
      /\ \A j \in Pids :
           /\ poolInfo'[j].lpToken = poolInfo[j].lpToken
           /\ poolInfo'[j].totalRP = poolInfo[j].totalRP
           /\ poolInfo'[j].allocPoint \in Nat
           /\ poolInfo'[j].accesRADTPerShare = MassUpdated[j].accesRADTPerShare
           /\ poolInfo'[j].lastRewardTime = MassUpdated[j].lastRewardTime
  <2> DEFINE mass == MassUpdated
             new == [mass[i] EXCEPT !.allocPoint = allocPoint]
  <2>1. poolInfo' = [mass EXCEPT ![i] = new]
    BY <1>2
  <2>2. mass \in Seq(PoolInfo) /\ Len(mass) = Len(poolInfo) /\ i \in 1 .. Len(mass)
        /\ mass[i] \in PoolInfo
    BY <1>4 DEF Pids
  <2>3. \A j \in Pids : /\ mass[j].lpToken = poolInfo[j].lpToken
                        /\ mass[j].totalRP = poolInfo[j].totalRP
                        /\ mass[j].allocPoint \in Nat
                        /\ mass[j].accesRADTPerShare = MassUpdated[j].accesRADTPerShare
                        /\ mass[j].lastRewardTime = MassUpdated[j].lastRewardTime
    BY <1>4
  <2> HIDE DEF mass
  <2>4. /\ new.lpToken = mass[i].lpToken /\ new.totalRP = mass[i].totalRP
        /\ new.allocPoint = allocPoint
        /\ new.accesRADTPerShare = mass[i].accesRADTPerShare
        /\ new.lastRewardTime = mass[i].lastRewardTime
    BY <2>2 DEF PoolInfo
  <2> HIDE DEF new
  <2>5. /\ Len(poolInfo') = Len(mass)
        /\ \A j \in Pids : poolInfo'[j] = IF j = i THEN new ELSE mass[j]
    BY <2>1, <2>2 DEF Pids
  <2>6. \A j \in Pids :
           /\ poolInfo'[j].lpToken = mass[j].lpToken
           /\ poolInfo'[j].totalRP = mass[j].totalRP
           /\ poolInfo'[j].allocPoint \in Nat
           /\ poolInfo'[j].accesRADTPerShare = mass[j].accesRADTPerShare
           /\ poolInfo'[j].lastRewardTime = mass[j].lastRewardTime
    BY <1>1, <2>3, <2>4, <2>5
  <2> QED
    BY <2>2, <2>3, <2>5, <2>6
<1>6. esRADTPerSecond' \in Nat /\ UNCHANGED <<now, stakerInfo, lpBalance, emitted, paid, stakes>>
  BY <1>1, <1>2
<1> QED
  BY <1>1, <1>3, <1>5, <1>6, SettingFunds

\* A new pool promises nothing and is due nothing yet.
LEMMA AddFunds ==
  ASSUME IInv, EInv, NEW allocPoint \in AllocPoints, NEW lp \in LPTokens, Add(allocPoint, lp)
  PROVE  EInv'
<1> DEFINE n == Len(poolInfo)
           new == [lpToken |-> lp, totalRP |-> 0, allocPoint |-> allocPoint,
                   lastRewardTime |-> Later(now, startTime),
                   accesRADTPerShare |-> 0, accRPPerShare |-> 0]
           g == [i \in Pids |-> Power(i) * MassUpdated[i].accesRADTPerShare]
           g1 == Gross'
           debts1 == DebtsOf'
           due1 == Due'
           t1 == totalAllocPoint'
           s == SumTo(g, n) + PRECISION * paid
<1>1. /\ Types /\ now \in Nat /\ allocPoint \in Nat /\ startTime \in Nat
      /\ esRADTPerSecond \in Nat /\ paid \in Nat /\ totalAllocPoint \in Nat
      /\ n < MaxPools /\ MaxPools \in Nat
      /\ \A j \in Pids : Updatable(poolInfo[j])
  <2>1. Types /\ now \in Nat /\ allocPoint \in Nat /\ startTime \in Nat /\ MaxPools \in Nat
    BY EscrowIsTyped, RdLPStakingAssumption DEF IInv
  <2> QED
    BY <2>1 DEF Add, Types
<1>2. /\ UNCHANGED <<now, stakerInfo, esRADTPerSecond, lpBalance, emitted, paid, stakes>>
      /\ poolInfo' = Append(MassUpdated, new)
      /\ totalAllocPoint' = totalAllocPoint + allocPoint
  BY DEF Add, escrowVars
<1>3. /\ n \in Nat /\ PRECISION \in Nat /\ Budget \in Nat /\ Pids = 1 .. n
      /\ \A i \in Pids : DebtsOf[i] \in Nat
  BY <1>1, FundsAreNat DEF EInv, Pids
<1>4. /\ \A i \in Pids :
           /\ MassUpdated[i].lastRewardTime <= Later(now, startTime)
           /\ Multiplier(MassUpdated[i].lastRewardTime, now) = 0
           /\ g[i] \in Nat
      /\ s <= Budget
  BY <1>1, AllUpdated
<1>5. /\ MassUpdated \in Seq(PoolInfo) /\ Len(MassUpdated) = n
      /\ \A j \in Pids : /\ MassUpdated[j] \in PoolInfo
                         /\ MassUpdated[j].lpToken = poolInfo[j].lpToken
                         /\ MassUpdated[j].totalRP = poolInfo[j].totalRP
                         /\ MassUpdated[j].allocPoint \in Nat
  <2>1. \A j \in Pids : poolInfo[j].allocPoint \in Nat
    BY <1>1, PoolsAreTyped
  <2> QED
    BY <1>1, <2>1, MassUpdatedGrows
<1>6. /\ new.lpToken = lp /\ new.totalRP = 0 /\ new.allocPoint = allocPoint
      /\ new.accesRADTPerShare = 0 /\ new.lastRewardTime = Later(now, startTime)
  OBVIOUS
<1> HIDE DEF new
<1>7. /\ Len(poolInfo') = n + 1
      /\ \A j \in Pids : poolInfo'[j] = MassUpdated[j]
      /\ poolInfo'[n + 1] = new
  <2> DEFINE mass == MassUpdated
  <2>1. mass \in Seq(PoolInfo) /\ Len(mass) = n /\ poolInfo' = Append(mass, new)
    BY <1>2, <1>5
  <2> HIDE DEF mass
  <2>2. /\ Len(poolInfo') = n + 1
        /\ \A j \in 1 .. n : poolInfo'[j] = mass[j]
        /\ poolInfo'[n + 1] = new
    BY <1>3, <2>1
  <2> QED
    BY <1>3, <2>2 DEF mass
<1>8. /\ Pids' = 1 .. n + 1 /\ Pids' = Pids \cup {n + 1} /\ n + 1 \notin Pids
      /\ n + 1 \in PoolIds
  BY <1>1, <1>3, <1>7 DEF Pids, PoolIds
<1>9. Later(now, startTime) \in Nat /\ Multiplier(Later(now, startTime), now) = 0
  BY <1>1 DEF Later, Multiplier
<1>10. Timely'
  <2>1. \A j \in Pids' : poolInfo'[j].lastRewardTime <= Later(now, startTime)
    <3> TAKE j \in Pids'
    <3>1. CASE j \in Pids
      BY <1>4, <1>7, <3>1
    <3>2. CASE j = n + 1
      BY <1>6, <1>7, <1>9, <3>2
    <3> QED
      BY <1>8, <3>1, <3>2
  <2> QED
    BY <1>2, <2>1 DEF Timely, Later
<1>11. /\ \A i \in Pids : g1[i] = g[i]
       /\ g1[n + 1] = 0
  <2>1. \A j \in Pids' : g1[j] = (lpBalance[poolInfo'[j].lpToken] + poolInfo'[j].totalRP)
                                    * poolInfo'[j].accesRADTPerShare
    BY <1>2 DEF Gross, Power
  <2>2. \A i \in Pids : g1[i] = g[i]
    BY <1>5, <1>7, <1>8, <2>1 DEF Power
  <2>3. g1[n + 1] = 0
    <3>1. lpBalance[lp] \in Nat
      BY <1>1 DEF Types
    <3>2. g1[n + 1] = (lpBalance[lp] + 0) * 0
      BY <1>6, <1>7, <1>8, <2>1
    <3> HIDE DEF g1
    <3> QED
      BY <3>1, <3>2
  <2> QED
    BY <2>2, <2>3
<1>12. /\ \A i \in Pids : debts1[i] = DebtsOf[i]
       /\ debts1[n + 1] = 0
  <2>1. \A j \in Pids' : debts1[j] = SumOf([u \in Users |-> stakerInfo[j][u].rewardDebt])
    BY <1>2 DEF DebtsOf, SumOf
  <2>2. \A i \in Pids : debts1[i] = DebtsOf[i]
    BY <1>8, <2>1 DEF DebtsOf
  <2>3. debts1[n + 1] = 0
    <3> DEFINE f == [u \in Users |-> stakerInfo[n + 1][u].rewardDebt]
    <3>1. \A u \in Users : f[u] = 0
      BY <1>8 DEF IInv, UnusedPools
    <3>2. f \in [Users -> Nat]
      BY <3>1
    <3> HIDE DEF f
    <3>3. SumOver(f, EnumerationOf(Users)) = 0
      BY <3>1, <3>2, AccountsAreFinite, SumOverAccounts
    <3> QED
      BY <1>8, <2>1, <3>3 DEF SumOf, f
  <2> QED
    BY <2>2, <2>3
<1>13. SumTo(g1, n + 1) = SumTo(g, n) /\ SumTo(g, n) \in Nat
  <2> HIDE DEF g, g1, n
  <2>1. \A i \in 1 .. n : g[i] \in Nat /\ g[i] = g1[i]
    BY <1>3, <1>4, <1>11
  <2>2. SumTo(g, n) = SumTo(g1, n)
    BY <1>3, <2>1, SumToAgrees
  <2>3. SumTo(g1, n + 1) = SumTo(g1, n) + g1[n + 1]
    BY <1>3, SumToUnfolds
  <2>4. \A m \in 0 .. n : SumTo(g, m) \in Nat
    BY <1>3, <2>1, SumToNat
  <2>5. SumTo(g, n) \in Nat
    BY <1>3, <2>4
  <2> QED
    BY <1>11, <2>2, <2>3, <2>5
<1>14. SumTo(debts1, n + 1) = SumTo(DebtsOf, n)
  <2> HIDE DEF debts1, n
  <2>1. \A i \in 1 .. n : DebtsOf[i] \in Nat /\ DebtsOf[i] = debts1[i]
    BY <1>3, <1>12
  <2>2. SumTo(DebtsOf, n) = SumTo(debts1, n)
    BY <1>3, <2>1, SumToAgrees
  <2>3. SumTo(debts1, n + 1) = SumTo(debts1, n) + debts1[n + 1]
    BY <1>3, SumToUnfolds
  <2>4. \A m \in 0 .. n : SumTo(DebtsOf, m) \in Nat
    BY <1>3, <2>1, SumToNat
  <2>5. SumTo(DebtsOf, n) \in Nat
    BY <1>3, <2>4
  <2> QED
    BY <1>12, <2>2, <2>3, <2>5
<1>15. Promised' = s /\ Budget' = Budget /\ s \in Nat
  <2>1. Promised' = SumTo(g1, n + 1) + PRECISION * paid
    BY <1>2, <1>7 DEF Promised
  <2>2. Budget' = PRECISION * (emitted + stakes + SumTo(debts1, n + 1))
    BY <1>2, <1>7 DEF Budget
  <2>3. Budget = PRECISION * (emitted + stakes + SumTo(DebtsOf, n))
    BY DEF Budget
  <2> HIDE DEF g, g1, debts1, n
  <2> QED
    BY <1>1, <1>3, <1>13, <1>14, <2>1, <2>2, <2>3
<1>16. \A j \in 1 .. n + 1 : due1[j] = 0
  <2> SUFFICES ASSUME NEW j \in Pids' PROVE due1[j] = 0
    BY <1>8
  <2> DEFINE q1 == poolInfo'[j].allocPoint
             m1 == Multiplier(poolInfo'[j].lastRewardTime, now)
  <2>1. due1[j] = m1 * esRADTPerSecond * q1
    BY <1>2 DEF Due, Multiplier, Later
  <2>2. m1 = 0 /\ q1 \in Nat
    <3>1. CASE j \in Pids
      BY <1>4, <1>5, <1>7, <3>1
    <3>2. CASE j = n + 1
      BY <1>1, <1>6, <1>7, <1>9, <3>2
    <3> QED
      BY <1>8, <3>1, <3>2
  <2> HIDE DEF due1, q1, m1
  <2> QED
    BY <1>1, <2>1, <2>2
<1>17. Len(poolInfo)' = n + 1 /\ n + 1 \in Nat /\ t1 \in Nat /\ SumTo(Due, Len(poolInfo))' = SumTo(due1, n + 1)
  BY <1>1, <1>2, <1>3, <1>7
<1> HIDE DEF s, due1, t1, n
<1>18. t1 * s + PRECISION * SumTo(due1, n + 1) <= t1 * Budget
  BY <1>3, <1>4, <1>15, <1>16, <1>17, NothingIsDue
<1>19. Funded'
  BY <1>4, <1>15, <1>17, <1>18 DEF Funded, t1
<1> QED
  BY <1>10, <1>19 DEF EInv

LEMMA UpdatePoolFunds ==
  ASSUME IInv, EInv, NEW i \in Pids, UpdatePool(i)
  PROVE  EInv'
<1> DEFINE new == UpToDate(poolInfo[i])
           x == Power(i) * new.accesRADTPerShare
           other == PRECISION * paid
           g == [Gross EXCEPT ![i] = x]
           r == [Due EXCEPT ![i] = 0]
           n == Len(poolInfo)
<1>1. /\ Types /\ now \in Nat /\ Updatable(poolInfo[i]) /\ i \in 1 .. n
      /\ poolInfo[i] \in PoolInfo /\ poolInfo \in Seq(PoolInfo) /\ esRADTPerSecond \in Nat
      /\ poolInfo[i].allocPoint \in Nat /\ poolInfo[i].lastRewardTime <= Later(now, startTime)
  <2>1. Types /\ now \in Nat
    BY EscrowIsTyped DEF IInv
  <2> QED
    BY <2>1, PoolsAreTyped DEF UpdatePool, Types, Pids, EInv, Timely
<1>2. /\ UNCHANGED <<now, totalAllocPoint, stakerInfo, esRADTPerSecond, lpBalance, emitted, paid,
                     stakes>>
      /\ poolInfo' = [poolInfo EXCEPT ![i] = new]
  BY DEF UpdatePool, stakingHistory
<1>3. /\ SumTo(g, n) + other <= Budget
      /\ totalAllocPoint * (SumTo(g, n) + other) + PRECISION * SumTo(r, n)
           <= totalAllocPoint * Budget
  BY <1>1, FundsUpdated
<1>4. /\ new \in PoolInfo /\ new.lpToken = poolInfo[i].lpToken
      /\ new.totalRP = poolInfo[i].totalRP /\ new.allocPoint = poolInfo[i].allocPoint
  BY <1>1, UpToDateGrows
<1>5. /\ new.lastRewardTime <= Later(now, startTime)
      /\ Multiplier(new.lastRewardTime, now) = 0
  BY <1>1, UpdateIsDue
<1>6. /\ Len(poolInfo') = n /\ Pids' = Pids
      /\ \A j \in Pids : poolInfo'[j] = IF j = i THEN new ELSE poolInfo[j]
  <2> HIDE DEF new
  <2>1. Len(poolInfo') = n /\ \A j \in 1 .. n : poolInfo'[j] = IF j = i THEN new ELSE poolInfo[j]
    BY <1>1, <1>2, <1>4
  <2> QED
    BY <2>1 DEF Pids
<1>7. Timely'
  <2>1. \A j \in Pids : poolInfo'[j].lastRewardTime <= Later(now, startTime)
    BY <1>5, <1>6 DEF EInv, Timely
  <2> QED
    BY <1>2, <1>6, <2>1 DEF Timely, Later
<1>8. Gross' = g
  <2>1. Gross' = [j \in Pids |-> (lpBalance[poolInfo'[j].lpToken] + poolInfo'[j].totalRP)
                                    * poolInfo'[j].accesRADTPerShare]
    BY <1>2, <1>6 DEF Gross, Power
  <2>2. g = [j \in Pids |-> IF j = i THEN x ELSE Gross[j]]
    BY DEF Gross
  <2>3. \A j \in Pids : (lpBalance[poolInfo'[j].lpToken] + poolInfo'[j].totalRP)
                           * poolInfo'[j].accesRADTPerShare = IF j = i THEN x ELSE Gross[j]
    <3> TAKE j \in Pids
    <3>1. CASE j = i
      BY <1>4, <1>6, <3>1 DEF Power
    <3>2. CASE j # i
      BY <1>6, <3>2 DEF Gross, Power
    <3> QED
      BY <3>1, <3>2
  <2> QED
    BY <2>1, <2>2, <2>3
<1>9. Due' = r
  <2>1. Due' = [j \in Pids |-> Multiplier(poolInfo'[j].lastRewardTime, now) * esRADTPerSecond
                                  * poolInfo'[j].allocPoint]
    BY <1>2, <1>6 DEF Due, Multiplier, Later
  <2>2. r = [j \in Pids |-> IF j = i THEN 0 ELSE Due[j]]
    BY DEF Due
  <2>3. \A j \in Pids : Multiplier(poolInfo'[j].lastRewardTime, now) * esRADTPerSecond
                           * poolInfo'[j].allocPoint = IF j = i THEN 0 ELSE Due[j]
    <3> TAKE j \in Pids
    <3>1. CASE j = i
      <4> DEFINE a == Multiplier(poolInfo'[j].lastRewardTime, now)
                 q == poolInfo'[j].allocPoint
      <4>1. a = 0 /\ q \in Nat
        BY <1>1, <1>4, <1>5, <1>6, <3>1
      <4> HIDE DEF a, q
      <4>2. a * esRADTPerSecond * q = 0
        BY <1>1, <4>1
      <4> QED
        BY <3>1, <4>2 DEF a, q
    <3>2. CASE j # i
      BY <1>6, <3>2 DEF Due
    <3> QED
      BY <3>1, <3>2
  <2> QED
    BY <2>1, <2>2, <2>3
<1>10. DebtsOf' = DebtsOf
  BY <1>2, <1>6 DEF DebtsOf, SumOf
<1>11. Funded'
  <2> HIDE DEF g, r
  <2>1. Promised' = SumTo(g, n) + other
    BY <1>2, <1>6, <1>8 DEF Promised
  <2>2. Budget' = Budget
    BY <1>2, <1>6, <1>10 DEF Budget
  <2>3. SumTo(Due, Len(poolInfo))' = SumTo(r, n)
    BY <1>6, <1>9
  <2> QED
    BY <1>2, <1>3, <2>1, <2>2, <2>3 DEF Funded
<1> QED
  BY <1>7, <1>11 DEF EInv

\* The reward paid is rounded down, and the new debt falls short of the new
\* share by less than a unit, for which the count of stakes stands.
LEMMA SettlementRounds ==
  ASSUME NEW p \in Nat \ {0}, NEW x \in Nat, NEW x1 \in Nat, NEW d \in Nat
  PROVE  /\ x1 - x + p * (x \div p - d) \in Int /\ p * (1 - d + x1 \div p) \in Int
         /\ x1 - x + p * (x \div p - d) <= p * (1 - d + x1 \div p)
<1> DEFINE c == x \div p
           c1 == x1 \div p
<1>1. c \in Nat /\ p * c <= x
  BY Quotient
<1>2. c1 \in Nat /\ x1 < p * c1 + p
  BY Quotient
<1> HIDE DEF c, c1
<1>3. p * (c - d) = p * c - p * d /\ p * (1 - d + c1) = p - p * d + p * c1
  BY <1>1, <1>2
<1> DEFINE pc == p * c
           pc1 == p * c1
           pd == p * d
<1>4. /\ pc \in Nat /\ pc1 \in Nat /\ pd \in Nat /\ pc <= x /\ x1 < pc1 + p
      /\ p * (c - d) = pc - pd /\ p * (1 - d + c1) = p - pd + pc1
  BY <1>1, <1>2, <1>3
<1> HIDE DEF pc, pc1, pd
<1>5. /\ x1 - x + p * (c - d) \in Int /\ p * (1 - d + c1) \in Int
      /\ x1 - x + p * (c - d) <= p * (1 - d + c1)
  BY <1>4
<1> QED
  BY <1>5 DEF c, c1

\* What is promised moves by no more than the budget.
LEMMA FundsMove ==
  ASSUME NEW t \in Nat, NEW s \in Nat, NEW b \in Nat, NEW rest \in Nat, NEW v \in Int, NEW w \in Int,
         s <= b, t * s + rest <= t * b, v <= w
  PROVE  s + v <= b + w /\ t * (s + v) + rest <= t * (b + w)
<1>1. t * (s + v) = t * s + t * v /\ t * (b + w) = t * b + t * w /\ t * v <= t * w
  OBVIOUS
<1> DEFINE ts == t * s
           tv == t * v
           tb == t * b
           tw == t * w
<1>2. ts \in Int /\ tv \in Int /\ tb \in Int /\ tw \in Int /\ tv <= tw /\ ts + rest <= tb
      /\ t * (s + v) = ts + tv /\ t * (b + w) = tb + tw
  BY <1>1
<1> HIDE DEF ts, tv, tb, tw
<1>3. ts + tv + rest <= tb + tw
  BY <1>2
<1> QED
  BY <1>2, <1>3

\* Deposits and withdrawals.
LEMMA RestakeFunds ==
  ASSUME IInv, IInv', EInv, NEW u \in Users, NEW i \in Pids, Restaking(u, i), Settles(u, i)
  PROVE  EInv'
<1> DEFINE pool == UpToDate(poolInfo[i])
           acc == pool.accesRADTPerShare
           token == poolInfo[i].lpToken
           user == stakerInfo[i][u]
           n == Len(poolInfo)
           t == totalAllocPoint
           p == PRECISION
           other == p * paid
           x == Power(i) * acc
           g == [Gross EXCEPT ![i] = x]
           r == [Due EXCEPT ![i] = 0]
           g1 == Gross'
           debts == DebtsOf
           debts1 == DebtsOf'
<1>1. /\ Types /\ now \in Nat /\ Updatable(poolInfo[i]) /\ i \in 1 .. n
      /\ i \in PoolIds /\ Pids \subseteq PoolIds
      /\ poolInfo[i] \in PoolInfo /\ token \in LPTokens /\ poolInfo[i].totalRP \in Nat
      /\ lpBalance[token] \in Nat
      /\ user \in StakerInfo /\ user.amount \in Nat /\ user.RPamount \in Nat
      /\ user.rewardDebt \in Nat
      /\ esRADTPerSecond \in Nat /\ poolInfo[i].allocPoint \in Nat
      /\ poolInfo[i].lastRewardTime <= Later(now, startTime)
      /\ paid \in Nat /\ emitted \in Nat /\ stakes \in Nat
  <2>1. Types /\ now \in Nat
    BY EscrowIsTyped DEF IInv
  <2> QED
    BY <2>1, PoolsAreTyped DEF Settles, Types, Pids, EInv, Timely
<1>2. /\ UNCHANGED <<now, totalAllocPoint, esRADTPerSecond, emitted>>
      /\ stakes' = stakes + 1
      /\ paid' = paid + (Share(user, acc) - user.rewardDebt)
  BY DEF Settles
<1>3. /\ n \in Nat /\ p \in Nat \ {0} /\ t \in Nat /\ Budget \in Nat
      /\ \A j \in Pids : /\ Power(j) \in Nat /\ Gross[j] \in Nat /\ Due[j] \in Nat
                         /\ debts[j] \in Nat
      /\ SumTo(debts, n) \in Nat
      /\ Pids = 1 .. n
  BY <1>1, FundsAreNat DEF EInv, Pids
<1>4. /\ x \in Nat
      /\ SumTo(g, n) + other <= Budget
      /\ t * (SumTo(g, n) + other) + p * SumTo(r, n) <= t * Budget
  BY <1>1, FundsUpdated
<1>5. /\ pool.lastRewardTime <= Later(now, startTime)
      /\ Multiplier(pool.lastRewardTime, now) = 0
      /\ acc \in Nat
  BY <1>1, UpdateIsDue
<1>6. PICK changed \in StakerInfo, total \in Nat, balance \in Nat :
        /\ Restakes(u, i, changed, total, balance)
        /\ total = poolInfo[i].totalRP - user.RPamount + changed.RPamount
        /\ balance = lpBalance[token] - user.amount + changed.amount
        /\ changed.amount = 0 => changed.RPamount = 0
  BY DEF Restaking
<1>7. /\ Len(poolInfo') = n
      /\ \A j \in Pids \ {i} : poolInfo'[j] = poolInfo[j]
      /\ poolInfo'[i].lpToken = token /\ poolInfo'[i].totalRP = total
      /\ poolInfo'[i].allocPoint = poolInfo[i].allocPoint
      /\ poolInfo'[i].lastRewardTime = pool.lastRewardTime
      /\ poolInfo'[i].accesRADTPerShare = acc
      /\ stakerInfo'[i][u] = Settled(changed, pool)
      /\ \A j \in PoolIds, v \in Users : (j # i \/ v # u) => stakerInfo'[j][v] = stakerInfo[j][v]
      /\ lpBalance'[token] = balance
      /\ \A lp \in LPTokens \ {token} : lpBalance'[lp] = lpBalance[lp]
  <2>1. UNCHANGED totalAllocPoint /\ now \in Nat /\ Updatable(poolInfo[i])
    BY <1>1, <1>2
  <2>2. /\ Len(poolInfo') = Len(poolInfo)
        /\ \A j \in Pids \ {i} : poolInfo'[j] = poolInfo[j]
        /\ poolInfo'[i].lpToken = poolInfo[i].lpToken /\ poolInfo'[i].totalRP = total
        /\ poolInfo'[i].allocPoint = poolInfo[i].allocPoint
        /\ poolInfo'[i].lastRewardTime = UpToDate(poolInfo[i]).lastRewardTime
        /\ poolInfo'[i].accesRADTPerShare = UpToDate(poolInfo[i]).accesRADTPerShare
        /\ stakerInfo'[i][u] = Settled(changed, UpToDate(poolInfo[i]))
        /\ \A j \in PoolIds, v \in Users : (j # i \/ v # u) => stakerInfo'[j][v] = stakerInfo[j][v]
        /\ lpBalance'[poolInfo[i].lpToken] = balance
        /\ \A lp \in LPTokens \ {poolInfo[i].lpToken} : lpBalance'[lp] = lpBalance[lp]
    BY <1>6, <2>1, Restaked
  <2> QED
    BY <2>2
<1> DEFINE y == (user.amount + user.RPamount) * acc
           y1 == (changed.amount + changed.RPamount) * acc
<1>8. /\ y \in Nat /\ y1 \in Nat
      /\ changed.amount \in Nat /\ changed.RPamount \in Nat
      /\ Share(user, acc) = y \div p
      /\ stakerInfo'[i][u].rewardDebt = y1 \div p
      /\ y1 \div p \in Nat
  <2> DEFINE a == user.amount + user.RPamount
             a1 == changed.amount + changed.RPamount
  <2>1. a \in Nat /\ a1 \in Nat /\ changed.amount \in Nat /\ changed.RPamount \in Nat
    <3>1. changed.amount \in Nat /\ changed.RPamount \in Nat
      BY DEF StakerInfo
    <3>2. user.amount \in Nat /\ user.RPamount \in Nat
      BY <1>1
    <3>3. a \in Nat /\ a1 \in Nat
      <4> HIDE DEF user
      <4> QED
        BY <3>1, <3>2
    <3> QED
      BY <3>1, <3>3
  <2>2. y = a * acc /\ y1 = a1 * acc
    OBVIOUS
  <2>3. Share(user, acc) = y \div p /\ Share(changed, acc) = y1 \div p
    BY DEF Share
  <2>4. Settled(changed, pool).rewardDebt = Share(changed, acc)
    <3> DEFINE b == Share(changed, acc)
               c == Share(changed, pool.accRPPerShare)
    <3>1. Settled(changed, pool) = [changed EXCEPT !.rewardDebt = b, !.RPrewardDebt = c]
      BY DEF Settled
    <3> HIDE DEF b, c
    <3>2. Settled(changed, pool).rewardDebt = b
      BY <3>1 DEF StakerInfo
    <3> QED
      BY <3>2 DEF b
  <2> HIDE DEF a, a1, y, y1, acc, pool
  <2>5. y \in Nat /\ y1 \in Nat
    BY <1>5, <2>1, <2>2
  <2>6. y1 \div p \in Nat
    BY <1>3, <2>5, Quotient
  <2> QED
    BY <1>7, <2>1, <2>3, <2>4, <2>5, <2>6
<1>9. Pids' = Pids
  BY <1>3, <1>7 DEF Pids
<1>10. Timely'
  <2>1. \A j \in Pids : poolInfo'[j].lastRewardTime <= Later(now, startTime)
    BY <1>5, <1>7 DEF EInv, Timely
  <2> QED
    BY <1>2, <1>9, <2>1 DEF Timely, Later
<1>11. /\ \A j \in Pids \ {i} : g1[j] = g[j]
       /\ g1[i] = x - y + y1 /\ g1[i] \in Nat /\ g[i] = x
  <2>1. \A j \in Pids : g1[j] = (lpBalance'[poolInfo'[j].lpToken] + poolInfo'[j].totalRP)
                                   * poolInfo'[j].accesRADTPerShare
    BY <1>9 DEF Gross, Power
  <2>2. \A j \in Pids \ {i} : g1[j] = g[j]
    <3> TAKE j \in Pids \ {i}
    <3>1. poolInfo'[j] = poolInfo[j] /\ poolInfo[j].lpToken \in LPTokens \ {token}
      BY <1>1, <1>7, PoolsAreTyped DEF IInv, OnePoolPerToken
    <3>2. lpBalance'[poolInfo[j].lpToken] = lpBalance[poolInfo[j].lpToken]
      BY <1>7, <3>1
    <3>3. g[j] = Gross[j]
      BY DEF Gross
    <3> QED
      BY <2>1, <3>1, <3>2, <3>3 DEF Gross, Power
  <2>3. g1[i] = (balance + total) * acc
    BY <1>7, <2>1
  <2>4. g[i] = x /\ x = (lpBalance[token] + poolInfo[i].totalRP) * acc
    BY DEF Gross, Power
  <2>5. (balance + total) * acc = x - y + y1
    <3> DEFINE b0 == lpBalance[token]
               r0 == poolInfo[i].totalRP
               a == user.amount
               rp == user.RPamount
               a1 == changed.amount
               rp1 == changed.RPamount
    <3>1. /\ b0 \in Nat /\ r0 \in Nat /\ a \in Nat /\ rp \in Nat /\ a1 \in Nat /\ rp1 \in Nat
          /\ balance = b0 - a + a1 /\ total = r0 - rp + rp1
          /\ x = (b0 + r0) * acc /\ y = (a + rp) * acc /\ y1 = (a1 + rp1) * acc
      BY <1>1, <1>6, <1>8, <2>4
    <3> HIDE DEF b0, r0, a, rp, a1, rp1, x, y, y1, acc
    <3>2. balance + total = (b0 + r0) - (a + rp) + (a1 + rp1)
      BY <3>1
    <3> DEFINE f == b0 + r0
               h == a + rp
               h1 == a1 + rp1
    <3>3. f \in Nat /\ h \in Nat /\ h1 \in Nat /\ balance + total = f - h + h1
          /\ x = f * acc /\ y = h * acc /\ y1 = h1 * acc
      BY <3>1, <3>2
    <3> HIDE DEF f, h, h1
    <3>4. (f - h + h1) * acc = f * acc - h * acc + h1 * acc
      BY <1>5, <3>3
    <3> QED
      BY <3>3, <3>4
  <2>6. (balance + total) * acc \in Nat
    <3>1. balance + total \in Nat
      OBVIOUS
    <3> HIDE DEF acc
    <3> QED
      BY <1>5, <3>1
  <2> HIDE DEF g1, g, x, y, y1, acc
  <2> QED
    BY <2>2, <2>3, <2>4, <2>5, <2>6
<1>12. /\ \A j \in Pids \ {i} : debts1[j] = debts[j]
       /\ debts1[i] = debts[i] - user.rewardDebt + y1 \div p
       /\ debts1[i] \in Nat
  <2>1. \A j \in Pids : debts1[j] = SumOver([v \in Users |-> stakerInfo'[j][v].rewardDebt],
                                             EnumerationOf(Users))
    BY <1>9 DEF DebtsOf, SumOf
  <2>2. \A j \in Pids : debts[j] = SumOver([v \in Users |-> stakerInfo[j][v].rewardDebt],
                                            EnumerationOf(Users))
    BY DEF DebtsOf, SumOf
  <2>3. \A j \in Pids \ {i} : debts1[j] = debts[j]
    <3> TAKE j \in Pids \ {i}
    <3>1. \A v \in Users : stakerInfo'[j][v] = stakerInfo[j][v]
      BY <1>1, <1>7
    <3>2. [v \in Users |-> stakerInfo'[j][v].rewardDebt]
            = [v \in Users |-> stakerInfo[j][v].rewardDebt]
      BY <3>1
    <3> QED
      BY <2>1, <2>2, <3>2
  <2> DEFINE f == [v \in Users |-> stakerInfo[i][v].rewardDebt]
             f1 == [v \in Users |-> stakerInfo'[i][v].rewardDebt]
             d1 == y1 \div p
  <2>4. /\ f \in [Users -> Nat] /\ f[u] = user.rewardDebt
        /\ f1[u] = d1 /\ \A v \in Users \ {u} : f1[v] = f[v]
    <3>1. f \in [Users -> Nat] /\ f[u] = user.rewardDebt
      BY <1>1, PoolsAreTyped
    <3>2. f1[u] = d1
      BY <1>8
    <3>3. \A v \in Users \ {u} : f1[v] = f[v]
      BY <1>1, <1>7
    <3> QED
      BY <3>1, <3>2, <3>3
  <2>5. f1 = [v \in Users |-> f1[v]] /\ d1 \in Nat
    BY <1>8
  <2>6. debts[i] = SumOver(f, EnumerationOf(Users)) /\ debts1[i] = SumOver(f1, EnumerationOf(Users))
    BY <2>1, <2>2
  <2> HIDE DEF f, f1, d1, debts, debts1
  <2>7. f1 \in [Users -> Nat]
    BY <2>4, <2>5
  <2>8. SumOver(f1, EnumerationOf(Users)) = SumOver(f, EnumerationOf(Users)) - f[u] + f1[u]
    BY <2>4, <2>7, AccountsAreFinite, EntryChanges
  <2>9. SumOver(f1, EnumerationOf(Users)) \in Nat
    BY <2>7, AccountsAreFinite, SumOverAccounts
  <2> QED
    BY <2>3, <2>4, <2>6, <2>8, <2>9 DEF d1
<1>13. Due' = r
  <2>1. Due' = [j \in Pids |-> Multiplier(poolInfo'[j].lastRewardTime, now) * esRADTPerSecond
                                  * poolInfo'[j].allocPoint]
    BY <1>2, <1>9 DEF Due, Multiplier, Later
  <2>2. r = [j \in Pids |-> IF j = i THEN 0 ELSE Due[j]]
    BY DEF Due
  <2>3. \A j \in Pids : Multiplier(poolInfo'[j].lastRewardTime, now) * esRADTPerSecond
                           * poolInfo'[j].allocPoint = IF j = i THEN 0 ELSE Due[j]
    <3> TAKE j \in Pids
    <3>1. CASE j = i
      <4> DEFINE a == Multiplier(poolInfo'[j].lastRewardTime, now)
                 q == poolInfo'[j].allocPoint
      <4>1. a = 0 /\ q \in Nat
        BY <1>1, <1>5, <1>7, <3>1
      <4> HIDE DEF a, q
      <4>2. a * esRADTPerSecond * q = 0
        BY <1>1, <4>1
      <4> QED
        BY <3>1, <4>2 DEF a, q
    <3>2. CASE j # i
      BY <1>7, <3>2 DEF Due
    <3> QED
      BY <3>1, <3>2
  <2> QED
    BY <2>1, <2>2, <2>3
<1> DEFINE s == SumTo(g, n) + other
           s1 == SumTo(g1, n) + p * paid'
           b1 == p * (emitted + (stakes + 1) + SumTo(debts1, n))
           d == user.rewardDebt
           pending == y \div p - d
<1>14. /\ Promised' = s1 /\ Budget' = b1 /\ SumTo(Due, Len(poolInfo))' = SumTo(r, n)
  <2>1. Promised' = s1
    BY <1>7 DEF Promised
  <2>2. Budget' = b1
    BY <1>2, <1>7 DEF Budget
  <2>3. SumTo(Due, Len(poolInfo))' = SumTo(r, n)
    BY <1>7, <1>13
  <2> QED
    BY <2>1, <2>2, <2>3
<1>15. /\ SumTo(g, n) \in Nat /\ SumTo(g1, n) \in Nat
       /\ SumTo(g1, n) = SumTo(g, n) - x + (x - y + y1)
  <2>1. /\ \A j \in Pids : g[j] \in Nat /\ g1[j] \in Nat
        /\ \A j \in Pids : j # i => g[j] = g1[j]
        /\ g1[i] = x - y + y1 /\ g[i] = x
    <3>1. \A j \in Pids \ {i} : g[j] = Gross[j]
      BY DEF Gross
    <3>2. \A j \in Pids \ {i} : g[j] \in Nat
      BY <1>3, <3>1
    <3>3. \A j \in Pids : g[j] \in Nat /\ g1[j] \in Nat
      <4> TAKE j \in Pids
      <4>1. CASE j = i
        BY <1>4, <1>11, <4>1
      <4>2. CASE j # i
        BY <1>11, <3>2, <4>2
      <4> QED
        BY <4>1, <4>2
    <3> QED
      BY <1>11, <3>3
  <2> HIDE DEF g, g1, n, x, y, y1
  <2>2. \A j \in 1 .. n : g[j] \in Nat /\ g1[j] \in Nat
    BY <1>3, <2>1
  <2>3. \A j \in 1 .. n : j # i => g[j] = g1[j]
    BY <1>3, <2>1
  <2>4. SumTo(g1, n) = SumTo(g, n) - g[i] + g1[i]
    BY <1>1, <1>3, <2>2, <2>3, SumToChanges
  <2>5. (\A m \in 0 .. n : SumTo(g, m) \in Nat) /\ (\A m \in 0 .. n : SumTo(g1, m) \in Nat)
    BY <1>3, <2>2, SumToNat
  <2>6. SumTo(g, n) \in Nat /\ SumTo(g1, n) \in Nat
    BY <1>3, <2>5
  <2> QED
    BY <2>1, <2>4, <2>6
<1>16. /\ SumTo(debts1, n) \in Nat
       /\ SumTo(debts1, n) = SumTo(debts, n) - d + y1 \div p
  <2> DEFINE d1 == y1 \div p
  <2>1. /\ \A j \in Pids : debts[j] \in Nat /\ debts1[j] \in Nat
        /\ \A j \in Pids : j # i => debts[j] = debts1[j]
        /\ debts1[i] = debts[i] - d + d1 /\ d \in Nat /\ d1 \in Nat
    <3>1. \A j \in Pids : debts[j] \in Nat /\ debts1[j] \in Nat
      <4> TAKE j \in Pids
      <4>1. CASE j = i
        BY <1>3, <1>12, <4>1
      <4>2. CASE j # i
        BY <1>3, <1>12, <4>2
      <4> QED
        BY <4>1, <4>2
    <3> QED
      BY <1>1, <1>8, <1>12, <3>1
  <2> HIDE DEF debts, debts1, n, d, d1
  <2>2. \A j \in 1 .. n : debts[j] \in Nat /\ debts1[j] \in Nat
    BY <1>3, <2>1
  <2>3. \A j \in 1 .. n : j # i => debts[j] = debts1[j]
    BY <1>3, <2>1
  <2>4. SumTo(debts1, n) = SumTo(debts, n) - debts[i] + debts1[i]
    BY <1>1, <1>3, <2>2, <2>3, SumToChanges
  <2>5. \A m \in 0 .. n : SumTo(debts1, m) \in Nat
    BY <1>3, <2>2, SumToNat
  <2>6. SumTo(debts1, n) \in Nat
    BY <1>3, <2>5
  <2>7. debts[i] \in Nat
    BY <2>1
  <2>8. SumTo(debts1, n) = SumTo(debts, n) - d + d1
    BY <1>3, <2>1, <2>4, <2>7
  <2> QED
    BY <2>6, <2>8 DEF d1
<1>17. paid' \in Nat
  BY DEF IInv, Types
<1>18. /\ s \in Nat /\ s1 \in Nat /\ b1 \in Nat /\ d \in Nat /\ y \div p \in Nat
       /\ s1 = s - y + y1 + p * (y \div p - d)
       /\ b1 = Budget + p * (1 - d + y1 \div p)
  <2> DEFINE c == y \div p
             c1 == y1 \div p
             sd == SumTo(debts, n)
             sd1 == SumTo(debts1, n)
             sg == SumTo(g, n)
             sg1 == SumTo(g1, n)
             paid1 == paid'
  <2>1. c \in Nat /\ c1 \in Nat /\ d \in Nat
    <3> HIDE DEF y, p
    <3> QED
      BY <1>1, <1>3, <1>8, Quotient
  <2>2. /\ paid1 = paid + (c - d) /\ paid1 \in Nat /\ paid \in Nat
        /\ sd \in Nat /\ sd1 \in Nat /\ sd1 = sd - d + c1
        /\ sg \in Nat /\ sg1 \in Nat /\ sg1 = sg - x + (x - y + y1)
        /\ y \in Nat /\ y1 \in Nat /\ x \in Nat
        /\ emitted \in Nat /\ stakes \in Nat
    BY <1>1, <1>2, <1>3, <1>4, <1>8, <1>15, <1>16, <1>17
  <2>3. /\ s = sg + p * paid /\ s1 = sg1 + p * paid1
        /\ b1 = p * (emitted + (stakes + 1) + sd1) /\ Budget = p * (emitted + stakes + sd)
    BY DEF Budget
  <2> HIDE DEF c, c1, sd, sd1, sg, sg1, paid1, s, s1, b1, d, x, y, y1, p
  <2>4. s \in Nat /\ s1 \in Nat /\ b1 \in Nat
    <3> DEFINE e == emitted + (stakes + 1) + sd1
    <3>1. p \in Nat /\ e \in Nat
      BY <1>3, <2>2
    <3>2. b1 = p * e
      BY <2>3
    <3> HIDE DEF e
    <3>3. p * e \in Nat /\ p * paid \in Nat /\ p * paid1 \in Nat
      BY <2>2, <3>1
    <3> QED
      BY <2>2, <2>3, <3>2, <3>3
  <2>5. s1 = s - y + y1 + p * (c - d)
    <3>1. p * (paid + (c - d)) = p * paid + p * (c - d) /\ p * (c - d) \in Int /\ p * paid \in Nat
      BY <1>3, <2>1, <2>2
    <3>2. sg1 = sg - y + y1
      BY <2>2
    <3>3. s1 = sg - y + y1 + (p * paid + p * (c - d))
      BY <2>2, <2>3, <3>1, <3>2
    <3> QED
      BY <2>2, <2>3, <3>1, <3>3
  <2>6. b1 = Budget + p * (1 - d + c1)
    <3> DEFINE a == emitted + stakes + sd
               e == 1 - d + c1
    <3>1. a \in Nat /\ e \in Int /\ emitted + (stakes + 1) + sd1 = a + e
      BY <2>1, <2>2
    <3>2. b1 = p * (a + e) /\ Budget = p * a
      BY <2>3, <3>1
    <3> HIDE DEF a, e
    <3>3. p * (a + e) = p * a + p * e
      BY <1>3, <3>1
    <3>4. b1 = Budget + p * e
      BY <3>2, <3>3
    <3> QED
      BY <3>4 DEF e
  <2> QED
    BY <2>1, <2>4, <2>5, <2>6 DEF c, c1
<1>19. SumTo(r, n) \in Nat
  <2>1. \A j \in 1 .. n : r[j] \in Nat
    BY <1>3 DEF Due
  <2> HIDE DEF r, n
  <2>2. \A m \in 0 .. n : SumTo(r, m) \in Nat
    BY <1>3, <2>1, SumToNat
  <2> QED
    BY <1>3, <2>2
<1>20. s1 <= b1 /\ t * s1 + p * SumTo(r, n) <= t * b1
  <2> DEFINE rest == p * SumTo(r, n)
             budget == Budget
             v == y1 - y + p * (y \div p - d)
             w == p * (1 - d + y1 \div p)
  <2>1. rest \in Nat
    <3> DEFINE q == SumTo(r, n)
    <3>1. q \in Nat /\ p \in Nat
      BY <1>3, <1>19
    <3> HIDE DEF q, p
    <3> QED
      BY <3>1 DEF q
  <2>2. s <= budget /\ t * s + rest <= t * budget /\ s \in Nat /\ budget \in Nat /\ t \in Nat
    BY <1>3, <1>4, <1>18
  <2>3. v \in Int /\ w \in Int /\ v <= w
    <3>1. p \in Nat \ {0} /\ y \in Nat /\ y1 \in Nat /\ d \in Nat
      BY <1>3, <1>8, <1>18
    <3> HIDE DEF p, y, y1, d
    <3> QED
      BY <3>1, SettlementRounds
  <2>4. s1 = s + v /\ b1 = budget + w
    <3> DEFINE e == p * (y \div p - d)
    <3>1. s1 = s - y + y1 + e /\ v = y1 - y + e /\ y \in Nat /\ y1 \in Nat /\ s \in Nat /\ s1 \in Nat
      BY <1>8, <1>18
    <3>2. e \in Int
      <4> DEFINE c == y \div p
      <4>1. e = p * (c - d) /\ c \in Nat /\ d \in Nat /\ p \in Nat
        BY <1>3, <1>18
      <4> HIDE DEF c, d, p, e
      <4> QED
        BY <4>1
    <3>3. b1 = budget + w
      BY <1>18
    <3> HIDE DEF s, s1, v, e, y, y1, p, d
    <3>4. s1 = s + v
      BY <3>1, <3>2
    <3> QED
      BY <3>3, <3>4
  <2> HIDE DEF s, s1, b1, rest, budget, v, w, t
  <2>5. s + v <= budget + w /\ t * (s + v) + rest <= t * (budget + w)
    BY <2>1, <2>2, <2>3, FundsMove
  <2>6. s1 <= b1 /\ t * s1 + rest <= t * b1
    BY <2>4, <2>5
  <2> QED
    BY <2>6 DEF rest
<1>21. Funded'
  <2> HIDE DEF s1, b1, r
  <2> QED
    BY <1>2, <1>14, <1>20 DEF Funded
<1> QED
  BY <1>10, <1>21 DEF EInv

\* A call that takes no time emits nothing.
LEMMA EscrowFunds ==
  ASSUME IInv, EInv, EscrowNext, emitted' = emitted + esRADTPerSecond * Multiplier(now, now'),
         UNCHANGED <<stakingState, paid, stakes>>
  PROVE  EInv'
<1>1. CASE Tick
  BY <1>1, ClockFunds
<1>2. CASE now' = now
  <2>1. now \in Nat /\ startTime \in Nat /\ emitted \in Nat /\ esRADTPerSecond \in Nat
    <3>1. now \in Nat /\ startTime \in Nat /\ Types
      BY EscrowIsTyped, RdLPStakingAssumption DEF IInv
    <3> QED
      BY <3>1 DEF Types
  <2>2. Multiplier(now, now') = 0
    BY <1>2, <2>1 DEF Multiplier, Later
  <2>3. emitted' = emitted
    BY <2>1, <2>2
  <2> QED
    BY <1>2, <2>3, SameFunds DEF stakingState
<1>3. Tick \/ now' = now
  BY DEF EscrowNext, Transfer, Burn, Lock, Vest, ExitWhitelisted, ExitEarly, ClaimVested,
         WhitelistAddress
<1> QED
  BY <1>1, <1>2, <1>3

LEMMA EInvStep == IInv /\ IInv' /\ EInv /\ [Next]_vars => EInv'
<1> SUFFICES ASSUME IInv, IInv', EInv, [Next]_vars PROVE EInv'
  OBVIOUS
<1>1. CASE UNCHANGED vars
  BY <1>1, SameFunds DEF vars, escrowVars, stakingState, stakingHistory
<1>2. CASE Next
  <2>1. CASE /\ EscrowNext
             /\ emitted' = emitted + esRADTPerSecond * Multiplier(now, now')
             /\ UNCHANGED <<stakingState, paid, stakes>>
    BY <2>1, EscrowFunds
  <2>2. CASE \E open \in BOOLEAN : SetWithdrawable(open)
    BY <2>2, SameFunds DEF SetWithdrawable
  <2>3. CASE \E amount \in Supplies : SupplyRewards(amount)
    BY <2>3, SameFunds DEF SupplyRewards, stakingState, stakingHistory
  <2>4. CASE \E rate, rpRate \in Rates : SetRates(rate, rpRate)
    BY <2>4, SetRatesFunds
  <2>5. CASE \E allocPoint \in AllocPoints, lp \in LPTokens : Add(allocPoint, lp)
    BY <2>5, AddFunds
  <2>6. CASE \E i \in Pids : \E allocPoint \in AllocPoints : SetAllocPoint(i, allocPoint)
    BY <2>6, SetAllocPointFunds
  <2>7. CASE \E i \in Pids : UpdatePool(i)
    BY <2>7, UpdatePoolFunds
  <2>8. CASE \E u \in Users, i \in Pids : \E amount \in Deposits : Deposit(u, i, amount)
    <3>1. \E u \in Users, i \in Pids : Restaking(u, i) /\ Settles(u, i)
      BY <2>8, DepositStep
    <3> QED
      BY <3>1, RestakeFunds
  <2>9. CASE \E u \in Users, i \in Pids :
               \E amount \in 0 .. stakerInfo[i][u].amount : Withdraw(u, i, amount)
    <3>1. \E u \in Users, i \in Pids : Restaking(u, i) /\ Settles(u, i)
      BY <2>9, WithdrawStep
    <3> QED
      BY <3>1, RestakeFunds
  <2> QED
    BY <1>2, <2>1, <2>2, <2>3, <2>4, <2>5, <2>6, <2>7, <2>8, <2>9 DEF Next
<1> QED
  BY <1>1, <1>2

LEMMA InitEInv == Init => EInv
<1> SUFFICES ASSUME Init PROVE EInv
  OBVIOUS
<1>1. poolInfo = <<>> /\ Len(poolInfo) = 0 /\ Pids = {} /\ PRECISION \in Nat
      /\ totalAllocPoint = 0 /\ emitted = 0 /\ paid = 0 /\ stakes = 0
  BY RdLPStakingAssumption DEF Init, Pids
<1>2. SumTo(Gross, 0) = 0 /\ SumTo(DebtsOf, 0) = 0 /\ SumTo(Due, 0) = 0
  BY SumToUnfolds
<1>3. Promised = 0 /\ Budget = 0
  BY <1>1, <1>2 DEF Promised, Budget
<1> QED
  BY <1>1, <1>2, <1>3 DEF EInv, Funded, Timely

\* In one pool: what is pending to its stakers, and what was settled with them.
LEMMA PendingInPool ==
  ASSUME IInv, NEW i \in Pids
  PROVE  LET owed == [u \in Users |-> Share(stakerInfo[i][u], poolInfo[i].accesRADTPerShare)
                                        - stakerInfo[i][u].rewardDebt]
         IN  /\ owed \in [Users -> Nat]
             /\ PRECISION * SumOver(owed, EnumerationOf(Users)) + PRECISION * DebtsOf[i] <= Gross[i]
<1> DEFINE acc == poolInfo[i].accesRADTPerShare
           p == PRECISION
           owed == [u \in Users |-> Share(stakerInfo[i][u], acc) - stakerInfo[i][u].rewardDebt]
           debts == [u \in Users |-> stakerInfo[i][u].rewardDebt]
           amounts == [u \in Users |-> stakerInfo[i][u].amount]
           points == [u \in Users |-> stakerInfo[i][u].RPamount]
           balance == lpBalance[poolInfo[i].lpToken]
           total == poolInfo[i].totalRP
<1>1. /\ acc \in Nat /\ p \in Nat \ {0} /\ i \in PoolIds /\ balance \in Nat /\ total \in Nat
      /\ \A u \in Users : /\ stakerInfo[i][u] \in StakerInfo
                          /\ debts[u] \in Nat /\ amounts[u] \in Nat /\ points[u] \in Nat
  BY PoolsAreTyped, RdLPStakingAssumption DEF IInv
<1>2. \A u \in Users : owed[u] \in Nat /\ p * owed[u] + p * debts[u] <= acc * amounts[u] + acc * points[u]
  <2> TAKE u \in Users
  <2> DEFINE a == amounts[u]
             b == points[u]
             d == debts[u]
             x == (a + b) * acc
             share == x \div p
  <2>1. a \in Nat /\ b \in Nat /\ d \in Nat
    BY <1>1
  <2>2. Share(stakerInfo[i][u], acc) = share /\ owed[u] = share - d
    BY DEF Share
  <2>3. d <= share
    <3>1. IsSettled(stakerInfo[i][u], poolInfo[i])
      BY DEF IInv, AllSettled
    <3> QED
      BY <2>2, <3>1 DEF IsSettled
  <2> HIDE DEF owed, debts, amounts, points, a, b, d, acc, p
  <2>4. x \in Nat /\ x = acc * a + acc * b
    BY <1>1, <2>1
  <2> HIDE DEF x
  <2>5. share \in Nat /\ p * share <= x
    BY <1>1, <2>4, Quotient
  <2> HIDE DEF share
  <2>6. owed[u] \in Nat /\ p * (share - d) + p * d = p * share
    BY <1>1, <2>1, <2>2, <2>3, <2>5
  <2>7. p * owed[u] + p * d <= acc * a + acc * b
    BY <2>2, <2>4, <2>5, <2>6
  <2> QED
    BY <2>6, <2>7 DEF a, b, d
<1>3. /\ debts \in [Users -> Nat] /\ amounts \in [Users -> Nat] /\ points \in [Users -> Nat]
      /\ owed \in [Users -> Nat]
  BY <1>1, <1>2
<1>4. /\ SumOver(points, EnumerationOf(Users)) = total
      /\ SumOver(amounts, EnumerationOf(Users)) = balance
  BY DEF IInv, PowerAddsUp, SumOf
<1>5. DebtsOf[i] = SumOver(debts, EnumerationOf(Users))
  BY DEF DebtsOf, SumOf
<1>6. Gross[i] = (balance + total) * acc
  BY DEF Gross, Power
<1> HIDE DEF owed, debts, amounts, points, acc, p, balance, total
<1>7. p * SumOver(owed, EnumerationOf(Users)) + p * SumOver(debts, EnumerationOf(Users))
        <= acc * SumOver(amounts, EnumerationOf(Users)) + acc * SumOver(points, EnumerationOf(Users))
  <2>1. p \in Nat /\ IsFiniteSet(Users)
    BY <1>1, AccountsAreFinite
  <2> QED
    BY <1>1, <1>2, <1>3, <2>1, SumOverCombines
<1>8. acc * balance + acc * total = (balance + total) * acc
  BY <1>1
<1>9. p * SumOver(owed, EnumerationOf(Users)) + p * DebtsOf[i] <= Gross[i]
  BY <1>4, <1>5, <1>6, <1>7, <1>8
<1> QED
  BY <1>3, <1>9 DEF owed, acc, p

\* In all pools together.
LEMMA PendingInPools ==
  ASSUME IInv
  PROVE  /\ [u \in Users |-> Pending(u)] \in [Users -> Nat]
         /\ PRECISION * SumOf([u \in Users |-> Pending(u)])
              + PRECISION * SumTo(DebtsOf, Len(poolInfo)) <= SumTo(Gross, Len(poolInfo))
<1> DEFINE n == Len(poolInfo)
           p == PRECISION
           row(u) == [i \in Pids |-> Share(stakerInfo[i][u], poolInfo[i].accesRADTPerShare)
                                       - stakerInfo[i][u].rewardDebt]
           upTo(m) == [u \in Users |-> SumTo(row(u), m)]
           Sum(f) == SumOver(f, EnumerationOf(Users))
           Holds(m) == p * Sum(upTo(m)) + p * SumTo(DebtsOf, m) <= SumTo(Gross, m)
           T == {m \in Nat : m <= n => Holds(m)}
<1>1. /\ n \in Nat /\ p \in Nat \ {0} /\ Pids = 1 .. n /\ IsFiniteSet(Users)
  <2>1. Types
    BY DEF IInv
  <2> QED
    BY <2>1, PoolsAreTyped, RdLPStakingAssumption, AccountsAreFinite DEF Pids
<1>2. \A i \in Pids : [u \in Users |-> row(u)[i]] \in [Users -> Nat]
                      /\ p * Sum([u \in Users |-> row(u)[i]]) + p * DebtsOf[i] <= Gross[i]
  <2> TAKE i \in Pids
  <2>1. [u \in Users |-> row(u)[i]]
          = [u \in Users |-> Share(stakerInfo[i][u], poolInfo[i].accesRADTPerShare)
                               - stakerInfo[i][u].rewardDebt]
    OBVIOUS
  <2> QED
    BY <2>1, PendingInPool
<1>3. \A i \in Pids : DebtsOf[i] \in Nat /\ Gross[i] \in Nat
  <2> TAKE i \in Pids
  <2> DEFINE debts == [u \in Users |-> stakerInfo[i][u].rewardDebt]
             w == lpBalance[poolInfo[i].lpToken] + poolInfo[i].totalRP
             acc == poolInfo[i].accesRADTPerShare
  <2>1. debts \in [Users -> Nat] /\ w \in Nat /\ acc \in Nat
    BY PoolsAreTyped DEF IInv
  <2>2. DebtsOf[i] = SumOver(debts, EnumerationOf(Users)) /\ Gross[i] = w * acc
    BY DEF DebtsOf, SumOf, Gross, Power
  <2> HIDE DEF debts, w, acc
  <2>3. SumOver(debts, EnumerationOf(Users)) \in Nat
    BY <1>1, <2>1, SumOverAccounts
  <2> QED
    BY <2>1, <2>2, <2>3
<1>4. \A u \in Users : \A i \in 1 .. n : row(u)[i] \in Nat
  <2> TAKE u \in Users
  <2> TAKE i \in 1 .. n
  <2>1. [v \in Users |-> row(v)[i]] \in [Users -> Nat]
    BY <1>1, <1>2
  <2> HIDE DEF row
  <2> QED
    BY <2>1
<1> HIDE DEF n, p, row
<1>5. \A m \in 0 .. n : upTo(m) \in [Users -> Nat]
  <2> TAKE m \in 0 .. n
  <2>1. \A u \in Users : SumTo(row(u), m) \in Nat
    <3> TAKE u \in Users
    <3>1. \A k \in 0 .. n : SumTo(row(u), k) \in Nat
      BY <1>1, <1>4, SumToNat
    <3> QED
      BY <3>1
  <2> QED
    BY <2>1
<1>6. \A m \in 0 .. n : SumTo(DebtsOf, m) \in Nat /\ SumTo(Gross, m) \in Nat
  <2>1. \A m \in 0 .. n : SumTo(DebtsOf, m) \in Nat
    BY <1>1, <1>3, SumToNat
  <2>2. \A m \in 0 .. n : SumTo(Gross, m) \in Nat
    BY <1>1, <1>3, SumToNat
  <2> QED
    BY <2>1, <2>2
<1>7. 0 \in T
  <2>1. \A f : SumTo(f, 0) = 0
    BY SumToUnfolds
  <2> DEFINE f == upTo(0)
  <2>2. f \in [Users -> Nat] /\ \A u \in Users : f[u] = 0
    BY <2>1
  <2>3. SumTo(DebtsOf, 0) = 0 /\ SumTo(Gross, 0) = 0
    BY <2>1
  <2> HIDE DEF f
  <2>4. Sum(f) = 0
    BY <1>1, <2>2, SumOverAccounts
  <2>5. p * 0 + p * 0 <= 0
    BY <1>1
  <2>6. Holds(0)
    BY <2>3, <2>4, <2>5 DEF f
  <2> QED
    BY <2>6
<1>8. ASSUME NEW m \in T PROVE m + 1 \in T
  <2>1. CASE ~ (m + 1 <= n)
    BY <2>1
  <2>2. CASE m + 1 <= n
    <3> DEFINE i == m + 1
               before == upTo(m)
               after == upTo(i)
               owed == [u \in Users |-> row(u)[i]]
    <3>1. m \in 0 .. n /\ i \in 0 .. n /\ i \in Pids /\ m \in Nat /\ Holds(m)
      BY <1>1, <2>2
    <3>2. /\ before \in [Users -> Nat] /\ after \in [Users -> Nat] /\ owed \in [Users -> Nat]
      BY <1>2, <1>5, <3>1
    <3>3. \A u \in Users : after[u] = before[u] + owed[u]
      <4> TAKE u \in Users
      <4>1. SumTo(row(u), m + 1) = SumTo(row(u), m) + row(u)[m + 1]
        BY <3>1, SumToUnfolds
      <4> QED
        BY <4>1
    <3>4. p * Sum(owed) + p * DebtsOf[i] <= Gross[i]
      BY <1>2, <3>1
    <3>5. /\ SumTo(DebtsOf, i) = SumTo(DebtsOf, m) + DebtsOf[i]
          /\ SumTo(Gross, i) = SumTo(Gross, m) + Gross[i]
      BY <3>1, SumToUnfolds
    <3>6. p * Sum(before) + p * SumTo(DebtsOf, m) <= SumTo(Gross, m)
      BY <3>1
    <3> HIDE DEF before, after, owed
    <3>7. Sum(after) <= Sum(before) + Sum(owed)
          /\ Sum(after) \in Nat /\ Sum(before) \in Nat /\ Sum(owed) \in Nat
      <4>1. Sum(after) \in Nat /\ Sum(before) \in Nat /\ Sum(owed) \in Nat
        BY <1>1, <3>2, SumOverAccounts
      <4>2. \A u \in Users : 1 * after[u] + 0 * after[u] <= 1 * before[u] + 1 * owed[u]
        BY <3>2, <3>3
      <4>3. 1 * Sum(after) + 0 * Sum(after) <= 1 * Sum(before) + 1 * Sum(owed)
        BY <1>1, <3>2, <4>2, SumOverCombines
      <4> QED
        BY <4>1, <4>3
    <3> DEFINE a == Sum(after)
               b == Sum(before)
               c == Sum(owed)
               d == SumTo(DebtsOf, m)
               e == DebtsOf[i]
               f == SumTo(Gross, m)
               g == Gross[i]
    <3>8. /\ a \in Nat /\ b \in Nat /\ c \in Nat /\ d \in Nat /\ e \in Nat /\ f \in Nat /\ g \in Nat
          /\ a <= b + c /\ p * c + p * e <= g /\ p * b + p * d <= f
          /\ SumTo(DebtsOf, i) = d + e /\ SumTo(Gross, i) = f + g
      BY <1>3, <1>6, <3>1, <3>4, <3>5, <3>6, <3>7
    <3> HIDE DEF a, b, c, d, e, f, g
    <3>9. p * a + p * (d + e) <= f + g
      <4>1. p * a <= p * (b + c) /\ p * (b + c) = p * b + p * c /\ p * (d + e) = p * d + p * e
        <5>1. b + c \in Nat /\ p \in Nat
          BY <1>1, <3>8
        <5>2. p * a <= p * (b + c)
          <6> DEFINE h == b + c
          <6>1. h \in Nat /\ a <= h
            BY <3>8
          <6> HIDE DEF h
          <6>2. p * a <= p * h
            BY <3>8, <5>1, <6>1
          <6> QED
            BY <6>2 DEF h
        <5> QED
          BY <3>8, <5>1, <5>2
      <4> DEFINE pa == p * a
                 pb == p * b
                 pc == p * c
                 pd == p * d
                 pe == p * e
      <4>2. /\ pa \in Nat /\ pb \in Nat /\ pc \in Nat /\ pd \in Nat /\ pe \in Nat
            /\ pa <= pb + pc /\ pc + pe <= g /\ pb + pd <= f /\ p * (d + e) = pd + pe
        BY <1>1, <3>8, <4>1
      <4> HIDE DEF pa, pb, pc, pd, pe
      <4>3. pa + (pd + pe) <= f + g
        BY <3>8, <4>2
      <4> QED
        BY <4>2, <4>3 DEF pa
    <3>10. Holds(i)
      BY <3>8, <3>9 DEF a, after
    <3> QED
      BY <3>1, <3>10
  <2> QED
    BY <2>1, <2>2
<1>9. Holds(n)
  <2> HIDE DEF Holds
  <2>1. T \subseteq Nat
    OBVIOUS
  <2>2. T = Nat
    <3> HIDE DEF T
    <3> QED
      BY <1>7, <1>8, <2>1, NatIndSet
  <2>3. n \in T
    BY <1>1, <2>2
  <2> QED
    BY <1>1, <2>3
<1>10. \A u \in Users : Pending(u) = SumTo(row(u), n)
  BY DEF Pending, row, n
<1>11. [u \in Users |-> Pending(u)] = upTo(n)
  BY <1>10
<1>12. n \in 0 .. n
  BY <1>1
<1> QED
  BY <1>5, <1>9, <1>11, <1>12 DEF SumOf, n, p

LEMMA FundedSuffices == IInv /\ EInv => RewardsWithinEmission
<1> SUFFICES ASSUME IInv, EInv PROVE RewardsWithinEmission
  OBVIOUS
<1> DEFINE n == Len(poolInfo)
           p == PRECISION
           pending == [u \in Users |-> Pending(u)]
           a == SumOf(pending)
           d == SumTo(DebtsOf, n)
           g == SumTo(Gross, n)
           e == emitted + stakes
<1>1. /\ p \in Nat \ {0} /\ d \in Nat /\ g \in Nat /\ paid \in Nat /\ e \in Nat
  <2>1. Types /\ now \in Nat /\ Timely
    BY EscrowIsTyped DEF IInv, EInv
  <2>2. paid \in Nat /\ emitted \in Nat /\ stakes \in Nat
    BY <2>1 DEF Types
  <2>3. e \in Nat
    BY <2>2
  <2> QED
    BY <2>1, <2>2, <2>3, FundsAreNat
<1>2. pending \in [Users -> Nat] /\ p * a + p * d <= g
  BY PendingInPools
<1>3. g + p * paid <= p * (e + d)
  <2>1. g + p * paid <= p * (emitted + stakes + d)
    BY DEF EInv, Funded, Promised, Budget
  <2> QED
    BY <2>1
<1>4. a \in Nat
  <2> HIDE DEF pending
  <2> QED
    BY <1>2, AccountsAreFinite, SumOverAccounts DEF SumOf
<1>5. RewardsWithinEmission <=> paid + a <= e
  BY DEF RewardsWithinEmission
<1> HIDE DEF p, d, g, a, e
<1>6. p * (paid + a) <= p * e
  <2>1. /\ p * (paid + a) = p * paid + p * a
        /\ p * (e + d) = p * e + p * d
    BY <1>1, <1>4
  <2> DEFINE pa == p * a
             pd == p * d
             pp == p * paid
             pe == p * e
  <2>2. /\ pa \in Nat /\ pd \in Nat /\ pp \in Nat /\ pe \in Nat
        /\ pa + pd <= g /\ g + pp <= pe + pd /\ p * (paid + a) = pp + pa
    BY <1>1, <1>2, <1>3, <1>4, <2>1
  <2> HIDE DEF pa, pd, pp, pe
  <2>3. pp + pa <= pe
    BY <1>1, <2>2
  <2> QED
    BY <2>2, <2>3 DEF pe
<1>7. paid + a \in Int /\ e \in Int
  BY <1>1, <1>4
<1> QED
  BY <1>1, <1>5, <1>6, <1>7, SmallerFactor

-----------------------------------------------------------------------------
(* The theorems.                                                           *)

LEMMA InitIInv == Init => IInv
<1> SUFFICES ASSUME Init PROVE IInv
  OBVIOUS
<1>1. EscrowInv /\ calls = 0
  BY InitEscrowInv DEF Init, EscrowInit
<1>2. poolInfo = <<>> /\ Len(poolInfo) = 0 /\ poolInfo \in Seq(PoolInfo) /\ Pids = {}
  BY DEF Init, Pids
<1>3. [RPamount |-> 0, amount |-> 0, rewardDebt |-> 0, RPrewardDebt |-> 0] \in StakerInfo
  BY DEF StakerInfo
<1>4. Types
  <2>1. /\ stakerInfo \in [PoolIds -> [Users -> StakerInfo]]
        /\ lpBalance \in [LPTokens -> Nat] /\ wallet \in [Users -> [LPTokens -> Nat]]
    BY <1>3, RdLPStakingAssumption DEF Init
  <2>2. /\ totalAllocPoint = 0 /\ withdrawable = FALSE
        /\ emitted = 0 /\ paid = 0 /\ stakes = 0
        /\ esRADTPerSecond \in Nat /\ RPPerSecond \in Nat /\ MaxPools \in Nat
    BY RdLPStakingAssumption DEF Init
  <2>3. Len(poolInfo) <= MaxPools /\ stakes <= calls
    BY <1>1, <1>2, <2>2
  <2> QED
    BY <1>2, <2>1, <2>2, <2>3 DEF Types
<1>5. AllSettled /\ OnePoolPerToken /\ PowerAddsUp
  BY <1>2 DEF AllSettled, OnePoolPerToken, PowerAddsUp
<1>6. UnusedPools
  BY <1>2 DEF Init, UnusedPools
<1>7. PointsAddUp
  <2>1. \A f : SumTo(f, 0) = 0
    BY SumToUnfolds
  <2> QED
    BY <1>2, <2>1 DEF Init, PointsAddUp
<1> QED
  BY <1>1, <1>4, <1>5, <1>6, <1>7 DEF IInv

LEMMA StutterStep ==
  ASSUME IInv, UNCHANGED vars
  PROVE  IInv'
<1>1. EscrowInv'
  <2>1. /\ now' \in 0 .. MaxTime /\ now' >= now /\ calls' \in 0 .. MaxCalls /\ UNCHANGED escrow
    BY EsRADTAssumption DEF IInv, EscrowInv, EscrowTypeOK, vars, escrowVars
  <2> QED
    BY <2>1, PassingStep DEF IInv
<1>2. UNCHANGED <<calls, poolInfo, totalAllocPoint, stakerInfo, esRADTPerSecond, RPPerSecond,
                  withdrawable, lpBalance, wallet, emitted, paid, stakes>>
  BY DEF vars, escrowVars, stakingState, stakingHistory
<1>3. Types'
  BY <1>2 DEF IInv, Types
<1> QED
  BY <1>1, <1>2, <1>3 DEF IInv, AllSettled, IsSettled, Share, OnePoolPerToken, UnusedPools,
                          PointsAddUp, PowerAddsUp, Pids

LEMMA NextStep == IInv /\ [Next]_vars => IInv'
<1> SUFFICES ASSUME IInv, [Next]_vars PROVE IInv'
  OBVIOUS
<1>1. CASE UNCHANGED vars
  BY <1>1, StutterStep
<1>2. CASE Next
  <2>1. CASE /\ EscrowNext
             /\ emitted' = emitted + esRADTPerSecond * Multiplier(now, now')
             /\ UNCHANGED <<stakingState, paid, stakes>>
    BY <2>1, EscrowNextStep
  <2>2. CASE \E open \in BOOLEAN : SetWithdrawable(open)
    BY <2>2, SetWithdrawableStep
  <2>3. CASE \E amount \in Supplies : SupplyRewards(amount)
    BY <2>3, SupplyRewardsStep
  <2>4. CASE \E rate, rpRate \in Rates : SetRates(rate, rpRate)
    BY <2>4, SetRatesStep
  <2>5. CASE \E allocPoint \in AllocPoints, lp \in LPTokens : Add(allocPoint, lp)
    BY <2>5, AddStep
  <2>6. CASE \E i \in Pids : \E allocPoint \in AllocPoints : SetAllocPoint(i, allocPoint)
    BY <2>6, SetAllocPointStep
  <2>7. CASE \E i \in Pids : UpdatePool(i)
    BY <2>7, UpdatePoolStep
  <2>8. CASE \E u \in Users, i \in Pids : \E amount \in Deposits : Deposit(u, i, amount)
    BY <2>8, DepositStep
  <2>9. CASE \E u \in Users, i \in Pids :
               \E amount \in 0 .. stakerInfo[i][u].amount : Withdraw(u, i, amount)
    BY <2>9, WithdrawStep
  <2> QED
    BY <1>2, <2>1, <2>2, <2>3, <2>4, <2>5, <2>6, <2>7, <2>8, <2>9 DEF Next
<1> QED
  BY <1>1, <1>2

\* The inductive invariant holds of every behaviour of the contracts.
THEOREM Invariance == Spec => []IInv
<1>1. Init => IInv
  BY InitIInv
<1>2. IInv /\ [Next]_vars => IInv'
  BY NextStep
<1> QED
  BY <1>1, <1>2, PTL DEF Spec

\* No debt is above its staker's share, so that no deposit or withdrawal is
\* locked out by a checked subtraction (rdLPChef.sol:1099, 1130).
THEOREM TypeCorrect == Spec => []TypeOK
<1>1. IInv => TypeOK
  BY TypeOKByParts
<1> QED
  BY <1>1, Invariance, PTL

\* The total the rates are divided by is the sum of the pools' points,
\* through any additions and changes of pools (rdLPChef.sol:930).
THEOREM PointsAreAddedUp == Spec => []PointsAddUp
<1>1. IInv => PointsAddUp
  BY DEF IInv
<1> QED
  BY <1>1, Invariance, PTL

\* A pool divides its rewards by the stakes and points its stakers hold
\* (rdLPChef.sol:1077, 1109, 1135).
THEOREM PowerIsAddedUp == Spec => []PowerAddsUp
<1>1. IInv => PowerAddsUp
  BY DEF IInv
<1> QED
  BY <1>1, Invariance, PTL

\* Only early exits with the penalty take RADT that is owed to others
\* (esRADT.sol:128-146).
THEOREM Backed == Spec => []OnlyEarlyExitsAreUnbacked
<1>1. IInv => OnlyEarlyExitsAreUnbacked
  BY DEF IInv, EscrowInv
<1> QED
  BY <1>1, Invariance, PTL

\* Claims in parts come neither ahead of the schedule nor late
\* (esRADT.sol:103-126).
THEOREM OnTime == Spec => []ClaimsKeepTheSchedule
<1>1. IInv => ClaimsKeepTheSchedule
  BY SchedulesSuffice DEF IInv
<1> QED
  BY <1>1, Invariance, PTL

\* Rewards paid and owed stay within what the rates emitted, each second at the
\* rate and the points that held then, and a unit of rounding for every change
\* of a stake (rdLPChef.sol:970, 996, 1016).
THEOREM EmissionBounds == Spec => []RewardsWithinEmission
<1>1. Init => EInv
  BY InitEInv
<1>2. IInv /\ IInv' /\ EInv /\ [Next]_vars => EInv'
  BY EInvStep
<1>3. IInv /\ EInv => RewardsWithinEmission
  BY FundedSuffices
<1> QED
  BY <1>1, <1>2, <1>3, Invariance, PTL DEF Spec
=============================================================================
