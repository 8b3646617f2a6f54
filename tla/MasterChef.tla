----------------------------- MODULE MasterChef -----------------------------
(***************************************************************************)
(* The MasterChef (src/src/policies/MasterChef.sol): it shares the rewards *)
(* the Leverager sends it among the stakers of its pools, through one      *)
(* accumulator per pool.                                                   *)
(*                                                                         *)
(* One action is one transaction; a transaction that reverts is an action  *)
(* whose guard fails.  Amounts are naturals (overflow of 256 bits is out   *)
(* of reach of the tokens' supplies), MULTIPLIER is small enough for       *)
(* divisions to be inexact.  Roles and the kernel are left out: the admin  *)
(* acts at any time.  The reward token is not staked in any pool, as in    *)
(* script/DeployMasterChef.s.sol.                                          *)
(***************************************************************************)
EXTENDS Sums

CONSTANTS
  Users,        \* accounts that stake
  LPTokens,     \* tokens that may be staked
  MULTIPLIER,   \* precision of the accumulators
  AllocPoints,  \* allocation points the admin may give a pool
  MaxPools,     \* bound: how many pools the admin may add
  LPFunds,      \* LP tokens each user starts with, of each kind
  RewardFunds,  \* bound: the rewards there are to receive
  MaxMoves      \* bound: how many times users stake or unstake

ASSUME MasterChefAssumption ==
  /\ IsFiniteSet(Users)
  /\ MULTIPLIER \in Nat \ {0}
  /\ AllocPoints \subseteq Nat
  /\ MaxPools \in Nat /\ LPFunds \in Nat /\ RewardFunds \in Nat /\ MaxMoves \in Nat

VARIABLES
  poolInfo,         \* the pools; pool pid of the code is poolInfo[pid + 1]
  totalAllocPoint,
  userInfo,         \* [pool][user]
  lpBalance,        \* [LP token]: the contract's balance
  rewardBalance,    \* the contract's balance of rewardToken
  wallet,           \* [user][LP token]: LP tokens not staked
  funds,            \* rewards that have not been sent yet
  (* History, read by the properties and by bounds only. *)
  paid,             \* [pool][user]: rewards claimed so far
  received,         \* rewards received so far
  moves,            \* stakes and unstakes so far
  lpRecovered       \* the admin has taken LP tokens out

chef == <<poolInfo, totalAllocPoint, userInfo, lpBalance, rewardBalance>>
history == <<paid, received, moves, lpRecovered>>
vars == <<chef, wallet, funds, history>>

PoolIds == 1 .. MaxPools
PoolInfo == [lpToken : LPTokens, allocPoint : Nat, accTokenPerShare : Nat]
UserInfo == [amount : Nat, pending : Nat, rewardDebt : Nat]

Init ==
  /\ poolInfo = <<>>
  /\ totalAllocPoint = 0
  /\ userInfo = [i \in PoolIds |-> [u \in Users |->
                   [amount |-> 0, pending |-> 0, rewardDebt |-> 0]]]
  /\ lpBalance = [lp \in LPTokens |-> 0]
  /\ rewardBalance = 0
  /\ wallet = [u \in Users |-> [lp \in LPTokens |-> LPFunds]]
  /\ funds = RewardFunds
  /\ paid = [i \in PoolIds |-> [u \in Users |-> 0]]
  /\ received = 0
  /\ moves = 0
  /\ lpRecovered = FALSE

-----------------------------------------------------------------------------
(* The admin.                                                              *)

Add(allocPoint, lp) ==
  /\ Len(poolInfo) < MaxPools
  /\ totalAllocPoint' = totalAllocPoint + allocPoint
  /\ poolInfo' = Append(poolInfo, [lpToken |-> lp, allocPoint |-> allocPoint,
                                   accTokenPerShare |-> 0])
  /\ UNCHANGED <<userInfo, lpBalance, rewardBalance, wallet, funds, history>>

\* Mutated form of SetAllocPoint: the pool's old points stay in the total.
SetAdding(i, allocPoint) ==
  /\ totalAllocPoint' = totalAllocPoint + allocPoint
  /\ poolInfo' = [poolInfo EXCEPT ![i].allocPoint = allocPoint]
  /\ UNCHANGED <<userInfo, lpBalance, rewardBalance, wallet, funds, history>>

SetAllocPoint(i, allocPoint) ==
  /\ totalAllocPoint' = totalAllocPoint - poolInfo[i].allocPoint + allocPoint
  /\ poolInfo' = [poolInfo EXCEPT ![i].allocPoint = allocPoint]
  /\ UNCHANGED <<userInfo, lpBalance, rewardBalance, wallet, funds, history>>

\* What the admin takes leaves the model.
RecoverReward(amount) ==
  /\ amount <= rewardBalance
  /\ rewardBalance' = rewardBalance - amount
  /\ UNCHANGED <<poolInfo, totalAllocPoint, userInfo, lpBalance, wallet, funds, history>>

RecoverLP(lp, amount) ==
  /\ amount <= lpBalance[lp]
  /\ lpBalance' = [lpBalance EXCEPT ![lp] = @ - amount]
  /\ lpRecovered' = TRUE
  /\ UNCHANGED <<poolInfo, totalAllocPoint, userInfo, rewardBalance, wallet, funds,
                 paid, received, moves>>

-----------------------------------------------------------------------------
(* Rewards come in.  The division by the pool's balance makes the whole    *)
(* call revert while any pool is empty, or has all points taken away.      *)

\* Mutated form of PerShare: the whole reward goes to every pool.
PerShareUnweighted(pool, amount) ==
  (amount * MULTIPLIER) \div lpBalance[pool.lpToken]

PerShare(pool, amount) ==
  (amount * pool.allocPoint * MULTIPLIER) \div (totalAllocPoint * lpBalance[pool.lpToken])

ReceiveReward(amount) ==
  /\ amount <= funds
  /\ \A i \in 1 .. Len(poolInfo) : totalAllocPoint * lpBalance[poolInfo[i].lpToken] > 0
  /\ poolInfo' = [i \in 1 .. Len(poolInfo) |->
       [poolInfo[i] EXCEPT !.accTokenPerShare = @ + PerShare(poolInfo[i], amount)]]
  /\ rewardBalance' = rewardBalance + amount
  /\ funds' = funds - amount
  /\ received' = received + amount
  /\ UNCHANGED <<totalAllocPoint, userInfo, lpBalance, wallet, paid, moves, lpRecovered>>

\* receiveReward of another token only takes it, like a plain transfer.
ReceiveLP(u, lp, amount) ==
  /\ amount <= wallet[u][lp]
  /\ wallet' = [wallet EXCEPT ![u][lp] = @ - amount]
  /\ lpBalance' = [lpBalance EXCEPT ![lp] = @ + amount]
  /\ UNCHANGED <<poolInfo, totalAllocPoint, userInfo, rewardBalance, funds, history>>

-----------------------------------------------------------------------------
(* Stakers.                                                                *)

\* What amount is worth at the pool's accumulator.
Accrued(pool, amount) == (amount * pool.accTokenPerShare) \div MULTIPLIER

\* Mutated form of Updated: the debt is left out.
UpdatedInFull(pool, user) == [user EXCEPT !.pending = @ + Accrued(pool, user.amount)]

\* _update: what accrued since the last debt becomes pending.
Updated(pool, user) ==
  [user EXCEPT !.pending = @ + Accrued(pool, user.amount) - user.rewardDebt]

\* Mutated form of Restaked: the debt stays that of the old amount.
RestakedWithOldDebt(pool, user, amount) ==
  [Updated(pool, user) EXCEPT !.amount = amount, !.rewardDebt = Accrued(pool, user.amount)]

\* _update, then a new amount and the debt that goes with it.
Restaked(pool, user, amount) ==
  [Updated(pool, user) EXCEPT !.amount = amount, !.rewardDebt = Accrued(pool, amount)]

Stake(u, i, amount) ==
  LET lp == poolInfo[i].lpToken
      user == userInfo[i][u]
  IN /\ moves < MaxMoves
     /\ amount # 0 /\ amount <= wallet[u][lp]
     /\ wallet' = [wallet EXCEPT ![u][lp] = @ - amount]
     /\ lpBalance' = [lpBalance EXCEPT ![lp] = @ + amount]
     /\ userInfo' = [userInfo EXCEPT ![i][u] =
                       Restaked(poolInfo[i], user, user.amount + amount)]
     /\ moves' = moves + 1
     /\ UNCHANGED <<poolInfo, totalAllocPoint, rewardBalance, funds, paid, received, lpRecovered>>

\* Mutated form of Unstake: the stake is not lowered.
UnstakeKeeping(u, i, amount) ==
  LET lp == poolInfo[i].lpToken
      user == userInfo[i][u]
  IN /\ moves < MaxMoves
     /\ amount # 0 /\ amount <= user.amount /\ amount <= lpBalance[lp]
     /\ wallet' = [wallet EXCEPT ![u][lp] = @ + amount]
     /\ lpBalance' = [lpBalance EXCEPT ![lp] = @ - amount]
     /\ userInfo' = [userInfo EXCEPT ![i][u] = Restaked(poolInfo[i], user, user.amount)]
     /\ moves' = moves + 1
     /\ UNCHANGED <<poolInfo, totalAllocPoint, rewardBalance, funds, paid, received, lpRecovered>>

\* The LP tokens are there unless the admin has taken them.
Unstake(u, i, amount) ==
  LET lp == poolInfo[i].lpToken
      user == userInfo[i][u]
  IN /\ moves < MaxMoves
     /\ amount # 0 /\ amount <= user.amount /\ amount <= lpBalance[lp]
     /\ wallet' = [wallet EXCEPT ![u][lp] = @ + amount]
     /\ lpBalance' = [lpBalance EXCEPT ![lp] = @ - amount]
     /\ userInfo' = [userInfo EXCEPT ![i][u] =
                       Restaked(poolInfo[i], user, user.amount - amount)]
     /\ moves' = moves + 1
     /\ UNCHANGED <<poolInfo, totalAllocPoint, rewardBalance, funds, paid, received, lpRecovered>>

\* Mutated form of Claim: the debt is not brought up to date.
ClaimWithoutDebt(u, i) ==
  LET due == Updated(poolInfo[i], userInfo[i][u]).pending
  IN /\ due <= rewardBalance
     /\ userInfo' = [userInfo EXCEPT ![i][u].pending = 0]
     /\ rewardBalance' = rewardBalance - due
     /\ paid' = [paid EXCEPT ![i][u] = @ + due]
     /\ UNCHANGED <<poolInfo, totalAllocPoint, lpBalance, wallet, funds,
                    received, moves, lpRecovered>>

\* The transfer reverts when the contract does not hold what is due.
Claim(u, i) ==
  LET user == userInfo[i][u]
      due == Updated(poolInfo[i], user).pending
  IN /\ due <= rewardBalance
     /\ userInfo' = [userInfo EXCEPT ![i][u] =
                       [Restaked(poolInfo[i], user, user.amount) EXCEPT !.pending = 0]]
     /\ rewardBalance' = rewardBalance - due
     /\ paid' = [paid EXCEPT ![i][u] = @ + due]
     /\ UNCHANGED <<poolInfo, totalAllocPoint, lpBalance, wallet, funds,
                    received, moves, lpRecovered>>

Next ==
  \/ \E allocPoint \in AllocPoints, lp \in LPTokens : Add(allocPoint, lp)
  \/ \E i \in 1 .. Len(poolInfo), allocPoint \in AllocPoints : SetAllocPoint(i, allocPoint)
  \/ \E amount \in 1 .. rewardBalance : RecoverReward(amount)
  \/ \E lp \in LPTokens : \E amount \in 1 .. lpBalance[lp] : RecoverLP(lp, amount)
  \/ \E amount \in 0 .. funds : ReceiveReward(amount)
  \/ \E u \in Users, lp \in LPTokens : \E amount \in 1 .. wallet[u][lp] : ReceiveLP(u, lp, amount)
  \/ \E u \in Users, i \in 1 .. Len(poolInfo) :
       \/ \E amount \in 1 .. wallet[u][poolInfo[i].lpToken] : Stake(u, i, amount)
       \/ \E amount \in 1 .. userInfo[i][u].amount : Unstake(u, i, amount)
       \/ Claim(u, i)

Spec == Init /\ [][Next]_vars

-----------------------------------------------------------------------------
(* Properties.                                                             *)

\* Types; in particular what accrued is never less than the debt, so that
\* _update's checked subtraction cannot revert and lock a stake in.
TypeOK ==
  /\ poolInfo \in Seq(PoolInfo) /\ Len(poolInfo) <= MaxPools
  /\ totalAllocPoint \in Nat
  /\ userInfo \in [PoolIds -> [Users -> UserInfo]]
  /\ lpBalance \in [LPTokens -> Nat]
  /\ rewardBalance \in Nat
  /\ wallet \in [Users -> [LPTokens -> Nat]]
  /\ funds \in Nat
  /\ paid \in [PoolIds -> [Users -> Nat]]
  /\ received \in Nat /\ moves \in Nat /\ lpRecovered \in BOOLEAN
  /\ \A i \in 1 .. Len(poolInfo), u \in Users :
       userInfo[i][u].rewardDebt <= Accrued(poolInfo[i], userInfo[i][u].amount)

\* The counter totalAllocPoint is the sum of the pools' points, whatever the
\* admin added and changed (MasterChef.sol:143-161).
AllocationsAddUp ==
  totalAllocPoint = SumTo([i \in 1 .. Len(poolInfo) |-> poolInfo[i].allocPoint], Len(poolInfo))

\* What a user has earned in a pool so far, paid or not.
Earned(i, u) ==
  IF i > Len(poolInfo) THEN 0
  ELSE paid[i][u] + Updated(poolInfo[i], userInfo[i][u]).pending

Total(f) ==
  SumTo([i \in PoolIds |-> SumOver([u \in Users |-> f[i][u]], EnumerationOf(Users))], MaxPools)

\* Stakers never earn more than came in, except for one unit of rounding for
\* every time one of them changed a stake: the debt is rounded down as well.
\* Taking LP tokens out, which the admin may, breaks it: a share of a pool is
\* a share of its balance.
OverpaidByRoundingOnly ==
  ~lpRecovered =>
    Total([i \in PoolIds |-> [u \in Users |-> Earned(i, u)]]) <= received + moves

\* Pools that share an LP token do not touch each other's stakes: there is
\* always enough to unstake, unless the admin has taken LP tokens out.
StakesAreHeld ==
  ~lpRecovered =>
    \A lp \in LPTokens :
      Total([i \in PoolIds |-> [u \in Users |->
               IF i <= Len(poolInfo) /\ poolInfo[i].lpToken = lp
               THEN userInfo[i][u].amount ELSE 0]]) <= lpBalance[lp]

Ledger == INSTANCE RewardLedger WITH
  Accounts <- PoolIds \X Users,
  earned <- [a \in PoolIds \X Users |-> Earned(a[1], a[2])],
  paid <- [a \in PoolIds \X Users |-> paid[a[1]][a[2]]]

\* Staking, unstaking, new points, new pools and LP tokens coming and going
\* change nobody's earnings, and a claim pays exactly what was earned.
EarningsAreKept == Ledger!Spec
=============================================================================
