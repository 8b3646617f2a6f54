-------------------------- MODULE MasterChefProofs --------------------------
(***************************************************************************)
(* Theorems about MasterChef for any users, LP tokens, precision and       *)
(* allocation points.  What a user earned depends on the pool and on the   *)
(* user's record only; the functions on records are dealt with first, then *)
(* each action.                                                            *)
(***************************************************************************)
EXTENDS MasterChef, SumsProofs

-----------------------------------------------------------------------------
(* Divisions.                                                              *)

\* Rounding down is monotone.
LEMMA QuotientsAreMonotone ==
  ASSUME NEW x \in Nat, NEW y \in Nat, x <= y, NEW c \in Nat \ {0}
  PROVE  x \div c \in Nat /\ y \div c \in Nat /\ x \div c <= y \div c
<1> DEFINE p == x \div c
           q == y \div c
<1>1. p \in Nat /\ q \in Nat /\ p * c <= x /\ y < (q + 1) * c
  OBVIOUS
<1> HIDE DEF p, q
<1>2. p * c < (q + 1) * c
  BY <1>1
<1>3. p < q + 1
  BY <1>1, <1>2
<1>4. p <= q
  BY <1>1, <1>3
<1> QED
  BY <1>1, <1>4 DEF p, q

\* A stake is worth a natural amount, and more as the accumulator grows.
LEMMA AccruedGrows ==
  ASSUME NEW pool \in PoolInfo, NEW later \in PoolInfo, NEW amount \in Nat,
         pool.accTokenPerShare <= later.accTokenPerShare
  PROVE  /\ Accrued(pool, amount) \in Nat
         /\ Accrued(later, amount) \in Nat
         /\ Accrued(pool, amount) <= Accrued(later, amount)
<1> DEFINE a == pool.accTokenPerShare
           b == later.accTokenPerShare
<1>1. a \in Nat /\ b \in Nat /\ a <= b /\ MULTIPLIER \in Nat \ {0}
  BY MasterChefAssumption DEF PoolInfo
<1>2. Accrued(pool, amount) = (amount * a) \div MULTIPLIER
      /\ Accrued(later, amount) = (amount * b) \div MULTIPLIER
  BY DEF Accrued
<1> HIDE DEF a, b
<1>3. amount * a \in Nat /\ amount * b \in Nat /\ amount * a <= amount * b
  BY <1>1
<1> QED
  BY <1>1, <1>2, <1>3, QuotientsAreMonotone

-----------------------------------------------------------------------------
(* The internal functions on a user's record.                              *)

IsSettled(pool, user) == user.rewardDebt <= Accrued(pool, user.amount)

\* _update never reverts on a settled record, and leaves a natural pending.
LEMMA UpdatedIsNat ==
  ASSUME NEW pool \in PoolInfo, NEW user \in UserInfo, IsSettled(pool, user)
  PROVE  /\ Updated(pool, user) \in UserInfo
         /\ Updated(pool, user).pending = user.pending + Accrued(pool, user.amount)
                                          - user.rewardDebt
         /\ Updated(pool, user).pending \in Nat
         /\ Updated(pool, user).amount = user.amount
<1> DEFINE due == user.pending + Accrued(pool, user.amount) - user.rewardDebt
<1>1. user.amount \in Nat /\ user.pending \in Nat /\ user.rewardDebt \in Nat
  BY DEF UserInfo
<1>2. pool.accTokenPerShare <= pool.accTokenPerShare
  BY DEF PoolInfo
<1>3. Accrued(pool, user.amount) \in Nat
  BY <1>1, <1>2, AccruedGrows
<1>4. due \in Nat
  BY <1>1, <1>3 DEF IsSettled
<1>5. Updated(pool, user) = [user EXCEPT !.pending = due]
  BY DEF Updated
<1> HIDE DEF due
<1>6. Updated(pool, user) \in UserInfo /\ Updated(pool, user).pending = due
      /\ Updated(pool, user).amount = user.amount
  BY <1>4, <1>5 DEF UserInfo
<1> QED
  BY <1>4, <1>6 DEF due

\* Staking, unstaking and claiming leave a settled record with the new amount,
\* whose pending is what _update made of the old one.
LEMMA RestakedIsSettled ==
  ASSUME NEW pool \in PoolInfo, NEW user \in UserInfo, IsSettled(pool, user),
         NEW amount \in Nat
  PROVE  LET new == Restaked(pool, user, amount)
         IN  /\ new \in UserInfo
             /\ new.amount = amount
             /\ new.rewardDebt = Accrued(pool, amount)
             /\ new.pending = Updated(pool, user).pending
             /\ Accrued(pool, amount) \in Nat
<1> DEFINE up == Updated(pool, user)
           debt == Accrued(pool, amount)
<1>1. debt \in Nat
  <2>1. pool.accTokenPerShare <= pool.accTokenPerShare
    BY DEF PoolInfo
  <2> QED
    BY <2>1, AccruedGrows
<1>2. up \in UserInfo
  BY UpdatedIsNat
<1>3. Restaked(pool, user, amount) = [up EXCEPT !.amount = amount, !.rewardDebt = debt]
  BY DEF Restaked
<1> HIDE DEF up, debt
<1>4. LET new == Restaked(pool, user, amount)
      IN  /\ new \in UserInfo /\ new.amount = amount
          /\ new.rewardDebt = debt /\ new.pending = up.pending
  BY <1>1, <1>2, <1>3 DEF UserInfo
<1> QED
  BY <1>1, <1>4 DEF up, debt

-----------------------------------------------------------------------------
(* The inductive invariant.                                                *)

\* Records of pools the admin has not added yet are blank.
UnusedPools ==
  \A i \in PoolIds, u \in Users :
    i > Len(poolInfo) => userInfo[i][u].amount = 0 /\ userInfo[i][u].pending = 0
                         /\ userInfo[i][u].rewardDebt = 0 /\ paid[i][u] = 0

Settled ==
  \A i \in 1 .. Len(poolInfo), u \in Users : IsSettled(poolInfo[i], userInfo[i][u])

Types ==
  /\ poolInfo \in Seq(PoolInfo) /\ Len(poolInfo) <= MaxPools
  /\ totalAllocPoint \in Nat
  /\ userInfo \in [PoolIds -> [Users -> UserInfo]]
  /\ lpBalance \in [LPTokens -> Nat]
  /\ rewardBalance \in Nat
  /\ wallet \in [Users -> [LPTokens -> Nat]]
  /\ funds \in Nat
  /\ paid \in [PoolIds -> [Users -> Nat]]
  /\ received \in Nat /\ moves \in Nat /\ lpRecovered \in BOOLEAN

IInv == Types /\ Settled /\ UnusedPools /\ AllocationsAddUp

LEMMA TypeOKByParts == TypeOK <=> Types /\ Settled
BY DEF TypeOK, Types, Settled, IsSettled

\* Pools that exist have an index within the bound.
LEMMA PoolsAreTyped ==
  ASSUME Types
  PROVE  /\ Len(poolInfo) \in Nat /\ MaxPools \in Nat
         /\ \A i \in 1 .. Len(poolInfo) : i \in PoolIds /\ poolInfo[i] \in PoolInfo
BY MasterChefAssumption DEF Types, PoolIds

LEMMA EarnedIsNat ==
  ASSUME IInv, NEW i \in PoolIds, NEW u \in Users
  PROVE  Earned(i, u) \in Nat
<1>1. CASE i > Len(poolInfo)
  BY <1>1 DEF Earned
<1>2. CASE ~(i > Len(poolInfo))
  <2>1. i \in 1 .. Len(poolInfo)
    BY <1>2, PoolsAreTyped DEF IInv, PoolIds
  <2>2. poolInfo[i] \in PoolInfo /\ userInfo[i][u] \in UserInfo /\ paid[i][u] \in Nat
    BY <2>1, PoolsAreTyped DEF IInv, Types
  <2>3. Updated(poolInfo[i], userInfo[i][u]).pending \in Nat
    BY <2>1, <2>2, UpdatedIsNat DEF IInv, Settled
  <2> QED
    BY <1>2, <2>2, <2>3 DEF Earned
<1> QED
  BY <1>1, <1>2

\* Accumulators that stay, and new ones nobody has a stake in, change nobody's
\* earnings: the admin and whoever sends LP tokens do no more than that.
LEMMA EarningsUnmoved ==
  ASSUME IInv, userInfo' = userInfo, paid' = paid,
         poolInfo' \in Seq(PoolInfo), Len(poolInfo') >= Len(poolInfo),
         Len(poolInfo') <= MaxPools,
         \A i \in 1 .. Len(poolInfo) :
           poolInfo'[i].accTokenPerShare = poolInfo[i].accTokenPerShare
  PROVE  /\ Settled' /\ UnusedPools'
         /\ \A i \in PoolIds, u \in Users : Earned(i, u)' = Earned(i, u)
<1>1. Len(poolInfo) \in Nat /\ Len(poolInfo') \in Nat
      /\ \A i \in 1 .. Len(poolInfo') : poolInfo'[i] \in PoolInfo
  BY PoolsAreTyped DEF IInv
<1>2. UnusedPools'
  BY <1>1 DEF IInv, UnusedPools, PoolIds
<1>3. ASSUME NEW i \in 1 .. Len(poolInfo'), NEW u \in Users, i \in PoolIds
      PROVE  /\ IsSettled(poolInfo'[i], userInfo[i][u])
             /\ Earned(i, u)' = Earned(i, u)
  <2>0. userInfo[i][u] \in UserInfo /\ paid[i][u] \in Nat /\ poolInfo'[i] \in PoolInfo
    BY <1>1, <1>3 DEF IInv, Types
  <2>1. CASE i \in 1 .. Len(poolInfo)
    <3>1. \A x : Accrued(poolInfo'[i], x) = Accrued(poolInfo[i], x)
      BY <2>1 DEF Accrued
    <3>2. IsSettled(poolInfo'[i], userInfo[i][u])
      BY <2>1, <3>1 DEF IInv, Settled, IsSettled
    <3>3. Updated(poolInfo'[i], userInfo[i][u]) = Updated(poolInfo[i], userInfo[i][u])
      BY <3>1 DEF Updated
    <3> QED
      BY <1>1, <2>1, <3>2, <3>3 DEF Earned
  <2>2. CASE i > Len(poolInfo)
    <3>1. /\ userInfo[i][u].amount = 0 /\ userInfo[i][u].pending = 0
          /\ userInfo[i][u].rewardDebt = 0 /\ paid[i][u] = 0
      BY <1>3, <2>2 DEF IInv, UnusedPools
    <3>2. Accrued(poolInfo'[i], 0) = 0
      <4>1. poolInfo'[i].accTokenPerShare \in Nat /\ MULTIPLIER \in Nat \ {0}
        BY <2>0, MasterChefAssumption DEF PoolInfo
      <4>2. 0 * poolInfo'[i].accTokenPerShare = 0 /\ 0 \div MULTIPLIER = 0
        BY <4>1
      <4> QED
        BY <4>2 DEF Accrued
    <3>3. IsSettled(poolInfo'[i], userInfo[i][u])
      BY <3>1, <3>2 DEF IsSettled
    <3>4. Updated(poolInfo'[i], userInfo[i][u]).pending = 0
      BY <2>0, <3>1, <3>2, <3>3, UpdatedIsNat
    <3> QED
      BY <1>1, <2>2, <3>1, <3>3, <3>4 DEF Earned
  <2> QED
    BY <1>1, <1>3, <2>1, <2>2
<1>4. Types
  BY DEF IInv
<1>5. \A i \in PoolIds, u \in Users : i > Len(poolInfo') => Earned(i, u)' = Earned(i, u)
  BY <1>1 DEF Earned, PoolIds
<1>6. \A i \in PoolIds, u \in Users : Earned(i, u)' = Earned(i, u)
  BY <1>1, <1>3, <1>5 DEF PoolIds
<1>7. \A i \in 1 .. Len(poolInfo') : i \in PoolIds
  BY <1>1, MasterChefAssumption DEF PoolIds
<1> QED
  BY <1>2, <1>3, <1>6, <1>7 DEF Settled

\* A change of one record of one pool, which is all that stakers do, leaves
\* everybody else's earnings alone.
LEMMA OthersUnmoved ==
  ASSUME IInv, NEW i \in 1 .. Len(poolInfo), NEW u \in Users,
         NEW new \in UserInfo, IsSettled(poolInfo[i], new),
         poolInfo' = poolInfo,
         userInfo'[i][u] = new,
         \A j \in PoolIds, v \in Users :
           j # i \/ v # u => userInfo'[j][v] = userInfo[j][v] /\ paid'[j][v] = paid[j][v]
  PROVE  /\ Settled' /\ UnusedPools'
         /\ \A j \in PoolIds, v \in Users :
              j # i \/ v # u => Earned(j, v)' = Earned(j, v)
         /\ Earned(i, u)' = paid'[i][u] + Updated(poolInfo[i], new).pending
<1>1. Len(poolInfo) \in Nat /\ i \in PoolIds
  BY PoolsAreTyped DEF IInv
<1>2. Settled'
  <2>1. SUFFICES ASSUME NEW j \in 1 .. Len(poolInfo), NEW v \in Users
                 PROVE  IsSettled(poolInfo[j], userInfo'[j][v])
    BY DEF Settled
  <2>2. j \in PoolIds /\ IsSettled(poolInfo[j], userInfo[j][v])
    BY PoolsAreTyped DEF IInv, Settled
  <2> QED
    BY <2>2
<1>3. UnusedPools'
  <2>1. SUFFICES ASSUME NEW j \in PoolIds, NEW v \in Users, j > Len(poolInfo)
                 PROVE  /\ userInfo'[j][v].amount = 0 /\ userInfo'[j][v].pending = 0
                        /\ userInfo'[j][v].rewardDebt = 0 /\ paid'[j][v] = 0
    BY DEF UnusedPools
  <2>2. j # i
    BY <1>1, <2>1
  <2> QED
    BY <2>1, <2>2 DEF IInv, UnusedPools
<1>4. ASSUME NEW j \in PoolIds, NEW v \in Users, j # i \/ v # u
      PROVE  Earned(j, v)' = Earned(j, v)
  BY <1>4 DEF Earned
<1>5. Earned(i, u)' = paid'[i][u] + Updated(poolInfo[i], new).pending
  BY <1>1 DEF Earned
<1> QED
  BY <1>2, <1>3, <1>4, <1>5

\* The total of the points does not change with the accumulators.
LEMMA SamePoints ==
  ASSUME AllocationsAddUp, Types, poolInfo' \in Seq(PoolInfo), Len(poolInfo') = Len(poolInfo),
         \A i \in 1 .. Len(poolInfo) : poolInfo'[i].allocPoint = poolInfo[i].allocPoint,
         totalAllocPoint' = totalAllocPoint
  PROVE  AllocationsAddUp'
<1> DEFINE n == Len(poolInfo)
           f == [i \in 1 .. n |-> poolInfo[i].allocPoint]
           g == [i \in 1 .. n |-> poolInfo'[i].allocPoint]
<1>1. n \in Nat
  BY PoolsAreTyped
<1>2. f = g
  OBVIOUS
<1>3. totalAllocPoint = SumTo(f, n)
  BY DEF AllocationsAddUp
<1>4. AllocationsAddUp' <=> totalAllocPoint' = SumTo(g, n)
  BY DEF AllocationsAddUp
<1> QED
  BY <1>2, <1>3, <1>4

-----------------------------------------------------------------------------
(* What a step does to the ledger.                                         *)

Earnings == [a \in PoolIds \X Users |-> Earned(a[1], a[2])]
Payments == [a \in PoolIds \X Users |-> paid[a[1]][a[2]]]

LedgerVars == <<received, Earnings, Payments>>

\* A step that changes nobody's earnings or payments does not show in the ledger.
LEMMA Unseen ==
  ASSUME received' = received, paid' = paid,
         \A i \in PoolIds, u \in Users : Earned(i, u)' = Earned(i, u)
  PROVE  LedgerVars' = LedgerVars
<1>1. Payments' = Payments
  BY DEF Payments
<1>2. \A a \in PoolIds \X Users : a[1] \in PoolIds /\ a[2] \in Users
  OBVIOUS
<1>3. Earnings' = Earnings
  BY <1>2 DEF Earnings
<1> QED
  BY <1>1, <1>3 DEF LedgerVars

-----------------------------------------------------------------------------
(* One lemma per action.                                                   *)

LEMMA AddStep ==
  ASSUME IInv, NEW allocPoint \in AllocPoints, NEW lp \in LPTokens, Add(allocPoint, lp)
  PROVE  IInv' /\ LedgerVars' = LedgerVars
<1> DEFINE n == Len(poolInfo)
           new == [lpToken |-> lp, allocPoint |-> allocPoint, accTokenPerShare |-> 0]
           f == [i \in 1 .. n |-> poolInfo[i].allocPoint]
           g == [i \in 1 .. (n + 1) |-> poolInfo'[i].allocPoint]
<1>1. allocPoint \in Nat /\ n \in Nat /\ MaxPools \in Nat /\ n < MaxPools
  BY MasterChefAssumption, PoolsAreTyped DEF IInv, Add
<1>2. new \in PoolInfo
  BY <1>1 DEF PoolInfo
<1>3. poolInfo \in Seq(PoolInfo) /\ poolInfo' = Append(poolInfo, new)
  BY DEF IInv, Types, Add
<1>4. /\ poolInfo' \in Seq(PoolInfo) /\ Len(poolInfo') = n + 1
      /\ \A i \in 1 .. n : poolInfo'[i] = poolInfo[i]
      /\ poolInfo'[n + 1] = new
  BY <1>2, <1>3
<1>5. Types'
  BY <1>1, <1>4 DEF IInv, Types, Add, history
<1>6. /\ Settled' /\ UnusedPools'
      /\ \A i \in PoolIds, u \in Users : Earned(i, u)' = Earned(i, u)
  BY <1>1, <1>4, EarningsUnmoved DEF Add, history
<1>7. AllocationsAddUp'
  <2>1. \A i \in 1 .. n : f[i] \in Nat /\ g[i] = f[i]
    BY <1>1, <1>4, PoolsAreTyped DEF IInv, PoolInfo
  <2>2. SumTo(f, n) = SumTo(g, n)
    BY <1>1, <2>1, SumToAgrees
  <2>3. g[n + 1] = allocPoint
    BY <1>1, <1>4
  <2>4. SumTo(g, n + 1) = SumTo(g, n) + g[n + 1]
    BY <1>1, SumToUnfolds
  <2>5. totalAllocPoint' = SumTo(f, n) + allocPoint
    BY DEF IInv, AllocationsAddUp, Add
  <2>6. AllocationsAddUp' <=> totalAllocPoint' = SumTo(g, n + 1)
    BY <1>4 DEF AllocationsAddUp
  <2> HIDE DEF f, g
  <2> QED
    BY <2>2, <2>3, <2>4, <2>5, <2>6
<1>8. LedgerVars' = LedgerVars
  BY <1>6, Unseen DEF Add, history
<1> QED
  BY <1>5, <1>6, <1>7, <1>8 DEF IInv

\* The counter covers the points of each pool, so that set cannot underflow.
LEMMA SetAllocPointStep ==
  ASSUME IInv, NEW i \in 1 .. Len(poolInfo), NEW allocPoint \in AllocPoints,
         SetAllocPoint(i, allocPoint)
  PROVE  IInv' /\ LedgerVars' = LedgerVars
<1> DEFINE n == Len(poolInfo)
           new == [poolInfo[i] EXCEPT !.allocPoint = allocPoint]
           f == [k \in 1 .. n |-> poolInfo[k].allocPoint]
           g == [k \in 1 .. n |-> poolInfo'[k].allocPoint]
<1>1. /\ allocPoint \in Nat /\ n \in Nat /\ n <= MaxPools /\ poolInfo \in Seq(PoolInfo)
      /\ \A k \in 1 .. n : poolInfo[k] \in PoolInfo /\ poolInfo[k].allocPoint \in Nat
  BY MasterChefAssumption, PoolsAreTyped DEF IInv, Types, PoolInfo
<1>2. /\ new \in PoolInfo /\ new.allocPoint = allocPoint
      /\ new.accTokenPerShare = poolInfo[i].accTokenPerShare
  BY <1>1 DEF PoolInfo
<1>3. poolInfo' = [poolInfo EXCEPT ![i] = new]
  BY DEF SetAllocPoint
<1> HIDE DEF new
<1>4. /\ poolInfo' \in Seq(PoolInfo) /\ Len(poolInfo') = n
      /\ poolInfo'[i] = new
      /\ \A k \in 1 .. n : k # i => poolInfo'[k] = poolInfo[k]
  BY <1>1, <1>2, <1>3
<1>5. /\ \A k \in 1 .. n : f[k] \in Nat /\ g[k] \in Nat /\ (k # i => f[k] = g[k])
      /\ f[i] = poolInfo[i].allocPoint /\ g[i] = allocPoint
  BY <1>1, <1>2, <1>4
<1>6. totalAllocPoint = SumTo(f, n)
      /\ totalAllocPoint' = totalAllocPoint - f[i] + allocPoint
  BY DEF IInv, AllocationsAddUp, SetAllocPoint
<1>7. AllocationsAddUp' <=> totalAllocPoint' = SumTo(g, n)
  BY <1>4 DEF AllocationsAddUp
<1>8. AllocationsAddUp' /\ totalAllocPoint' \in Nat
  <2> HIDE DEF f, g
  <2>1. SumTo(g, n) = SumTo(f, n) - f[i] + g[i]
    BY <1>1, <1>5, SumToChanges
  <2>2. SumTo(g, n) \in Nat
    <3>1. \A k \in 1 .. n : g[k] \in Nat
      BY <1>5
    <3>2. n \in 0 .. n
      BY <1>1
    <3> QED
      BY <1>1, <3>1, <3>2, SumToNat
  <2> QED
    BY <1>5, <1>6, <1>7, <2>1, <2>2
<1>9. Types'
  BY <1>1, <1>4, <1>8 DEF IInv, Types, SetAllocPoint, history
<1>10. /\ Settled' /\ UnusedPools'
       /\ \A k \in PoolIds, u \in Users : Earned(k, u)' = Earned(k, u)
  <2>1. \A k \in 1 .. n : poolInfo'[k].accTokenPerShare = poolInfo[k].accTokenPerShare
    BY <1>2, <1>4
  <2> QED
    BY <1>1, <1>4, <2>1, EarningsUnmoved DEF SetAllocPoint, history
<1>11. LedgerVars' = LedgerVars
  BY <1>10, Unseen DEF SetAllocPoint, history
<1> QED
  BY <1>8, <1>9, <1>10, <1>11 DEF IInv

\* Tokens that come and go otherwise are no part of anybody's earnings.
LEMMA TransferStep ==
  ASSUME IInv, NEW amount \in Nat,
         \/ RecoverReward(amount)
         \/ \E lp \in LPTokens : RecoverLP(lp, amount)
         \/ \E u \in Users, lp \in LPTokens : ReceiveLP(u, lp, amount)
  PROVE  IInv' /\ LedgerVars' = LedgerVars
<1>1. UNCHANGED <<poolInfo, totalAllocPoint, userInfo, paid, received>>
  BY DEF RecoverReward, RecoverLP, ReceiveLP, history
<1>2. /\ Len(poolInfo) \in Nat /\ Len(poolInfo) <= MaxPools /\ poolInfo \in Seq(PoolInfo)
  BY PoolsAreTyped DEF IInv, Types
<1>3. /\ Settled' /\ UnusedPools'
      /\ \A i \in PoolIds, u \in Users : Earned(i, u)' = Earned(i, u)
  BY <1>1, <1>2, EarningsUnmoved
<1>4. AllocationsAddUp'
  BY <1>1 DEF IInv, AllocationsAddUp
<1>5. Types'
  <2>1. CASE RecoverReward(amount)
    BY <2>1 DEF IInv, Types, RecoverReward, history
  <2>2. ASSUME NEW lp \in LPTokens, RecoverLP(lp, amount) PROVE Types'
    BY <2>2 DEF IInv, Types, RecoverLP
  <2>3. ASSUME NEW u \in Users, NEW lp \in LPTokens, ReceiveLP(u, lp, amount) PROVE Types'
    <3>1. wallet' \in [Users -> [LPTokens -> Nat]] /\ lpBalance' \in [LPTokens -> Nat]
      BY <2>3 DEF IInv, Types, ReceiveLP
    <3> QED
      BY <2>3, <3>1 DEF IInv, Types, ReceiveLP, history
  <2> QED
    BY <2>1, <2>2, <2>3
<1>6. LedgerVars' = LedgerVars
  BY <1>1, <1>3, Unseen
<1> QED
  BY <1>3, <1>4, <1>5, <1>6 DEF IInv

\* Rewards only add to the accumulators, so every record stays settled and
\* nobody's earnings shrink.
LEMMA ReceiveRewardStep ==
  ASSUME IInv, NEW amount \in Nat, ReceiveReward(amount)
  PROVE  IInv' /\ [Ledger!Next]_LedgerVars
<1> DEFINE n == Len(poolInfo)
           share(i) == PerShare(poolInfo[i], amount)
<1>1. /\ n \in Nat /\ n <= MaxPools
      /\ poolInfo \in Seq(PoolInfo)
      /\ \A i \in 1 .. n : i \in PoolIds /\ poolInfo[i] \in PoolInfo
  BY PoolsAreTyped DEF IInv, Types
<1>2. ASSUME NEW i \in 1 .. n PROVE share(i) \in Nat /\ (amount = 0 => share(i) = 0)
  <2> DEFINE d == totalAllocPoint * lpBalance[poolInfo[i].lpToken]
             x == amount * poolInfo[i].allocPoint * MULTIPLIER
  <2>1. poolInfo[i].lpToken \in LPTokens /\ poolInfo[i].allocPoint \in Nat
    BY <1>1 DEF PoolInfo
  <2>2. /\ MULTIPLIER \in Nat /\ totalAllocPoint \in Nat
        /\ lpBalance[poolInfo[i].lpToken] \in Nat
    BY <2>1, MasterChefAssumption DEF IInv, Types
  <2>3. d \in Nat
    BY <2>2
  <2>4. d > 0
    BY DEF ReceiveReward
  <2>5. x \in Nat
    BY <2>1, <2>2
  <2>6. amount = 0 => x = 0
    BY <2>1, <2>2
  <2>7. share(i) = x \div d
    BY DEF PerShare
  <2> HIDE DEF x, d, share
  <2> QED
    BY <2>3, <2>4, <2>5, <2>6, <2>7
<1>3. \A i \in 1 .. n :
        /\ poolInfo'[i] \in PoolInfo
        /\ poolInfo'[i].allocPoint = poolInfo[i].allocPoint
        /\ poolInfo'[i].accTokenPerShare = poolInfo[i].accTokenPerShare + share(i)
        /\ poolInfo[i].accTokenPerShare \in Nat
  <2> HIDE DEF share
  <2>1. TAKE i \in 1 .. n
  <2>2. poolInfo'[i] = [poolInfo[i] EXCEPT !.accTokenPerShare = @ + share(i)]
    BY DEF ReceiveReward, share
  <2>3. poolInfo[i].accTokenPerShare \in Nat
        /\ poolInfo[i].accTokenPerShare + share(i) \in Nat
    BY <1>1, <1>2 DEF PoolInfo
  <2> QED
    BY <1>1, <2>2, <2>3 DEF PoolInfo
<1> HIDE DEF share
<1>4. poolInfo' \in Seq(PoolInfo) /\ Len(poolInfo') = n
  <2>1. poolInfo' = [i \in 1 .. n |-> poolInfo'[i]]
    BY DEF ReceiveReward
  <2>2. poolInfo' \in [1 .. n -> PoolInfo]
    BY <1>3, <2>1
  <2>3. poolInfo' \in Seq(PoolInfo)
    BY <1>1, <2>2
  <2> QED
    BY <1>1, <2>2, <2>3
<1>5. userInfo' = userInfo /\ paid' = paid /\ totalAllocPoint' = totalAllocPoint
  BY DEF ReceiveReward
<1>6. AllocationsAddUp'
  BY <1>3, <1>4, <1>5, SamePoints DEF IInv
<1>7. Types'
  <2>1. amount <= funds /\ funds' = funds - amount /\ rewardBalance' = rewardBalance + amount
        /\ received' = received + amount /\ UNCHANGED <<lpBalance, wallet, moves, lpRecovered>>
    BY DEF ReceiveReward
  <2> QED
    BY <1>1, <1>4, <1>5, <2>1 DEF IInv, Types
<1>8. UnusedPools'
  BY <1>4, <1>5 DEF IInv, UnusedPools
<1>9. ASSUME NEW i \in 1 .. n, NEW u \in Users
      PROVE  IsSettled(poolInfo'[i], userInfo[i][u]) /\ Earned(i, u)' >= Earned(i, u)
  <2>1. userInfo[i][u] \in UserInfo /\ paid[i][u] \in Nat /\ IsSettled(poolInfo[i], userInfo[i][u])
    BY <1>1 DEF IInv, Types, Settled
  <2>2. userInfo[i][u].amount \in Nat /\ userInfo[i][u].rewardDebt \in Nat
        /\ userInfo[i][u].pending \in Nat
    BY <2>1 DEF UserInfo
  <2>3. poolInfo[i].accTokenPerShare <= poolInfo'[i].accTokenPerShare
    BY <1>2, <1>3
  <2> DEFINE before == Accrued(poolInfo[i], userInfo[i][u].amount)
             after == Accrued(poolInfo'[i], userInfo[i][u].amount)
  <2>4. before \in Nat /\ after \in Nat /\ before <= after
    BY <1>1, <1>3, <2>2, <2>3, AccruedGrows
  <2> HIDE DEF before, after
  <2>5. IsSettled(poolInfo'[i], userInfo[i][u])
    BY <2>1, <2>2, <2>4 DEF IsSettled, before, after
  <2>6. /\ Updated(poolInfo[i], userInfo[i][u]).pending
             = userInfo[i][u].pending + before - userInfo[i][u].rewardDebt
        /\ Updated(poolInfo'[i], userInfo[i][u]).pending
             = userInfo[i][u].pending + after - userInfo[i][u].rewardDebt
    BY <1>1, <1>3, <2>1, <2>5, UpdatedIsNat DEF before, after
  <2>7. /\ Earned(i, u) = paid[i][u] + Updated(poolInfo[i], userInfo[i][u]).pending
        /\ Earned(i, u)' = paid[i][u] + Updated(poolInfo'[i], userInfo[i][u]).pending
    BY <1>1, <1>4, <1>5 DEF Earned
  <2>8. /\ Updated(poolInfo[i], userInfo[i][u]).pending \in Int
        /\ Updated(poolInfo'[i], userInfo[i][u]).pending \in Int
        /\ Updated(poolInfo'[i], userInfo[i][u]).pending
             >= Updated(poolInfo[i], userInfo[i][u]).pending
    <3> DEFINE pending == userInfo[i][u].pending
               debt == userInfo[i][u].rewardDebt
               p == Updated(poolInfo[i], userInfo[i][u]).pending
               q == Updated(poolInfo'[i], userInfo[i][u]).pending
    <3>1. /\ pending \in Nat /\ debt \in Nat
          /\ p = pending + before - debt /\ q = pending + after - debt
      BY <2>2, <2>6
    <3> HIDE DEF pending, debt, p, q
    <3>2. p \in Int /\ q \in Int /\ q >= p
      BY <2>4, <3>1
    <3> QED
      BY <3>2 DEF p, q
  <2>9. Earned(i, u)' >= Earned(i, u)
    BY <2>1, <2>7, <2>8
  <2> QED
    BY <2>5, <2>9
<1>10. Settled'
  BY <1>4, <1>5, <1>9 DEF Settled
<1>11. IInv'
  BY <1>6, <1>7, <1>8, <1>10 DEF IInv
<1>12. CASE amount = 0
  <2>1. \A i \in 1 .. n : poolInfo'[i].accTokenPerShare = poolInfo[i].accTokenPerShare
    BY <1>2, <1>3, <1>12
  <2>2. \A i \in PoolIds, u \in Users : Earned(i, u)' = Earned(i, u)
    BY <1>1, <1>4, <1>5, <2>1, EarningsUnmoved
  <2>3. received' = received
    BY <1>12 DEF ReceiveReward, IInv, Types
  <2> QED
    BY <1>5, <1>11, <2>2, <2>3, Unseen
<1>13. CASE amount # 0
  <2>1. received' \in Nat /\ received' > received
    BY <1>13 DEF ReceiveReward, IInv, Types
  <2>2. ASSUME NEW i \in PoolIds, NEW u \in Users
        PROVE  Earned(i, u)' \in Nat /\ Earned(i, u)' >= Earned(i, u)
    <3>1. CASE i \in 1 .. n
      <4>1. IInv /\ Earned(i, u)' >= Earned(i, u)
        BY <1>9, <3>1
      <4>2. userInfo'[i][u] \in UserInfo /\ paid'[i][u] \in Nat
            /\ IsSettled(poolInfo'[i], userInfo'[i][u])
        BY <1>5, <1>9, <3>1 DEF IInv, Types
      <4>3. Updated(poolInfo'[i], userInfo'[i][u]).pending \in Nat
        BY <1>3, <3>1, <4>2, UpdatedIsNat
      <4>4. Earned(i, u)' = paid'[i][u] + Updated(poolInfo'[i], userInfo'[i][u]).pending
        BY <1>1, <1>4, <3>1 DEF Earned
      <4> QED
        BY <4>1, <4>2, <4>3, <4>4
    <3>2. CASE i > n
      BY <1>4, <3>2 DEF Earned
    <3> QED
      BY <1>1, <3>1, <3>2 DEF PoolIds
  <2>3. /\ Earnings' \in [PoolIds \X Users -> Nat]
        /\ \A a \in PoolIds \X Users : Earnings'[a] >= Earnings[a]
    BY <2>2 DEF Earnings
  <2>4. Payments' = Payments
    BY <1>5 DEF Payments
  <2>5. Ledger!Receive
    BY <2>1, <2>3, <2>4 DEF Ledger!Receive, Earnings, Payments
  <2> QED
    BY <1>11, <2>5 DEF Ledger!Next
<1> QED
  BY <1>12, <1>13

\* Staking and unstaking leave the record that was there, brought up to date,
\* with another amount and the debt that goes with it.
LEMMA RestakeStep ==
  ASSUME IInv, NEW i \in 1 .. Len(poolInfo), NEW u \in Users, NEW amount \in Nat,
         userInfo' = [userInfo EXCEPT ![i][u] =
                        Restaked(poolInfo[i], userInfo[i][u], amount)],
         moves' = moves + 1,
         wallet' \in [Users -> [LPTokens -> Nat]],
         lpBalance' \in [LPTokens -> Nat],
         UNCHANGED <<poolInfo, totalAllocPoint, rewardBalance, funds, paid, received,
                     lpRecovered>>
  PROVE  IInv' /\ LedgerVars' = LedgerVars
<1> DEFINE user == userInfo[i][u]
           new == Restaked(poolInfo[i], user, amount)
<1>1. /\ i \in PoolIds /\ poolInfo[i] \in PoolInfo /\ user \in UserInfo
      /\ paid \in [PoolIds -> [Users -> Nat]] /\ paid[i][u] \in Nat
      /\ IsSettled(poolInfo[i], user)
  BY PoolsAreTyped DEF IInv, Types, Settled
<1>2. /\ new \in UserInfo /\ IsSettled(poolInfo[i], new)
      /\ new.pending = Updated(poolInfo[i], user).pending
      /\ new.rewardDebt = Accrued(poolInfo[i], new.amount)
      /\ Accrued(poolInfo[i], new.amount) \in Nat
  <2>1. /\ new \in UserInfo /\ new.amount = amount
        /\ new.pending = Updated(poolInfo[i], user).pending
        /\ new.rewardDebt = Accrued(poolInfo[i], amount)
        /\ Accrued(poolInfo[i], amount) \in Nat
    <3> HIDE DEF user
    <3> QED
      BY <1>1, RestakedIsSettled
  <2> HIDE DEF new, user
  <2> QED
    BY <2>1 DEF IsSettled
<1>3. Updated(poolInfo[i], new).pending = Updated(poolInfo[i], user).pending
  <2> HIDE DEF new, user
  <2>1. new.pending \in Nat
    BY <1>2 DEF UserInfo
  <2> QED
    BY <1>1, <1>2, <2>1, UpdatedIsNat
<1>4. Earned(i, u) = paid[i][u] + Updated(poolInfo[i], user).pending
  BY PoolsAreTyped DEF Earned, IInv
<1>5. /\ userInfo' \in [PoolIds -> [Users -> UserInfo]]
      /\ userInfo'[i][u] = new
      /\ \A j \in PoolIds, v \in Users :
           j # i \/ v # u => userInfo'[j][v] = userInfo[j][v]
  <2>1. userInfo' = [userInfo EXCEPT ![i][u] = new]
    OBVIOUS
  <2> HIDE DEF new
  <2> QED
    BY <1>1, <1>2, <2>1 DEF IInv, Types
<1> HIDE DEF new
<1>6. /\ Settled' /\ UnusedPools'
      /\ \A j \in PoolIds, v \in Users : j # i \/ v # u => Earned(j, v)' = Earned(j, v)
      /\ Earned(i, u)' = paid'[i][u] + Updated(poolInfo[i], new).pending
  <2>1. \A j \in PoolIds, v \in Users :
          j # i \/ v # u => userInfo'[j][v] = userInfo[j][v] /\ paid'[j][v] = paid[j][v]
    BY <1>5
  <2>2. /\ new \in UserInfo /\ IsSettled(poolInfo[i], new) /\ userInfo'[i][u] = new
        /\ poolInfo' = poolInfo
    BY <1>2, <1>5
  <2>3. PICK x \in UserInfo : x = new
    BY <2>2
  <2>4. /\ IsSettled(poolInfo[i], x) /\ userInfo'[i][u] = x
    BY <2>2, <2>3
  <2>5. /\ Settled' /\ UnusedPools'
        /\ \A j \in PoolIds, v \in Users : j # i \/ v # u => Earned(j, v)' = Earned(j, v)
        /\ Earned(i, u)' = paid'[i][u] + Updated(poolInfo[i], x).pending
    BY <2>1, <2>2, <2>4, OthersUnmoved
  <2> QED
    BY <2>3, <2>5
<1>7. \A j \in PoolIds, v \in Users : Earned(j, v)' = Earned(j, v)
  BY <1>3, <1>4, <1>6
<1>8. LedgerVars' = LedgerVars
  BY <1>7, Unseen
<1>9. Types'
  BY <1>5 DEF IInv, Types
<1>10. AllocationsAddUp'
  BY DEF IInv, AllocationsAddUp
<1> QED
  BY <1>6, <1>8, <1>9, <1>10 DEF IInv

LEMMA StakeStep ==
  ASSUME IInv, NEW i \in 1 .. Len(poolInfo), NEW u \in Users, NEW amount \in Nat,
         Stake(u, i, amount) \/ Unstake(u, i, amount)
  PROVE  IInv' /\ LedgerVars' = LedgerVars
<1> DEFINE user == userInfo[i][u]
           lp == poolInfo[i].lpToken
<1>1. /\ i \in PoolIds /\ lp \in LPTokens /\ user.amount \in Nat
      /\ wallet \in [Users -> [LPTokens -> Nat]] /\ wallet[u][lp] \in Nat
      /\ lpBalance \in [LPTokens -> Nat] /\ lpBalance[lp] \in Nat
  BY PoolsAreTyped DEF IInv, Types, PoolInfo, UserInfo
<1>2. CASE Stake(u, i, amount)
  <2> DEFINE kept == wallet[u][lp] - amount
             held == lpBalance[lp] + amount
             total == user.amount + amount
  <2>1. kept \in Nat /\ held \in Nat /\ total \in Nat
    BY <1>1, <1>2 DEF Stake
  <2>2. /\ wallet' = [wallet EXCEPT ![u][lp] = kept]
        /\ lpBalance' = [lpBalance EXCEPT ![lp] = held]
        /\ userInfo' = [userInfo EXCEPT ![i][u] = Restaked(poolInfo[i], userInfo[i][u], total)]
        /\ moves' = moves + 1
        /\ UNCHANGED <<poolInfo, totalAllocPoint, rewardBalance, funds, paid, received,
                       lpRecovered>>
    BY <1>2 DEF Stake
  <2> HIDE DEF kept, held, total, lp, user
  <2>3. wallet' \in [Users -> [LPTokens -> Nat]] /\ lpBalance' \in [LPTokens -> Nat]
    BY <1>1, <2>1, <2>2
  <2>4. PICK x \in Nat : x = total
    BY <2>1
  <2> QED
    BY <2>2, <2>3, <2>4, RestakeStep
<1>3. CASE Unstake(u, i, amount)
  <2> DEFINE kept == wallet[u][lp] + amount
             held == lpBalance[lp] - amount
             total == user.amount - amount
  <2>1. kept \in Nat /\ held \in Nat /\ total \in Nat
    BY <1>1, <1>3 DEF Unstake
  <2>2. /\ wallet' = [wallet EXCEPT ![u][lp] = kept]
        /\ lpBalance' = [lpBalance EXCEPT ![lp] = held]
        /\ userInfo' = [userInfo EXCEPT ![i][u] = Restaked(poolInfo[i], userInfo[i][u], total)]
        /\ moves' = moves + 1
        /\ UNCHANGED <<poolInfo, totalAllocPoint, rewardBalance, funds, paid, received,
                       lpRecovered>>
    BY <1>3 DEF Unstake
  <2> HIDE DEF kept, held, total, lp, user
  <2>3. wallet' \in [Users -> [LPTokens -> Nat]] /\ lpBalance' \in [LPTokens -> Nat]
    BY <1>1, <2>1, <2>2
  <2>4. PICK x \in Nat : x = total
    BY <2>1
  <2> QED
    BY <2>2, <2>3, <2>4, RestakeStep
<1> QED
  BY <1>2, <1>3

\* A claim pays exactly what was earned and not paid, and moves the debt with it.
LEMMA ClaimStep ==
  ASSUME IInv, NEW i \in 1 .. Len(poolInfo), NEW u \in Users, Claim(u, i)
  PROVE  IInv' /\ [Ledger!Next]_LedgerVars
<1> DEFINE user == userInfo[i][u]
           pool == poolInfo[i]
           due == Updated(pool, user).pending
           up == Restaked(pool, user, user.amount)
           new == [up EXCEPT !.pending = 0]
<1>1. /\ i \in PoolIds /\ pool \in PoolInfo /\ user \in UserInfo /\ IsSettled(pool, user)
      /\ user.amount \in Nat
      /\ userInfo \in [PoolIds -> [Users -> UserInfo]]
      /\ paid \in [PoolIds -> [Users -> Nat]] /\ paid[i][u] \in Nat
  BY PoolsAreTyped DEF IInv, Types, Settled, UserInfo
<1>2. due \in Nat
  BY <1>1, UpdatedIsNat
<1>3. /\ new \in UserInfo /\ new.amount = user.amount /\ new.pending = 0
      /\ new.rewardDebt = Accrued(pool, user.amount)
      /\ Accrued(pool, user.amount) \in Nat
  <2>1. /\ up \in UserInfo /\ up.amount = user.amount
        /\ up.rewardDebt = Accrued(pool, user.amount)
        /\ Accrued(pool, user.amount) \in Nat
    <3> HIDE DEF user, pool
    <3> QED
      BY <1>1, RestakedIsSettled
  <2> HIDE DEF user, pool, up
  <2> QED
    BY <2>1 DEF UserInfo
<1>4. /\ due <= rewardBalance
      /\ userInfo' = [userInfo EXCEPT ![i][u] = new]
      /\ rewardBalance' = rewardBalance - due
      /\ paid' = [paid EXCEPT ![i][u] = paid[i][u] + due]
      /\ UNCHANGED <<poolInfo, totalAllocPoint, lpBalance, wallet, funds,
                     received, moves, lpRecovered>>
  BY <1>1 DEF Claim
<1>5. Earned(i, u) = paid[i][u] + due
  BY PoolsAreTyped DEF Earned, IInv
<1> HIDE DEF user, pool, due, up, new
<1>6. PICK x \in UserInfo : x = new
  BY <1>3
<1>7. IsSettled(pool, x) /\ Updated(pool, x).pending = 0
  <2>1. IsSettled(pool, x)
    BY <1>3, <1>6 DEF IsSettled
  <2> QED
    BY <1>1, <1>3, <1>6, <2>1, UpdatedIsNat
<1>8. /\ userInfo' \in [PoolIds -> [Users -> UserInfo]]
      /\ paid' \in [PoolIds -> [Users -> Nat]]
      /\ userInfo'[i][u] = x /\ paid'[i][u] = paid[i][u] + due
      /\ \A j \in PoolIds, v \in Users :
           j # i \/ v # u => userInfo'[j][v] = userInfo[j][v] /\ paid'[j][v] = paid[j][v]
  BY <1>1, <1>2, <1>3, <1>4, <1>6
<1>9. /\ Settled' /\ UnusedPools'
      /\ \A j \in PoolIds, v \in Users : j # i \/ v # u => Earned(j, v)' = Earned(j, v)
      /\ Earned(i, u)' = paid'[i][u] + Updated(pool, x).pending
  BY <1>4, <1>7, <1>8, OthersUnmoved DEF pool
<1>10. paid'[i][u] = Earned(i, u) /\ Earned(i, u)' = Earned(i, u)
  BY <1>1, <1>2, <1>5, <1>7, <1>8, <1>9
<1>11. IInv'
  <2>1. rewardBalance' \in Nat
    BY <1>2, <1>4 DEF IInv, Types
  <2>2. Types'
    BY <1>4, <1>8, <2>1 DEF IInv, Types
  <2>3. AllocationsAddUp'
    BY <1>4 DEF IInv, AllocationsAddUp
  <2> QED
    BY <1>9, <2>2, <2>3 DEF IInv
<1>12. [Ledger!Next]_LedgerVars
  <2> DEFINE a == <<i, u>>
  <2>1. a \in PoolIds \X Users /\ \A b \in PoolIds \X Users :
          /\ b[1] \in PoolIds /\ b[2] \in Users
          /\ b # a => b[1] # i \/ b[2] # u
    BY <1>1
  <2>2. Earnings' = Earnings
    BY <1>9, <1>10, <2>1 DEF Earnings
  <2>3. Payments' = [Payments EXCEPT ![a] = Earnings[a]]
    <3>1. \A b \in PoolIds \X Users :
            paid'[b[1]][b[2]] = IF b = a THEN Earnings[a] ELSE paid[b[1]][b[2]]
      BY <1>8, <1>10, <2>1 DEF Earnings
    <3> HIDE DEF a
    <3> QED
      BY <2>1, <3>1 DEF Payments
  <2>4. Ledger!Pay(a)
    BY <1>4, <2>2, <2>3 DEF Ledger!Pay, Earnings, Payments
  <2> QED
    BY <2>1, <2>4 DEF Ledger!Next
<1> QED
  BY <1>11, <1>12

-----------------------------------------------------------------------------
(* The theorems.                                                           *)

LEMMA InitIInv == Init => IInv /\ Ledger!Init
<1> SUFFICES ASSUME Init PROVE IInv /\ Ledger!Init
  OBVIOUS
<1>1. poolInfo = <<>> /\ Len(poolInfo) = 0 /\ poolInfo \in Seq(PoolInfo)
  BY DEF Init
<1>2. Types
  <2>1. [amount |-> 0, pending |-> 0, rewardDebt |-> 0] \in UserInfo
    BY DEF UserInfo
  <2>2. userInfo \in [PoolIds -> [Users -> UserInfo]]
    BY <2>1 DEF Init
  <2>3. /\ paid \in [PoolIds -> [Users -> Nat]]
        /\ wallet \in [Users -> [LPTokens -> Nat]]
        /\ lpBalance \in [LPTokens -> Nat]
    BY MasterChefAssumption DEF Init
  <2>4. /\ totalAllocPoint \in Nat /\ rewardBalance \in Nat /\ funds \in Nat
        /\ received \in Nat /\ moves \in Nat /\ 0 <= MaxPools
    BY MasterChefAssumption DEF Init
  <2>5. lpRecovered \in BOOLEAN
    BY DEF Init
  <2> QED
    BY <1>1, <2>2, <2>3, <2>4, <2>5 DEF Types
<1>3. Settled /\ UnusedPools
  BY <1>1 DEF Settled, UnusedPools, Init
<1>4. AllocationsAddUp
  <2>1. SumTo([i \in 1 .. Len(poolInfo) |-> poolInfo[i].allocPoint], 0) = 0
    BY SumToUnfolds
  <2> QED
    BY <1>1, <2>1 DEF AllocationsAddUp, Init
<1>5. Ledger!Init
  <2>1. \A i \in PoolIds, u \in Users : Earned(i, u) = 0
    BY <1>1 DEF Earned, PoolIds
  <2> QED
    BY <2>1 DEF Ledger!Init, Init
<1> QED
  BY <1>2, <1>3, <1>4, <1>5 DEF IInv

LEMMA NextStep == IInv /\ [Next]_vars => IInv' /\ [Ledger!Next]_LedgerVars
<1> SUFFICES ASSUME IInv, [Next]_vars PROVE IInv' /\ [Ledger!Next]_LedgerVars
  OBVIOUS
<1>0. Len(poolInfo) \in Nat /\ rewardBalance \in Nat /\ funds \in Nat
  BY PoolsAreTyped DEF IInv, Types
<1>1. ASSUME NEW p \in AllocPoints, NEW lp \in LPTokens, Add(p, lp)
      PROVE  IInv' /\ [Ledger!Next]_LedgerVars
  BY <1>1, AddStep
<1>2. ASSUME NEW i \in 1 .. Len(poolInfo), NEW p \in AllocPoints, SetAllocPoint(i, p)
      PROVE  IInv' /\ [Ledger!Next]_LedgerVars
  BY <1>2, SetAllocPointStep
<1>3. ASSUME NEW x \in 1 .. rewardBalance, RecoverReward(x)
      PROVE  IInv' /\ [Ledger!Next]_LedgerVars
  BY <1>0, <1>3, TransferStep
<1>4. ASSUME NEW lp \in LPTokens, NEW x \in 1 .. lpBalance[lp], RecoverLP(lp, x)
      PROVE  IInv' /\ [Ledger!Next]_LedgerVars
  <2>1. x \in Nat
    BY DEF IInv, Types
  <2> QED
    BY <1>4, <2>1, TransferStep
<1>5. ASSUME NEW u \in Users, NEW lp \in LPTokens, NEW x \in 1 .. wallet[u][lp],
             ReceiveLP(u, lp, x)
      PROVE  IInv' /\ [Ledger!Next]_LedgerVars
  <2>1. x \in Nat
    BY DEF IInv, Types
  <2> QED
    BY <1>5, <2>1, TransferStep
<1>6. ASSUME NEW x \in 0 .. funds, ReceiveReward(x)
      PROVE  IInv' /\ [Ledger!Next]_LedgerVars
  BY <1>0, <1>6, ReceiveRewardStep
<1>7. ASSUME NEW u \in Users, NEW i \in 1 .. Len(poolInfo), Claim(u, i)
      PROVE  IInv' /\ [Ledger!Next]_LedgerVars
  BY <1>7, ClaimStep
<1>8. ASSUME NEW u \in Users, NEW i \in 1 .. Len(poolInfo),
             \/ \E x \in 1 .. wallet[u][poolInfo[i].lpToken] : Stake(u, i, x)
             \/ \E x \in 1 .. userInfo[i][u].amount : Unstake(u, i, x)
      PROVE  IInv' /\ [Ledger!Next]_LedgerVars
  <2>1. poolInfo[i].lpToken \in LPTokens /\ i \in PoolIds
    BY PoolsAreTyped DEF IInv, PoolInfo
  <2>2. wallet[u][poolInfo[i].lpToken] \in Nat /\ userInfo[i][u].amount \in Nat
    BY <2>1 DEF IInv, Types, UserInfo
  <2>3. \E x \in Nat : Stake(u, i, x) \/ Unstake(u, i, x)
    BY <1>8, <2>2
  <2> QED
    BY <2>3, StakeStep
<1>9. CASE UNCHANGED vars
  <2>1. /\ Types' /\ Settled' /\ UnusedPools' /\ AllocationsAddUp'
        /\ \A i \in PoolIds, u \in Users : Earned(i, u)' = Earned(i, u)
    BY <1>9 DEF IInv, Types, Settled, UnusedPools, AllocationsAddUp, Earned,
                vars, chef, history
  <2> QED
    BY <1>9, <2>1, Unseen DEF IInv, vars, history
<1> QED
  BY <1>1, <1>2, <1>3, <1>4, <1>5, <1>6, <1>7, <1>8, <1>9 DEF Next

THEOREM Invariance == Spec => []IInv
<1>1. IInv /\ [Next]_vars => IInv'
  BY NextStep
<1> QED
  BY <1>1, InitIInv, PTL DEF Spec

\* Types, and no record ever owes more than it accrued: _update's checked
\* subtraction never reverts, so a stake can always be taken out.
THEOREM TypeCorrect == Spec => []TypeOK
<1>1. IInv => TypeOK
  BY TypeOKByParts DEF IInv
<1> QED
  BY <1>1, Invariance, PTL

\* totalAllocPoint is the sum of the pools' points, so set never underflows
\* and shares of a reward add up to at most the whole.
THEOREM PointsAddUp == Spec => []AllocationsAddUp
<1>1. IInv => AllocationsAddUp
  BY DEF IInv
<1> QED
  BY <1>1, Invariance, PTL

\* The accumulators implement the ledger: nobody's earnings shrink, they grow
\* only with rewards received, and a claim pays exactly what is outstanding.
THEOREM Implementation == Spec => EarningsAreKept
<1>1. [Ledger!Next]_LedgerVars
        <=> [Ledger!Next]_<<received, [a \in PoolIds \X Users |-> Earned(a[1], a[2])],
                            [a \in PoolIds \X Users |-> paid[a[1]][a[2]]]>>
  BY DEF LedgerVars, Earnings, Payments
<1>2. Init => Ledger!Init
  BY InitIInv
<1> QED
  BY <1>1, <1>2, NextStep, Invariance, PTL DEF Spec, EarningsAreKept, Ledger!Spec

-----------------------------------------------------------------------------
(* Two theorems about sums over all pools and stakers: stakes are held,    *)
(* and rounding never pays more than a unit for every change of a stake.   *)
(* The rounding is followed exactly: earnings are counted in               *)
(* MULTIPLIER-ths (Exact), of which a reward shares out at most its own    *)
(* amount, and a restake at most one unit too much.                        *)

-----------------------------------------------------------------------------
(* Sums over pools and stakers.                                            *)

Matrices == [PoolIds -> [Users -> Nat]]

Row(f, i) == SumOver([u \in Users |-> f[i][u]], EnumerationOf(Users))
Rows(f) == [i \in PoolIds |-> Row(f, i)]

LEMMA RowsAreTyped ==
  ASSUME NEW f \in Matrices
  PROVE  /\ IsFiniteSet(Users) /\ MaxPools \in Nat
         /\ \A i \in PoolIds : /\ Rows(f)[i] \in Nat /\ Rows(f)[i] = Row(f, i)
                               /\ [u \in Users |-> f[i][u]] \in [Users -> Nat]
                               /\ [u \in Users |-> f[i][u]] = f[i]
         /\ Total(f) = SumTo(Rows(f), MaxPools) /\ Total(f) \in Nat
<1>1. IsFiniteSet(Users) /\ MaxPools \in Nat
  BY MasterChefAssumption
<1>2. \A i \in PoolIds : [u \in Users |-> f[i][u]] \in [Users -> Nat]
                         /\ [u \in Users |-> f[i][u]] = f[i]
  BY DEF Matrices
<1>3. \A i \in PoolIds : Rows(f)[i] \in Nat /\ Rows(f)[i] = Row(f, i)
  <2> TAKE i \in PoolIds
  <2> DEFINE r == [u \in Users |-> f[i][u]]
  <2>1. r \in [Users -> Nat]
    BY <1>2
  <2> HIDE DEF r
  <2>2. SumOver(r, EnumerationOf(Users)) \in Nat
    BY <1>1, <2>1, SumOverAccounts
  <2> QED
    BY <2>2 DEF r, Row, Rows
<1>4. Total(f) = SumTo(Rows(f), MaxPools)
  BY DEF Total, Rows, Row
<1>5. Total(f) \in Nat
  <2>1. \A i \in 1 .. MaxPools : Rows(f)[i] \in Nat
    BY <1>3 DEF PoolIds
  <2>2. \A m \in 0 .. MaxPools : SumTo(Rows(f), m) \in Nat
    <3> HIDE DEF Rows
    <3> QED
      BY <1>1, <2>1, SumToNat
  <2> QED
    BY <1>1, <1>4, <2>2
<1> QED
  BY <1>1, <1>2, <1>3, <1>4, <1>5

\* A total follows a change of one entry.
LEMMA TotalChanges ==
  ASSUME NEW f \in Matrices, NEW g \in Matrices, NEW i \in PoolIds, NEW u \in Users,
         \A j \in PoolIds, v \in Users : j # i \/ v # u => g[j][v] = f[j][v]
  PROVE  Total(g) = Total(f) - f[i][u] + g[i][u]
<1>1. /\ IsFiniteSet(Users) /\ MaxPools \in Nat
      /\ \A j \in PoolIds : Rows(f)[j] \in Nat /\ Rows(g)[j] \in Nat
      /\ Total(f) = SumTo(Rows(f), MaxPools) /\ Total(g) = SumTo(Rows(g), MaxPools)
  BY RowsAreTyped
<1>2. Rows(g)[i] = Rows(f)[i] - f[i][u] + g[i][u]
  <2> DEFINE p == f[i]
             q == g[i]
  <2>1. p \in [Users -> Nat] /\ q \in [Users -> Nat] /\ \A v \in Users \ {u} : q[v] = p[v]
    BY DEF Matrices
  <2>2. Rows(f)[i] = SumOver(p, EnumerationOf(Users)) /\ Rows(g)[i] = SumOver(q, EnumerationOf(Users))
    <3>1. /\ Rows(f)[i] = Row(f, i) /\ [v \in Users |-> f[i][v]] = p
          /\ Rows(g)[i] = Row(g, i) /\ [v \in Users |-> g[i][v]] = q
      BY RowsAreTyped
    <3> QED
      BY <3>1 DEF Row
  <2> HIDE DEF p, q
  <2>3. q = [p EXCEPT ![u] = q[u]] /\ q[u] \in Nat
    BY <2>1
  <2>4. SumOver(q, EnumerationOf(Users)) = SumOver(p, EnumerationOf(Users)) - p[u] + q[u]
    BY <1>1, <2>1, <2>3, SumOverAccounts
  <2> QED
    BY <2>2, <2>4 DEF p, q
<1>3. \A j \in PoolIds : j # i => Rows(f)[j] = Rows(g)[j]
  <2> TAKE j \in PoolIds
  <2> HAVE j # i
  <2>1. [v \in Users |-> f[j][v]] = [v \in Users |-> g[j][v]]
    OBVIOUS
  <2> QED
    BY <2>1 DEF Rows, Row
<1>4. SumTo(Rows(g), MaxPools) = SumTo(Rows(f), MaxPools) - Rows(f)[i] + Rows(g)[i]
  <2>1. i \in 1 .. MaxPools
    BY DEF PoolIds
  <2>2. \A j \in 1 .. MaxPools : Rows(f)[j] \in Nat /\ Rows(g)[j] \in Nat
    BY <1>1 DEF PoolIds
  <2>3. \A j \in 1 .. MaxPools : j # i => Rows(f)[j] = Rows(g)[j]
    BY <1>3 DEF PoolIds
  <2> HIDE DEF Rows
  <2> QED
    BY <1>1, <2>1, <2>2, <2>3, SumToChanges
<1>5. /\ SumTo(Rows(g), MaxPools) \in Nat /\ SumTo(Rows(f), MaxPools) \in Nat
      /\ Rows(f)[i] \in Nat /\ Rows(g)[i] \in Nat /\ f[i][u] \in Nat /\ g[i][u] \in Nat
  BY <1>1, RowsAreTyped DEF Matrices
<1> QED
  BY <1>1, <1>2, <1>4, <1>5

\* A multiple of one total is at most another when that holds of the entries.
LEMMA TotalCompares ==
  ASSUME NEW f \in Matrices, NEW g \in Matrices, NEW a \in Nat,
         \A i \in PoolIds, u \in Users : a * f[i][u] <= g[i][u]
  PROVE  a * Total(f) <= Total(g)
<1>1. /\ IsFiniteSet(Users) /\ MaxPools \in Nat
      /\ \A j \in PoolIds : Rows(f)[j] \in Nat /\ Rows(g)[j] \in Nat
      /\ Total(f) = SumTo(Rows(f), MaxPools) /\ Total(g) = SumTo(Rows(g), MaxPools)
      /\ Total(f) \in Nat /\ Total(g) \in Nat
  BY RowsAreTyped
<1>2. \A i \in PoolIds : a * Rows(f)[i] <= Rows(g)[i]
  <2> TAKE i \in PoolIds
  <2> DEFINE p == f[i]
             q == g[i]
             Sum(r) == SumOver(r, EnumerationOf(Users))
  <2>1. p \in [Users -> Nat] /\ q \in [Users -> Nat]
        /\ \A u \in Users : p[u] \in Nat /\ q[u] \in Nat /\ a * p[u] <= q[u]
    BY DEF Matrices
  <2>2. Rows(f)[i] = Sum(p) /\ Rows(g)[i] = Sum(q)
    BY RowsAreTyped DEF Row
  <2> HIDE DEF p, q
  <2>3. \A u \in Users : a * p[u] + 0 * p[u] <= 1 * q[u] + 0 * p[u]
    BY <2>1
  <2>4. a * Sum(p) + 0 * Sum(p) <= 1 * Sum(q) + 0 * Sum(p)
    BY <1>1, <2>1, <2>3, SumOverCombines
  <2>5. Sum(p) \in Nat /\ Sum(q) \in Nat
    BY <1>1, <2>1, SumOverAccounts
  <2> HIDE DEF Sum
  <2>6. a * Sum(p) <= Sum(q)
    BY <2>4, <2>5
  <2> QED
    BY <2>2, <2>6
<1> DEFINE F == Rows(f)
           G == Rows(g)
<1>3. \A i \in 1 .. MaxPools :
        /\ F[i] \in Nat /\ G[i] \in Nat
        /\ a * F[i] + 0 * F[i] <= 1 * G[i] + 0 * F[i]
  BY <1>1, <1>2 DEF PoolIds
<1> HIDE DEF F, G
<1>4. a * SumTo(F, MaxPools) + 0 * SumTo(F, MaxPools)
        <= 1 * SumTo(G, MaxPools) + 0 * SumTo(F, MaxPools)
  BY <1>1, <1>3, SumToCombines
<1>5. SumTo(F, MaxPools) = Total(f) /\ SumTo(G, MaxPools) = Total(g)
  BY <1>1 DEF F, G
<1> QED
  BY <1>1, <1>4, <1>5


-----------------------------------------------------------------------------
(* Stakes, and earnings counted exactly.                                   *)

StakeOf(i, u, lp) ==
  IF i <= Len(poolInfo) /\ poolInfo[i].lpToken = lp THEN userInfo[i][u].amount ELSE 0

StakesOf(lp) == [i \in PoolIds |-> [u \in Users |-> StakeOf(i, u, lp)]]

\* What a record is worth, and was paid, in units of 1 / MULTIPLIER.
Worth(pool, user, claimed) ==
  MULTIPLIER * (claimed + user.pending)
    + (user.amount * pool.accTokenPerShare - MULTIPLIER * user.rewardDebt)

Exact(i, u) == IF i > Len(poolInfo) THEN 0 ELSE Worth(poolInfo[i], userInfo[i][u], paid[i][u])

Exacts == [i \in PoolIds |-> [u \in Users |-> Exact(i, u)]]

SharedExactly == ~lpRecovered => Total(Exacts) <= MULTIPLIER * (received + moves)

SInv == IInv /\ StakesAreHeld /\ SharedExactly

LEMMA HeldByDefinition ==
  StakesAreHeld <=> (~lpRecovered => \A lp \in LPTokens : Total(StakesOf(lp)) <= lpBalance[lp])
BY DEF StakesAreHeld, StakesOf, StakeOf

\* A settled record is worth a natural, at least MULTIPLIER times what it earned.
LEMMA WorthIsNat ==
  ASSUME NEW pool \in PoolInfo, NEW user \in UserInfo, NEW claimed \in Nat,
         IsSettled(pool, user)
  PROVE  /\ Worth(pool, user, claimed) \in Nat
         /\ MULTIPLIER * (claimed + Updated(pool, user).pending) <= Worth(pool, user, claimed)
<1> DEFINE M == MULTIPLIER
           a == Accrued(pool, user.amount)
           x == user.amount * pool.accTokenPerShare
           d == user.rewardDebt
           p == user.pending
<1>1. /\ M \in Nat \ {0} /\ d \in Nat /\ p \in Nat
      /\ user.amount \in Nat /\ pool.accTokenPerShare \in Nat
  BY MasterChefAssumption DEF UserInfo, PoolInfo
<1>2. x \in Nat
  BY <1>1
<1>3. a = x \div M
  BY DEF Accrued
<1> HIDE DEF x
<1>4. a \in Nat /\ a * M <= x
  <2> HIDE DEF a, M
  <2> QED
    BY <1>1, <1>2, <1>3
<1>5. d <= a
  BY DEF IsSettled
<1>6. Updated(pool, user).pending = p + a - d
  BY UpdatedIsNat
<1>7. Worth(pool, user, claimed) = M * (claimed + p) + (x - M * d)
  BY DEF Worth, x
<1> HIDE DEF M, a, d, p
<1> DEFINE md == M * d
           ma == M * a
           mc == M * (claimed + p)
<1>8. md \in Nat /\ ma \in Nat /\ mc \in Nat /\ md <= ma /\ ma <= x
  <2>1. M * d \in Nat /\ M * a \in Nat /\ M * (claimed + p) \in Nat /\ M * a <= x
    BY <1>1, <1>4
  <2>2. M * d <= M * a
    BY <1>1, <1>4, <1>5
  <2> QED
    BY <2>1, <2>2
<1>9. M * (claimed + (p + a - d)) = mc + ma - md
  <2>1. claimed + (p + a - d) = (claimed + p) + a - d
    BY <1>1, <1>4
  <2>2. M * ((claimed + p) + a - d) = M * (claimed + p) + M * a - M * d
    BY <1>1, <1>4
  <2> QED
    BY <2>1, <2>2
<1> HIDE DEF md, ma, mc
<1>10. mc + (x - md) \in Nat /\ mc + ma - md <= mc + (x - md)
  BY <1>2, <1>8
<1> QED
  BY <1>6, <1>7, <1>9, <1>10 DEF M, mc, md

LEMMA MatricesAreTyped ==
  ASSUME IInv
  PROVE  /\ Exacts \in Matrices
         /\ \A lp \in LPTokens : StakesOf(lp) \in Matrices
         /\ \A i \in PoolIds, u \in Users :
              /\ Exact(i, u) \in Nat /\ Exacts[i][u] = Exact(i, u)
              /\ MULTIPLIER * Earned(i, u) <= Exact(i, u)
              /\ \A lp \in LPTokens : /\ StakeOf(i, u, lp) \in Nat
                                      /\ StakesOf(lp)[i][u] = StakeOf(i, u, lp)
<1>1. ASSUME NEW i \in PoolIds, NEW u \in Users
      PROVE  /\ Exact(i, u) \in Nat /\ MULTIPLIER * Earned(i, u) <= Exact(i, u)
             /\ \A lp \in LPTokens : StakeOf(i, u, lp) \in Nat
  <2>1. userInfo[i][u] \in UserInfo /\ paid[i][u] \in Nat /\ userInfo[i][u].amount \in Nat
    BY DEF IInv, Types, UserInfo
  <2>2. \A lp \in LPTokens : StakeOf(i, u, lp) \in Nat
    BY <2>1 DEF StakeOf
  <2>3. CASE i > Len(poolInfo)
    <3>1. MULTIPLIER * 0 = 0
      BY MasterChefAssumption
    <3> QED
      BY <2>2, <2>3, <3>1 DEF Exact, Earned
  <2>4. CASE ~(i > Len(poolInfo))
    <3>1. i \in 1 .. Len(poolInfo) /\ poolInfo[i] \in PoolInfo
      BY <2>4, PoolsAreTyped DEF IInv, PoolIds
    <3>2. IsSettled(poolInfo[i], userInfo[i][u])
      BY <3>1 DEF IInv, Settled
    <3>3. /\ Worth(poolInfo[i], userInfo[i][u], paid[i][u]) \in Nat
          /\ MULTIPLIER * (paid[i][u] + Updated(poolInfo[i], userInfo[i][u]).pending)
               <= Worth(poolInfo[i], userInfo[i][u], paid[i][u])
      BY <2>1, <3>1, <3>2, WorthIsNat
    <3> QED
      BY <2>2, <2>4, <3>3 DEF Exact, Earned
  <2> QED
    BY <2>3, <2>4
<1> QED
  BY <1>1 DEF Exacts, StakesOf, Matrices

-----------------------------------------------------------------------------
(* Steps that move no stake and share no reward.                           *)

LEMMA MultiplesAreMonotone ==
  ASSUME NEW m \in Nat, NEW x \in Nat, NEW y \in Nat, x <= y
  PROVE  m * x \in Nat /\ m * y \in Nat /\ m * x <= m * y
OBVIOUS

LEMMA NothingMoves ==
  ASSUME SInv, IInv',
         \A i \in PoolIds, u \in Users : Exact(i, u)' = Exact(i, u),
         \A i \in PoolIds, u \in Users, lp \in LPTokens :
           StakeOf(i, u, lp)' = StakeOf(i, u, lp),
         received' >= received, moves' = moves,
         lpRecovered' \/ (lpRecovered' = lpRecovered /\ \A lp \in LPTokens :
                                                          lpBalance'[lp] >= lpBalance[lp])
  PROVE  SInv'
<1>1. Exacts' = Exacts
  BY DEF Exacts
<1>2. \A lp \in LPTokens : StakesOf(lp)' = StakesOf(lp)
  BY DEF StakesOf
<1>3. /\ Total(Exacts) \in Nat /\ \A lp \in LPTokens : Total(StakesOf(lp)) \in Nat
      /\ received \in Nat /\ received' \in Nat /\ moves \in Nat
      /\ \A lp \in LPTokens : lpBalance[lp] \in Nat /\ lpBalance'[lp] \in Nat
      /\ MULTIPLIER \in Nat
  <2>1. IInv
    BY DEF SInv
  <2>2. Total(Exacts) \in Nat /\ \A lp \in LPTokens : Total(StakesOf(lp)) \in Nat
    BY <2>1, MatricesAreTyped, RowsAreTyped
  <2> QED
    BY <2>1, <2>2, MasterChefAssumption DEF IInv, Types
<1>4. (Total(Exacts))' = Total(Exacts)
      /\ \A lp \in LPTokens : (Total(StakesOf(lp)))' = Total(StakesOf(lp))
  BY <1>1, <1>2 DEF Total
<1>5. StakesAreHeld'
  <2>1. StakesAreHeld'
          <=> (~lpRecovered' => \A lp \in LPTokens : (Total(StakesOf(lp)))' <= lpBalance'[lp])
    BY DEF StakesAreHeld, StakesOf, StakeOf
  <2>2. ~lpRecovered => \A lp \in LPTokens : Total(StakesOf(lp)) <= lpBalance[lp]
    BY HeldByDefinition DEF SInv
  <2> QED
    BY <1>3, <1>4, <2>1, <2>2
<1>6. SharedExactly'
  <2> SUFFICES ASSUME ~lpRecovered'
               PROVE  (Total(Exacts))' <= MULTIPLIER * (received' + moves')
    BY DEF SharedExactly
  <2>1. Total(Exacts) <= MULTIPLIER * (received + moves)
    BY DEF SInv, SharedExactly
  <2>2. /\ MULTIPLIER * (received + moves) \in Nat /\ MULTIPLIER * (received' + moves) \in Nat
        /\ MULTIPLIER * (received + moves) <= MULTIPLIER * (received' + moves)
    <3>1. /\ received \in Nat /\ received' \in Nat /\ moves \in Nat /\ MULTIPLIER \in Nat
          /\ received + moves \in Nat /\ received' + moves \in Nat
          /\ received + moves <= received' + moves
      BY <1>3
    <3> QED
      BY <3>1, MultiplesAreMonotone
  <2> QED
    BY <1>3, <1>4, <2>1, <2>2
<1> QED
  BY <1>5, <1>6 DEF SInv

\* The admin, and whoever sends LP tokens, do no more than the assumptions say:
\* a pool that is added finds blank records.
LEMMA RecordsStay ==
  ASSUME SInv, IInv', userInfo' = userInfo, paid' = paid, received' = received,
         moves' = moves, Len(poolInfo') >= Len(poolInfo),
         \A i \in 1 .. Len(poolInfo) :
           /\ poolInfo'[i].accTokenPerShare = poolInfo[i].accTokenPerShare
           /\ poolInfo'[i].lpToken = poolInfo[i].lpToken,
         lpRecovered' \/ (lpRecovered' = lpRecovered /\ \A lp \in LPTokens :
                                                          lpBalance'[lp] >= lpBalance[lp])
  PROVE  SInv'
<1>1. /\ IInv /\ Len(poolInfo) \in Nat /\ Len(poolInfo') \in Nat /\ MaxPools \in Nat
      /\ received \in Nat /\ received' \in Nat
      /\ \A i \in 1 .. Len(poolInfo') : poolInfo'[i] \in PoolInfo
  BY PoolsAreTyped, MasterChefAssumption DEF SInv, IInv, Types
<1>2. ASSUME NEW i \in PoolIds, NEW u \in Users
      PROVE  /\ Exact(i, u)' = Exact(i, u)
             /\ \A lp \in LPTokens : StakeOf(i, u, lp)' = StakeOf(i, u, lp)
  <2>1. CASE i \in 1 .. Len(poolInfo)
    <3>1. /\ i <= Len(poolInfo) /\ i <= Len(poolInfo') /\ ~(i > Len(poolInfo))
          /\ ~(i > Len(poolInfo'))
      BY <1>1, <2>1
    <3>2. Worth(poolInfo'[i], userInfo[i][u], paid[i][u])
            = Worth(poolInfo[i], userInfo[i][u], paid[i][u])
      BY <2>1 DEF Worth
    <3>3. Exact(i, u)' = Exact(i, u)
      BY <3>1, <3>2 DEF Exact
    <3> QED
      BY <2>1, <3>1, <3>3 DEF StakeOf
  <2>2. CASE i > Len(poolInfo)
    <3>1. /\ userInfo[i][u].amount = 0 /\ userInfo[i][u].pending = 0
          /\ userInfo[i][u].rewardDebt = 0 /\ paid[i][u] = 0
      BY <1>1, <2>2 DEF IInv, UnusedPools
    <3>2. ~(i <= Len(poolInfo))
      BY <1>1, <2>2 DEF PoolIds
    <3>3. Exact(i, u)' = 0
      <4>1. CASE i > Len(poolInfo')
        BY <4>1 DEF Exact
      <4>2. CASE ~(i > Len(poolInfo'))
        <5>1. i \in 1 .. Len(poolInfo')
          BY <1>1, <4>2 DEF PoolIds
        <5>2. poolInfo'[i].accTokenPerShare \in Nat /\ MULTIPLIER \in Nat
          BY <1>1, <5>1, MasterChefAssumption DEF PoolInfo
        <5>3. Worth(poolInfo'[i], userInfo[i][u], paid[i][u]) = 0
          <6>1. MULTIPLIER * (0 + 0) = 0 /\ 0 * poolInfo'[i].accTokenPerShare = 0
                /\ MULTIPLIER * 0 = 0
            BY <5>2
          <6> QED
            BY <3>1, <6>1 DEF Worth
        <5> QED
          BY <4>2, <5>3 DEF Exact
      <4> QED
        BY <4>1, <4>2
    <3>4. \A lp \in LPTokens : StakeOf(i, u, lp) = 0 /\ StakeOf(i, u, lp)' = 0
      BY <3>1, <3>2 DEF StakeOf
    <3> QED
      BY <2>2, <3>3, <3>4 DEF Exact
  <2> QED
    BY <1>1, <2>1, <2>2 DEF PoolIds
<1>3. received' >= received
  BY <1>1
<1> QED
  BY <1>2, <1>3, NothingMoves

LEMMA AdminSharesStep ==
  ASSUME SInv, IInv',
         \/ \E allocPoint \in AllocPoints, lp \in LPTokens : Add(allocPoint, lp)
         \/ \E i \in 1 .. Len(poolInfo), allocPoint \in AllocPoints :
              SetAllocPoint(i, allocPoint)
         \/ \E amount \in Nat : RecoverReward(amount)
         \/ \E lp \in LPTokens, amount \in Nat : RecoverLP(lp, amount)
         \/ \E u \in Users, lp \in LPTokens, amount \in Nat : ReceiveLP(u, lp, amount)
  PROVE  SInv'
<1>1. /\ Len(poolInfo) \in Nat /\ poolInfo \in Seq(PoolInfo)
      /\ lpBalance \in [LPTokens -> Nat]
      /\ \A i \in 1 .. Len(poolInfo) : poolInfo[i] \in PoolInfo
  BY PoolsAreTyped DEF SInv, IInv, Types
<1>2. \A lp \in LPTokens : lpBalance[lp] >= lpBalance[lp]
  BY <1>1
<1>3. /\ userInfo' = userInfo /\ paid' = paid /\ received' = received /\ moves' = moves
  BY DEF Add, SetAllocPoint, RecoverReward, RecoverLP, ReceiveLP, history
<1>4. ASSUME NEW allocPoint \in AllocPoints, NEW lp \in LPTokens, Add(allocPoint, lp)
      PROVE  SInv'
  <2> DEFINE n == Len(poolInfo)
             new == [lpToken |-> lp, allocPoint |-> allocPoint, accTokenPerShare |-> 0]
  <2>1. poolInfo' = Append(poolInfo, new) /\ lpBalance' = lpBalance /\ lpRecovered' = lpRecovered
    BY <1>4 DEF Add, history
  <2>2. Len(poolInfo') = n + 1 /\ \A i \in 1 .. n : poolInfo'[i] = poolInfo[i]
    <3> HIDE DEF new
    <3> QED
      BY <1>1, <2>1
  <2>3. Len(poolInfo') >= Len(poolInfo)
    BY <1>1, <2>2
  <2> QED
    BY <1>2, <1>3, <2>1, <2>2, <2>3, RecordsStay
<1>5. ASSUME NEW i \in 1 .. Len(poolInfo), NEW allocPoint \in AllocPoints,
             SetAllocPoint(i, allocPoint)
      PROVE  SInv'
  <2>1. /\ poolInfo' = [poolInfo EXCEPT ![i].allocPoint = allocPoint]
        /\ lpBalance' = lpBalance /\ lpRecovered' = lpRecovered
    BY <1>5 DEF SetAllocPoint, history
  <2>2. /\ Len(poolInfo') = Len(poolInfo) /\ Len(poolInfo') >= Len(poolInfo)
    BY <1>1, <2>1
  <2>3. \A k \in 1 .. Len(poolInfo) :
          /\ poolInfo'[k].accTokenPerShare = poolInfo[k].accTokenPerShare
          /\ poolInfo'[k].lpToken = poolInfo[k].lpToken
    BY <1>1, <2>1 DEF PoolInfo
  <2> QED
    BY <1>2, <1>3, <2>1, <2>2, <2>3, RecordsStay
<1>6. ASSUME poolInfo' = poolInfo,
             lpRecovered' \/ (lpRecovered' = lpRecovered /\ \A lp \in LPTokens :
                                                              lpBalance'[lp] >= lpBalance[lp])
      PROVE  SInv'
  <2>1. Len(poolInfo') >= Len(poolInfo)
    BY <1>1, <1>6
  <2> QED
    BY <1>3, <1>6, <2>1, RecordsStay
<1>7. ASSUME NEW amount \in Nat, RecoverReward(amount) PROVE SInv'
  BY <1>2, <1>6, <1>7 DEF RecoverReward, history
<1>8. ASSUME NEW lp \in LPTokens, NEW amount \in Nat, RecoverLP(lp, amount) PROVE SInv'
  BY <1>6, <1>8 DEF RecoverLP
<1>9. ASSUME NEW u \in Users, NEW lp \in LPTokens, NEW amount \in Nat, ReceiveLP(u, lp, amount)
      PROVE  SInv'
  <2>1. \A x \in LPTokens : lpBalance'[x] >= lpBalance[x]
    BY <1>1, <1>9 DEF ReceiveLP
  <2> QED
    BY <1>6, <1>9, <2>1 DEF ReceiveLP, history
<1> QED
  BY <1>4, <1>5, <1>7, <1>8, <1>9

-----------------------------------------------------------------------------
(* Steps that change one record.                                           *)

Typed ==
  /\ Exacts \in Matrices
  /\ \A lp \in LPTokens : StakesOf(lp) \in Matrices
  /\ \A i \in PoolIds, u \in Users :
       /\ Exact(i, u) \in Nat /\ Exacts[i][u] = Exact(i, u)
       /\ \A lp \in LPTokens : /\ StakeOf(i, u, lp) \in Nat
                               /\ StakesOf(lp)[i][u] = StakeOf(i, u, lp)

LEMMA TypedAlways == IInv => Typed
BY MatricesAreTyped DEF Typed

\* The remainder of a division is less than the divisor.
LEMMA Remainders ==
  ASSUME NEW x \in Nat, NEW c \in Nat \ {0}
  PROVE  /\ x \div c \in Nat /\ c * (x \div c) \in Nat
         /\ c * (x \div c) <= x /\ x <= c * (x \div c) + c
<1> DEFINE q == x \div c
<1>1. q \in Nat /\ q * c <= x /\ x < (q + 1) * c
  OBVIOUS
<1> HIDE DEF q
<1>2. c * q = q * c /\ (q + 1) * c = q * c + c /\ q * c \in Nat
  BY <1>1
<1> QED
  BY <1>1, <1>2 DEF q

\* A new amount makes a record worth at most one unit more.
LEMMA RestakedWorth ==
  ASSUME NEW pool \in PoolInfo, NEW user \in UserInfo, NEW claimed \in Nat,
         IsSettled(pool, user), NEW amount \in Nat
  PROVE  Worth(pool, Restaked(pool, user, amount), claimed)
           <= Worth(pool, user, claimed) + MULTIPLIER
<1> DEFINE M == MULTIPLIER
           new == Restaked(pool, user, amount)
           x == amount * pool.accTokenPerShare
           p == Updated(pool, user).pending
           w == Worth(pool, user, claimed)
<1>1. M \in Nat \ {0} /\ x \in Nat /\ p \in Nat /\ w \in Nat
  <2>1. pool.accTokenPerShare \in Nat /\ M \in Nat \ {0}
    BY MasterChefAssumption DEF PoolInfo
  <2>2. x \in Nat
    BY <2>1
  <2> QED
    BY <2>1, <2>2, UpdatedIsNat, WorthIsNat
<1>2. /\ new.amount = amount /\ new.rewardDebt = Accrued(pool, amount) /\ new.pending = p
  BY RestakedIsSettled
<1>3. Accrued(pool, amount) = x \div M
  BY DEF Accrued
<1>4. M * (claimed + p) <= w
  BY WorthIsNat
<1>5. Worth(pool, new, claimed) = M * (claimed + p) + (x - M * (x \div M))
  BY <1>2, <1>3 DEF Worth
<1> HIDE DEF M, x, p, w, new
<1>6. M * (x \div M) \in Nat /\ M * (x \div M) <= x /\ x <= M * (x \div M) + M
  BY <1>1, Remainders
<1>7. M * (claimed + p) \in Nat
  BY <1>1
<1>8. Worth(pool, new, claimed) <= w + M
  <2> DEFINE y == M * (x \div M)
             z == M * (claimed + p)
  <2>1. y \in Nat /\ z \in Nat /\ y <= x /\ x <= y + M /\ z <= w
    BY <1>4, <1>6, <1>7
  <2> HIDE DEF y, z
  <2>2. z + (x - y) <= w + M
    BY <1>1, <2>1
  <2> QED
    BY <1>5, <2>2 DEF y, z
<1> QED
  BY <1>8 DEF M, new, w

\* A claim leaves a record worth what it was.
LEMMA ClaimedWorth ==
  ASSUME NEW pool \in PoolInfo, NEW user \in UserInfo, NEW claimed \in Nat,
         IsSettled(pool, user), NEW new \in UserInfo,
         new.amount = user.amount, new.pending = 0,
         new.rewardDebt = Accrued(pool, user.amount)
  PROVE  Worth(pool, new, claimed + Updated(pool, user).pending) = Worth(pool, user, claimed)
<1> DEFINE M == MULTIPLIER
           a == Accrued(pool, user.amount)
           x == user.amount * pool.accTokenPerShare
           d == user.rewardDebt
           p == user.pending
<1>1. /\ M \in Nat /\ d \in Nat /\ p \in Nat /\ a \in Nat /\ x \in Nat
  <2>1. /\ user.amount \in Nat /\ pool.accTokenPerShare \in Nat
        /\ pool.accTokenPerShare <= pool.accTokenPerShare
    BY DEF UserInfo, PoolInfo
  <2>2. x \in Nat
    BY <2>1
  <2>3. a \in Nat
    BY <2>1, AccruedGrows
  <2> QED
    BY <2>2, <2>3, MasterChefAssumption DEF UserInfo
<1>2. Updated(pool, user).pending = p + a - d
  BY UpdatedIsNat
<1>3. Worth(pool, user, claimed) = M * (claimed + p) + (x - M * d)
  BY DEF Worth
<1>4. Worth(pool, new, claimed + (p + a - d)) = M * (claimed + (p + a - d) + 0) + (x - M * a)
  BY DEF Worth
<1> HIDE DEF M, a, x, d, p
<1>5. M * (claimed + (p + a - d) + 0) = M * (claimed + p) + M * a - M * d
  <2>1. claimed + (p + a - d) + 0 = (claimed + p) + a - d
    BY <1>1
  <2> QED
    BY <1>1, <2>1
<1>6. M * (claimed + p) \in Int /\ M * a \in Int /\ M * d \in Int
  BY <1>1
<1> QED
  BY <1>1, <1>2, <1>3, <1>4, <1>5, <1>6

LEMMA OneMore ==
  ASSUME NEW m \in Nat, NEW x \in Nat
  PROVE  m * (x + 1) = m * x + m /\ m * x \in Nat
OBVIOUS

\* A restake moves one entry of each total.
LEMMA RestakeSharesStep ==
  ASSUME SInv, IInv', NEW i \in 1 .. Len(poolInfo), NEW u \in Users, NEW amount \in Nat,
         UNCHANGED <<poolInfo, paid, received, lpRecovered>>, moves' = moves + 1,
         userInfo'[i][u] = Restaked(poolInfo[i], userInfo[i][u], amount),
         \A j \in PoolIds, v \in Users :
           j # i \/ v # u => userInfo'[j][v] = userInfo[j][v],
         lpBalance'[poolInfo[i].lpToken] + userInfo[i][u].amount
           = lpBalance[poolInfo[i].lpToken] + amount,
         \A lp \in LPTokens : lp # poolInfo[i].lpToken => lpBalance'[lp] = lpBalance[lp]
  PROVE  SInv'
<1> DEFINE pool == poolInfo[i]
           user == userInfo[i][u]
           new == Restaked(pool, user, amount)
<1>1. /\ IInv /\ i \in PoolIds /\ pool \in PoolInfo /\ user \in UserInfo
      /\ paid[i][u] \in Nat /\ IsSettled(pool, user) /\ user.amount \in Nat
      /\ ~(i > Len(poolInfo)) /\ i <= Len(poolInfo) /\ pool.lpToken \in LPTokens
  <2>1. IInv /\ i \in PoolIds /\ pool \in PoolInfo /\ Len(poolInfo) \in Nat
    BY PoolsAreTyped DEF SInv, IInv
  <2>2. user \in UserInfo /\ paid[i][u] \in Nat /\ IsSettled(pool, user)
    BY <2>1 DEF IInv, Types, Settled
  <2>3. user.amount \in Nat /\ pool.lpToken \in LPTokens
    BY <2>1, <2>2 DEF UserInfo, PoolInfo
  <2>4. ~(i > Len(poolInfo)) /\ i <= Len(poolInfo)
    BY <2>1
  <2> QED
    BY <2>1, <2>2, <2>3, <2>4
<1>2. Typed /\ Typed'
  <2>1. Typed
    BY <1>1, TypedAlways
  <2>2. Typed'
    BY TypedAlways, PTL
  <2> QED
    BY <2>1, <2>2
<1>3. \A j \in PoolIds, v \in Users : j # i \/ v # u =>
        /\ Exact(j, v)' = Exact(j, v)
        /\ \A lp \in LPTokens : StakeOf(j, v, lp)' = StakeOf(j, v, lp)
  BY DEF Exact, StakeOf
<1>4. Exact(i, u)' <= Exact(i, u) + MULTIPLIER
  <2>1. Exact(i, u) = Worth(pool, user, paid[i][u])
        /\ Exact(i, u)' = Worth(pool, new, paid[i][u])
    BY <1>1 DEF Exact
  <2> HIDE DEF pool, user, new
  <2>2. Worth(pool, Restaked(pool, user, amount), paid[i][u])
          <= Worth(pool, user, paid[i][u]) + MULTIPLIER
    BY <1>1, RestakedWorth
  <2> QED
    BY <2>1, <2>2 DEF new
<1>5. \A lp \in LPTokens :
        /\ lp = pool.lpToken => StakeOf(i, u, lp) = user.amount /\ StakeOf(i, u, lp)' = amount
        /\ lp # pool.lpToken => StakeOf(i, u, lp) = 0 /\ StakeOf(i, u, lp)' = 0
  <2>1. new.amount = amount
    <3> HIDE DEF pool, user
    <3> QED
      BY <1>1, RestakedIsSettled
  <2> QED
    BY <1>1, <2>1 DEF StakeOf
<1>6. /\ MULTIPLIER \in Nat /\ moves \in Nat /\ received \in Nat
      /\ \A lp \in LPTokens : lpBalance[lp] \in Nat /\ lpBalance'[lp] \in Nat
      /\ Total(Exacts) \in Nat /\ Exact(i, u) \in Nat /\ Exact(i, u)' \in Nat
      /\ \A lp \in LPTokens : Total(StakesOf(lp)) \in Nat
  <2>1. Total(Exacts) \in Nat /\ \A lp \in LPTokens : Total(StakesOf(lp)) \in Nat
    BY <1>2, RowsAreTyped DEF Typed
  <2>2. Exact(i, u) \in Nat /\ Exact(i, u)' \in Nat
    BY <1>1, <1>2 DEF Typed
  <2> QED
    BY <1>1, <2>1, <2>2, MasterChefAssumption DEF IInv, Types
<1>7. StakesAreHeld'
  <2>1. StakesAreHeld'
          <=> (~lpRecovered' => \A lp \in LPTokens : (Total(StakesOf(lp)))' <= lpBalance'[lp])
    BY DEF StakesAreHeld, StakesOf, StakeOf
  <2>2. ~lpRecovered => \A lp \in LPTokens : Total(StakesOf(lp)) <= lpBalance[lp]
    BY HeldByDefinition DEF SInv
  <2>3. ASSUME NEW lp \in LPTokens
        PROVE  (Total(StakesOf(lp)))'
                 = Total(StakesOf(lp)) - StakeOf(i, u, lp) + StakeOf(i, u, lp)'
    <3> DEFINE f == StakesOf(lp)
               g == StakesOf(lp)'
    <3>1. f \in Matrices /\ g \in Matrices /\ f[i][u] = StakeOf(i, u, lp)
          /\ g[i][u] = StakeOf(i, u, lp)'
      BY <1>1, <1>2 DEF Typed
    <3>2. \A j \in PoolIds, v \in Users : j # i \/ v # u => g[j][v] = f[j][v]
      BY <1>2, <1>3 DEF Typed
    <3>3. (Total(StakesOf(lp)))' = Total(g)
      BY DEF Total
    <3> HIDE DEF f, g
    <3>4. Total(g) = Total(f) - f[i][u] + g[i][u]
      BY <1>1, <3>1, <3>2, TotalChanges
    <3> QED
      BY <3>1, <3>3, <3>4 DEF f
  <2>4. ASSUME NEW lp \in LPTokens, ~lpRecovered
        PROVE  (Total(StakesOf(lp)))' <= lpBalance'[lp]
    <3> DEFINE t == Total(StakesOf(lp))
    <3>1. t \in Nat /\ t <= lpBalance[lp] /\ (Total(StakesOf(lp)))'
            = t - StakeOf(i, u, lp) + StakeOf(i, u, lp)'
      BY <1>6, <2>2, <2>3, <2>4
    <3>2. CASE lp = pool.lpToken
      <4>1. lpBalance'[lp] + user.amount = lpBalance[lp] + amount
        BY <3>2
      <4>2. (Total(StakesOf(lp)))' = t - user.amount + amount
        BY <1>5, <3>1, <3>2
      <4> DEFINE b == lpBalance[lp]
                 b2 == lpBalance'[lp]
                 t2 == (Total(StakesOf(lp)))'
                 a == user.amount
      <4>3. /\ b \in Nat /\ b2 \in Nat /\ t \in Nat /\ a \in Nat /\ t <= b
            /\ b2 + a = b + amount /\ t2 = t - a + amount
        BY <1>1, <1>6, <3>1, <4>1, <4>2
      <4> HIDE DEF t, b, b2, t2, a
      <4>4. t2 <= b2
        BY <4>3
      <4> QED
        BY <4>4 DEF t2, b2
    <3>3. CASE lp # pool.lpToken
      <4>1. lpBalance'[lp] = lpBalance[lp]
        BY <3>3
      <4> HIDE DEF t, user, pool
      <4> QED
        BY <1>5, <3>1, <3>3, <4>1
    <3> QED
      BY <3>2, <3>3
  <2> QED
    BY <2>1, <2>4
<1>8. SharedExactly'
  <2> SUFFICES ASSUME ~lpRecovered'
               PROVE  (Total(Exacts))' <= MULTIPLIER * (received' + moves')
    BY DEF SharedExactly
  <2> DEFINE t == Total(Exacts)
             f == Exacts
             g == Exacts'
  <2>1. t <= MULTIPLIER * (received + moves)
    BY DEF SInv, SharedExactly
  <2>2. (Total(Exacts))' = t - Exact(i, u) + Exact(i, u)'
    <3>1. f \in Matrices /\ g \in Matrices /\ f[i][u] = Exact(i, u) /\ g[i][u] = Exact(i, u)'
      BY <1>1, <1>2 DEF Typed
    <3>2. \A j \in PoolIds, v \in Users : j # i \/ v # u => g[j][v] = f[j][v]
      BY <1>2, <1>3 DEF Typed
    <3>3. (Total(Exacts))' = Total(g)
      BY DEF Total
    <3> HIDE DEF f, g
    <3>4. Total(g) = Total(f) - f[i][u] + g[i][u]
      BY <1>1, <3>1, <3>2, TotalChanges
    <3> QED
      BY <3>1, <3>3, <3>4 DEF f
  <2>3. MULTIPLIER * (received' + moves') = MULTIPLIER * (received + moves) + MULTIPLIER
        /\ MULTIPLIER * (received + moves) \in Nat
    <3>1. received' + moves' = (received + moves) + 1 /\ received + moves \in Nat
      BY <1>6
    <3> QED
      BY <1>6, <3>1, OneMore
  <2> DEFINE b == MULTIPLIER * (received + moves)
  <2>4. t \in Nat /\ b \in Nat /\ t <= b
    BY <1>6, <2>1, <2>3
  <2> HIDE DEF t, b
  <2>5. (Total(Exacts))' <= b + MULTIPLIER
    BY <1>4, <1>6, <2>2, <2>4
  <2> QED
    BY <2>3, <2>5 DEF b
<1> QED
  BY <1>7, <1>8 DEF SInv

LEMMA StakeSharesStep ==
  ASSUME SInv, IInv', NEW i \in 1 .. Len(poolInfo), NEW u \in Users, NEW amount \in Nat,
         Stake(u, i, amount) \/ Unstake(u, i, amount)
  PROVE  SInv'
<1> DEFINE user == userInfo[i][u]
           lp == poolInfo[i].lpToken
<1>1. /\ i \in PoolIds /\ poolInfo[i] \in PoolInfo
      /\ userInfo \in [PoolIds -> [Users -> UserInfo]]
      /\ lpBalance \in [LPTokens -> Nat]
  BY PoolsAreTyped DEF SInv, IInv, Types
<1>2. lp \in LPTokens /\ user.amount \in Nat /\ lpBalance[lp] \in Nat
  BY <1>1 DEF PoolInfo, UserInfo
<1>3. ASSUME NEW total \in Nat, NEW held \in Nat, held + user.amount = lpBalance[lp] + total,
             lpBalance' = [lpBalance EXCEPT ![lp] = held],
             userInfo' = [userInfo EXCEPT ![i][u] = Restaked(poolInfo[i], user, total)],
             moves' = moves + 1,
             UNCHANGED <<poolInfo, paid, received, lpRecovered>>
      PROVE  SInv'
  <2>1. userInfo'[i][u] = Restaked(poolInfo[i], userInfo[i][u], total)
    BY <1>1, <1>3
  <2>2. \A j \in PoolIds, v \in Users : j # i \/ v # u => userInfo'[j][v] = userInfo[j][v]
    BY <1>1, <1>3
  <2>3. /\ lpBalance'[lp] + user.amount = lpBalance[lp] + total
        /\ \A x \in LPTokens : x # lp => lpBalance'[x] = lpBalance[x]
    BY <1>1, <1>2, <1>3
  <2>4. moves' = moves + 1 /\ UNCHANGED <<poolInfo, paid, received, lpRecovered>>
    BY <1>3
  <2> QED
    BY <2>1, <2>2, <2>3, <2>4, RestakeSharesStep
<1>4. CASE Stake(u, i, amount)
  <2>1. PICK total \in Nat, held \in Nat :
          total = user.amount + amount /\ held = lpBalance[lp] + amount
    BY <1>2
  <2>2. held + user.amount = lpBalance[lp] + total
    BY <1>2, <2>1
  <2>3. /\ lpBalance' = [lpBalance EXCEPT ![lp] = held]
        /\ userInfo' = [userInfo EXCEPT ![i][u] = Restaked(poolInfo[i], user, total)]
        /\ moves' = moves + 1
        /\ UNCHANGED <<poolInfo, paid, received, lpRecovered>>
    BY <1>1, <1>4, <2>1 DEF Stake
  <2> QED
    BY <1>3, <2>2, <2>3
<1>5. CASE Unstake(u, i, amount)
  <2>0. amount <= user.amount /\ amount <= lpBalance[lp]
    BY <1>5 DEF Unstake
  <2>1. PICK total \in Nat, held \in Nat :
          total = user.amount - amount /\ held = lpBalance[lp] - amount
    BY <1>2, <2>0
  <2>2. held + user.amount = lpBalance[lp] + total
    BY <1>2, <2>1
  <2>3. /\ lpBalance' = [lpBalance EXCEPT ![lp] = held]
        /\ userInfo' = [userInfo EXCEPT ![i][u] = Restaked(poolInfo[i], user, total)]
        /\ moves' = moves + 1
        /\ UNCHANGED <<poolInfo, paid, received, lpRecovered>>
    BY <1>1, <1>5, <2>1 DEF Unstake
  <2> QED
    BY <1>3, <2>2, <2>3
<1> QED
  BY <1>4, <1>5

LEMMA ClaimSharesStep ==
  ASSUME SInv, IInv', NEW i \in 1 .. Len(poolInfo), NEW u \in Users, Claim(u, i)
  PROVE  SInv'
<1> DEFINE user == userInfo[i][u]
           pool == poolInfo[i]
           due == Updated(pool, user).pending
           up == Restaked(pool, user, user.amount)
           new == [up EXCEPT !.pending = 0]
<1>1. /\ i \in PoolIds /\ pool \in PoolInfo /\ user \in UserInfo /\ IsSettled(pool, user)
      /\ paid \in [PoolIds -> [Users -> Nat]] /\ paid[i][u] \in Nat
      /\ userInfo \in [PoolIds -> [Users -> UserInfo]]
      /\ ~(i > Len(poolInfo))
  BY PoolsAreTyped DEF SInv, IInv, Types, Settled
<1>2. /\ new \in UserInfo /\ new.amount = user.amount /\ new.pending = 0
      /\ new.rewardDebt = Accrued(pool, user.amount)
  <2>1. user.amount \in Nat
    BY <1>1 DEF UserInfo
  <2>2. /\ up \in UserInfo /\ up.amount = user.amount
        /\ up.rewardDebt = Accrued(pool, user.amount)
    <3> HIDE DEF user, pool
    <3> QED
      BY <1>1, <2>1, RestakedIsSettled
  <2> HIDE DEF user, pool, up
  <2> QED
    BY <2>2 DEF UserInfo
<1>3. /\ userInfo' = [userInfo EXCEPT ![i][u] = new]
      /\ paid' = [paid EXCEPT ![i][u] = paid[i][u] + due]
      /\ poolInfo' = poolInfo /\ lpBalance' = lpBalance /\ received' = received
      /\ moves' = moves /\ lpRecovered' = lpRecovered
  BY <1>1 DEF Claim
<1> HIDE DEF user, pool, due, up, new
<1>4. /\ userInfo'[i][u] = new /\ paid'[i][u] = paid[i][u] + due
      /\ \A j \in PoolIds, v \in Users : j # i \/ v # u =>
           userInfo'[j][v] = userInfo[j][v] /\ paid'[j][v] = paid[j][v]
  BY <1>1, <1>3
<1>5. Worth(pool, new, paid[i][u] + due) = Worth(pool, user, paid[i][u])
  <2>1. PICK x \in UserInfo : x = new
    BY <1>2
  <2>2. x.amount = user.amount /\ x.pending = 0 /\ x.rewardDebt = Accrued(pool, user.amount)
    BY <1>2, <2>1
  <2>3. Worth(pool, x, paid[i][u] + Updated(pool, user).pending)
          = Worth(pool, user, paid[i][u])
    BY <1>1, <2>2, ClaimedWorth
  <2> QED
    BY <2>1, <2>3 DEF due
<1>6. Exact(i, u)' = Exact(i, u)
  <2>1. Exact(i, u) = Worth(pool, user, paid[i][u])
    BY <1>1 DEF Exact, pool, user
  <2>2. Exact(i, u)' = Worth(pool, new, paid[i][u] + due)
    BY <1>1, <1>3, <1>4 DEF Exact, pool
  <2> QED
    BY <1>5, <2>1, <2>2
<1>7. \A j \in PoolIds, v \in Users :
        /\ Exact(j, v)' = Exact(j, v)
        /\ \A lp \in LPTokens : StakeOf(j, v, lp)' = StakeOf(j, v, lp)
  <2>1. TAKE j \in PoolIds, v \in Users
  <2>2. CASE j # i \/ v # u
    BY <1>3, <1>4, <2>2 DEF Exact, StakeOf
  <2>3. CASE ~(j # i \/ v # u)
    <3>1. userInfo'[i][u].amount = userInfo[i][u].amount
      BY <1>2, <1>4 DEF user
    <3> QED
      BY <1>3, <1>6, <2>3, <3>1 DEF StakeOf
  <2> QED
    BY <2>2, <2>3
<1>8. received' >= received /\ \A lp \in LPTokens : lpBalance'[lp] >= lpBalance[lp]
  BY <1>3 DEF SInv, IInv, Types
<1> QED
  BY <1>3, <1>7, <1>8, NothingMoves

LEMMA InitSInv == Init => SInv
<1> SUFFICES ASSUME Init PROVE SInv
  OBVIOUS
<1>1. IInv /\ poolInfo = <<>> /\ Len(poolInfo) = 0
  BY InitIInv DEF Init
<1>2. \A i \in PoolIds, u \in Users :
        Exact(i, u) = 0 /\ \A lp \in LPTokens : StakeOf(i, u, lp) = 0
  BY <1>1 DEF Exact, StakeOf, PoolIds
<1> DEFINE zero == [i \in PoolIds |-> [u \in Users |-> 0]]
<1>3. zero \in Matrices
  BY DEF Matrices
<1>4. Exacts = zero /\ \A lp \in LPTokens : StakesOf(lp) = zero
  BY <1>2 DEF Exacts, StakesOf
<1>5. Total(zero) = 0
  <2>1. \A i \in PoolIds, u \in Users : 2 * zero[i][u] <= zero[i][u]
    OBVIOUS
  <2>2. 2 * Total(zero) <= Total(zero) /\ Total(zero) \in Nat
    <3> HIDE DEF zero
    <3> QED
      BY <1>3, <2>1, TotalCompares, RowsAreTyped
  <2> HIDE DEF zero
  <2> QED
    BY <2>2
<1> HIDE DEF zero
<1>6. \A lp \in LPTokens : lpBalance[lp] \in Nat
  BY <1>1 DEF IInv, Types
<1>7. MULTIPLIER * (received + moves) \in Nat
  BY <1>1, MasterChefAssumption DEF IInv, Types
<1>8. StakesAreHeld /\ SharedExactly
  BY <1>4, <1>5, <1>6, <1>7, HeldByDefinition DEF SharedExactly
<1> QED
  BY <1>1, <1>8 DEF SInv

-----------------------------------------------------------------------------
(* Rewards.                                                                *)

\* The points of the pools, with none for the pools that do not exist.
Points == [i \in PoolIds |-> IF i <= Len(poolInfo) THEN poolInfo[i].allocPoint ELSE 0]

LEMMA PointsAreTotal ==
  ASSUME IInv
  PROVE  /\ \A i \in PoolIds : Points[i] \in Nat
         /\ SumTo(Points, MaxPools) = totalAllocPoint
<1> DEFINE n == Len(poolInfo)
           f == [i \in 1 .. n |-> poolInfo[i].allocPoint]
           zero == [i \in PoolIds |-> 0]
           al == Points
<1>1. /\ n \in Nat /\ MaxPools \in Nat /\ n <= MaxPools
      /\ \A i \in 1 .. n : i \in PoolIds /\ poolInfo[i].allocPoint \in Nat
  BY PoolsAreTyped DEF IInv, Types, PoolInfo
<1>2. /\ \A i \in 1 .. MaxPools : al[i] \in Nat /\ zero[i] = 0
      /\ \A i \in 1 .. n : f[i] \in Nat /\ f[i] = al[i]
      /\ \A i \in (n + 1) .. MaxPools : al[i] = zero[i]
  BY <1>1 DEF Points, PoolIds
<1>3. totalAllocPoint = SumTo(f, n)
  BY DEF IInv, AllocationsAddUp
<1> HIDE DEF f, al, zero, n
<1>4. SumTo(f, n) = SumTo(al, n)
  BY <1>1, <1>2, SumToAgrees
<1>5. ASSUME NEW m \in 0 .. MaxPools PROVE SumTo(zero, m) = 0
  <2>1. m \in Nat /\ \A i \in 1 .. m : zero[i] \in Nat
                       /\ 2 * zero[i] + 0 * zero[i] <= 1 * zero[i] + 0 * zero[i]
    BY <1>1, <1>2
  <2>2. 2 * SumTo(zero, m) + 0 * SumTo(zero, m) <= 1 * SumTo(zero, m) + 0 * SumTo(zero, m)
    BY <2>1, SumToCombines
  <2>3. \A k \in 0 .. m : SumTo(zero, k) \in Nat
    BY <2>1, SumToNat
  <2>4. SumTo(zero, m) \in Nat
    BY <2>1, <2>3
  <2> QED
    BY <2>2, <2>4
<1>6. SumTo(al, MaxPools) - SumTo(al, n) = SumTo(zero, MaxPools) - SumTo(zero, n)
  <2>1. n \in 0 .. MaxPools /\ \A i \in 1 .. MaxPools : al[i] \in Nat /\ zero[i] \in Nat
    BY <1>1, <1>2
  <2> QED
    BY <1>1, <1>2, <2>1, SumToAgreesBetween
<1>7. SumTo(zero, MaxPools) = 0 /\ SumTo(zero, n) = 0
  BY <1>1, <1>5
<1>8. SumTo(al, MaxPools) \in Nat /\ SumTo(al, n) \in Nat
  <2>1. \A m \in 0 .. MaxPools : SumTo(al, m) \in Nat
    BY <1>1, <1>2, SumToNat
  <2> QED
    BY <1>1, <2>1
<1>9. SumTo(al, MaxPools) = totalAllocPoint
  BY <1>3, <1>4, <1>6, <1>7, <1>8
<1> QED
  BY <1>2, <1>9 DEF al, PoolIds

\* The stakes of a pool are among the tokens the contract holds.
LEMMA PoolIsHeld ==
  ASSUME SInv, ~lpRecovered, NEW i \in 1 .. Len(poolInfo)
  PROVE  /\ i \in PoolIds
         /\ [u \in Users |-> userInfo[i][u].amount] \in [Users -> Nat]
         /\ SumOver([u \in Users |-> userInfo[i][u].amount], EnumerationOf(Users)) \in Nat
         /\ SumOver([u \in Users |-> userInfo[i][u].amount], EnumerationOf(Users))
              <= lpBalance[poolInfo[i].lpToken]
<1> DEFINE lp == poolInfo[i].lpToken
           staked == [u \in Users |-> userInfo[i][u].amount]
           f == StakesOf(lp)
<1>1. IInv /\ i \in PoolIds /\ lp \in LPTokens /\ i <= Len(poolInfo) /\ lpBalance[lp] \in Nat
  <2>1. IInv /\ i \in PoolIds /\ poolInfo[i] \in PoolInfo /\ Len(poolInfo) \in Nat
    BY PoolsAreTyped DEF SInv, IInv
  <2> QED
    BY <2>1 DEF IInv, Types, PoolInfo
<1>2. staked \in [Users -> Nat]
  BY <1>1 DEF IInv, Types, UserInfo
<1>3. f \in Matrices /\ [u \in Users |-> f[i][u]] = staked
  <2>1. f \in Matrices
    BY <1>1, MatricesAreTyped
  <2> QED
    BY <1>1, <2>1 DEF StakesOf, StakeOf
<1>4. Total(f) <= lpBalance[lp]
  BY <1>1, HeldByDefinition DEF SInv
<1> HIDE DEF f, staked
<1>5. /\ MaxPools \in Nat /\ \A j \in PoolIds : Rows(f)[j] \in Nat
      /\ Rows(f)[i] = Row(f, i) /\ Total(f) = SumTo(Rows(f), MaxPools) /\ Total(f) \in Nat
  BY <1>1, <1>3, RowsAreTyped
<1>6. Rows(f)[i] = SumOver(staked, EnumerationOf(Users))
  BY <1>3, <1>5 DEF Row
<1>7. Rows(f)[i] <= Total(f)
  <2>1. i \in 1 .. MaxPools /\ \A j \in 1 .. MaxPools : Rows(f)[j] \in Nat
    BY <1>1, <1>5 DEF PoolIds
  <2> HIDE DEF Rows
  <2>2. Rows(f)[i] <= SumTo(Rows(f), MaxPools)
    BY <1>5, <2>1, SumToBounds
  <2> QED
    BY <1>5, <2>2
<1>8. Rows(f)[i] \in Nat
  BY <1>1, <1>5
<1>9. SumOver(staked, EnumerationOf(Users)) \in Nat
      /\ SumOver(staked, EnumerationOf(Users)) <= lpBalance[lp]
  BY <1>1, <1>4, <1>5, <1>6, <1>7, <1>8
<1> QED
  BY <1>1, <1>2, <1>9 DEF staked

\* A pool's accumulator gives its stakers at most the pool's part of a reward.
LEMMA PoolGetsItsPart ==
  ASSUME NEW t \in Nat, NEW held \in Nat, NEW m \in Nat, NEW r \in Nat, NEW p \in Nat,
         NEW staked \in Nat, t * held > 0, staked <= held
  PROVE  LET share == (r * p * m) \div (t * held)
         IN  share \in Nat /\ t * (share * staked) <= (m * r) * p
<1> DEFINE d == t * held
           x == r * p * m
           share == x \div d
<1>1. d \in Nat \ {0} /\ x \in Nat /\ x = (m * r) * p
  <2>1. d \in Nat /\ d > 0
    OBVIOUS
  <2>2. r * p \in Nat /\ m * r \in Nat
    OBVIOUS
  <2>3. (r * p) * m \in Nat /\ (r * p) * m = (m * r) * p
    BY <2>2
  <2> HIDE DEF d
  <2> QED
    BY <2>1, <2>3
<1>2. share \in Nat /\ d * share <= x
  <2> HIDE DEF d, x
  <2> QED
    BY <1>1, Remainders
<1>3. t * (share * staked) <= d * share
  <2> HIDE DEF share
  <2>1. share * staked \in Nat /\ share * held \in Nat /\ share * staked <= share * held
    BY <1>2, MultiplesAreMonotone
  <2>2. t * (share * staked) <= t * (share * held)
    BY <2>1, MultiplesAreMonotone
  <2>3. t * (share * held) = (t * held) * share
    BY <1>2
  <2> QED
    BY <2>2, <2>3
<1>4. t * (share * staked) \in Nat /\ d * share \in Nat
  <2> HIDE DEF share
  <2> QED
    BY <1>1, <1>2
<1>5. t * (share * staked) <= x
  <2> DEFINE y == t * (share * staked)
             z == d * share
  <2>1. y \in Nat /\ z \in Nat /\ y <= z /\ z <= x
    BY <1>2, <1>3, <1>4
  <2> HIDE DEF x, y, z
  <2>2. y <= x
    BY <1>1, <2>1
  <2> QED
    BY <2>2 DEF y
<1> QED
  BY <1>1, <1>2, <1>5

\* A record gains its stake times what the accumulator gained.
LEMMA WorthGrows ==
  ASSUME NEW pool \in PoolInfo, NEW later \in PoolInfo, NEW user \in UserInfo,
         NEW claimed \in Nat, NEW share \in Nat,
         later.accTokenPerShare = pool.accTokenPerShare + share
  PROVE  Worth(later, user, claimed) = Worth(pool, user, claimed) + share * user.amount
<1> DEFINE a == pool.accTokenPerShare
           s == user.amount
           d == MULTIPLIER * user.rewardDebt
           c == MULTIPLIER * (claimed + user.pending)
<1>1. a \in Nat /\ s \in Nat /\ d \in Nat /\ c \in Nat
  <2>1. /\ a \in Nat /\ s \in Nat /\ MULTIPLIER \in Nat /\ user.rewardDebt \in Nat
        /\ user.pending \in Nat
    BY MasterChefAssumption DEF PoolInfo, UserInfo
  <2> QED
    BY <2>1
<1>2. /\ Worth(pool, user, claimed) = c + (s * a - d)
      /\ Worth(later, user, claimed) = c + (s * (a + share) - d)
  BY DEF Worth
<1> HIDE DEF a, s, d, c
<1>3. s * (a + share) = s * a + share * s /\ s * a \in Nat /\ share * s \in Nat
  BY <1>1
<1>4. c + (s * (a + share) - d) = c + (s * a - d) + share * s
  BY <1>1, <1>3
<1> QED
  BY <1>2, <1>4 DEF s

\* Of a reward, the pools share out no more than there is.
LEMMA RewardIsSharedOnce ==
  ASSUME SInv, IInv', ~lpRecovered, NEW amount \in Nat, ReceiveReward(amount),
         Len(poolInfo) # 0
  PROVE  (Total(Exacts))' <= Total(Exacts) + MULTIPLIER * amount
<1> DEFINE n == Len(poolInfo)
           t == totalAllocPoint
           w == MULTIPLIER * amount
           held(i) == lpBalance[poolInfo[i].lpToken]
           share(i) == PerShare(poolInfo[i], amount)
           f == Exacts
           g == Exacts'
<1>1. /\ IInv /\ n \in Nat /\ n # 0 /\ MaxPools \in Nat /\ MULTIPLIER \in Nat
      /\ IsFiniteSet(Users) /\ t \in Nat /\ w \in Nat
      /\ \A i \in 1 .. n : i \in PoolIds /\ poolInfo[i] \in PoolInfo
  BY PoolsAreTyped, MasterChefAssumption DEF SInv, IInv, Types
<1>2. \A i \in 1 .. n : /\ held(i) \in Nat /\ poolInfo[i].allocPoint \in Nat
                        /\ poolInfo[i].lpToken \in LPTokens /\ t * held(i) > 0
  <2>1. TAKE i \in 1 .. n
  <2>2. poolInfo[i].allocPoint \in Nat /\ poolInfo[i].lpToken \in LPTokens
    BY <1>1 DEF PoolInfo
  <2>3. lpBalance[poolInfo[i].lpToken] \in Nat
    BY <1>1, <2>2 DEF IInv, Types
  <2> QED
    BY <2>2, <2>3 DEF ReceiveReward
<1>3. t > 0
  <2>1. 1 \in 1 .. n
    BY <1>1
  <2>2. t * held(1) > 0 /\ held(1) \in Nat
    BY <1>2, <2>1
  <2>3. ASSUME t = 0 PROVE FALSE
    <3>1. t * held(1) = 0
      BY <2>2, <2>3
    <3> QED
      BY <2>2, <3>1
  <2> QED
    BY <1>1, <2>3
<1>4. Typed /\ Typed'
  <2>1. Typed
    BY <1>1, TypedAlways
  <2>2. Typed'
    BY TypedAlways, PTL
  <2> QED
    BY <2>1, <2>2
<1>5. f \in Matrices /\ g \in Matrices
  BY <1>4 DEF Typed
<1>6. /\ \A i \in PoolIds : Rows(f)[i] \in Nat /\ Rows(f)[i] = Row(f, i)
                            /\ Rows(g)[i] \in Nat /\ Rows(g)[i] = Row(g, i)
      /\ Total(f) = SumTo(Rows(f), MaxPools) /\ Total(g) = SumTo(Rows(g), MaxPools)
      /\ Total(f) \in Nat /\ Total(g) \in Nat
  <2> HIDE DEF f, g
  <2> QED
    BY <1>5, RowsAreTyped
<1>7. \A i \in PoolIds, u \in Users :
        /\ f[i][u] = Exact(i, u) /\ g[i][u] = Exact(i, u)'
        /\ f[i][u] \in Nat /\ g[i][u] \in Nat
  BY <1>4 DEF Typed
<1>8. (Total(Exacts))' = Total(g)
  BY DEF Total
<1>9. ASSUME NEW i \in 1 .. n
      PROVE  t * Rows(g)[i] <= t * Rows(f)[i] + w * poolInfo[i].allocPoint
  <2> DEFINE staked == [u \in Users |-> userInfo[i][u].amount]
             Sum(r) == SumOver(r, EnumerationOf(Users))
  <2>1. /\ i \in PoolIds /\ staked \in [Users -> Nat] /\ Sum(staked) \in Nat
        /\ Sum(staked) <= held(i)
    BY PoolIsHeld
  <2>2. share(i) \in Nat /\ t * (share(i) * Sum(staked)) <= w * poolInfo[i].allocPoint
    <3> DEFINE x == Sum(staked)
    <3>1. x \in Nat /\ x <= held(i)
      BY <2>1
    <3>2. share(i) = (amount * poolInfo[i].allocPoint * MULTIPLIER) \div (t * held(i))
      BY DEF PerShare
    <3> HIDE DEF x, held, share, t
    <3>3. LET s == (amount * poolInfo[i].allocPoint * MULTIPLIER) \div (t * held(i))
          IN  s \in Nat /\ t * (s * x) <= (MULTIPLIER * amount) * poolInfo[i].allocPoint
      BY <1>1, <1>2, <3>1, PoolGetsItsPart
    <3> QED
      BY <3>2, <3>3 DEF x
  <2>3. ASSUME NEW u \in Users
        PROVE  Exact(i, u)' = Exact(i, u) + share(i) * staked[u]
    <3>1. /\ userInfo[i][u] \in UserInfo /\ paid[i][u] \in Nat /\ poolInfo[i] \in PoolInfo
          /\ staked[u] = userInfo[i][u].amount
      BY <1>1, <2>1 DEF IInv, Types
    <3>2. /\ poolInfo' = [k \in 1 .. n |->
               [poolInfo[k] EXCEPT !.accTokenPerShare = @ + PerShare(poolInfo[k], amount)]]
          /\ userInfo' = userInfo /\ paid' = paid
      BY DEF ReceiveReward
    <3>3. poolInfo'[i] = [poolInfo[i] EXCEPT !.accTokenPerShare = @ + share(i)]
          /\ Len(poolInfo') = n
      BY <1>1, <3>2
    <3> HIDE DEF share
    <3>4. /\ poolInfo'[i] \in PoolInfo
          /\ poolInfo'[i].accTokenPerShare = poolInfo[i].accTokenPerShare + share(i)
      <4>1. poolInfo[i].accTokenPerShare \in Nat
            /\ poolInfo[i].accTokenPerShare + share(i) \in Nat
        BY <2>2, <3>1 DEF PoolInfo
      <4> QED
        BY <3>1, <3>3, <4>1 DEF PoolInfo
    <3>5. /\ Exact(i, u) = Worth(poolInfo[i], userInfo[i][u], paid[i][u])
          /\ Exact(i, u)' = Worth(poolInfo'[i], userInfo[i][u], paid[i][u])
      BY <1>1, <3>2, <3>3 DEF Exact
    <3>6. Worth(poolInfo'[i], userInfo[i][u], paid[i][u])
            = Worth(poolInfo[i], userInfo[i][u], paid[i][u]) + share(i) * userInfo[i][u].amount
      BY <2>2, <3>1, <3>4, WorthGrows
    <3> QED
      BY <3>1, <3>5, <3>6
  <2> DEFINE p == f[i]
             q == g[i]
             s == share(i)
  <2>4. /\ p \in [Users -> Nat] /\ q \in [Users -> Nat]
        /\ \A u \in Users : /\ q[u] = p[u] + s * staked[u] /\ q[u] \in Nat /\ p[u] \in Nat
                            /\ staked[u] \in Nat
    BY <1>5, <1>7, <2>1, <2>3 DEF Matrices
  <2>5. Rows(f)[i] = Sum(p) /\ Rows(g)[i] = Sum(q)
    <3>1. [u \in Users |-> f[i][u]] = p /\ [u \in Users |-> g[i][u]] = q
      BY <2>4
    <3> QED
      BY <1>6, <2>1, <3>1 DEF Row
  <2>6. s \in Nat /\ t * (s * Sum(staked)) <= w * poolInfo[i].allocPoint
    BY <2>2
  <2> HIDE DEF p, q, s, staked
  <2>7. \A u \in Users : 1 * q[u] + 0 * staked[u] <= 1 * p[u] + s * staked[u]
    <3>1. TAKE u \in Users
    <3>2. s * staked[u] \in Nat
      BY <2>4, <2>6
    <3> QED
      BY <2>4, <3>2
  <2>8. 1 * Sum(q) + 0 * Sum(staked) <= 1 * Sum(p) + s * Sum(staked)
    BY <1>1, <2>1, <2>4, <2>6, <2>7, SumOverCombines
  <2>9. Sum(p) \in Nat /\ Sum(q) \in Nat
    BY <1>6, <2>1, <2>5
  <2> DEFINE P == Sum(p)
             Q == Sum(q)
             S == Sum(staked)
             a == poolInfo[i].allocPoint
  <2>10. P \in Nat /\ Q \in Nat /\ S \in Nat /\ Q <= P + s * S /\ a \in Nat
    <3>1. s * Sum(staked) \in Nat
      BY <2>1, <2>6
    <3> QED
      BY <1>2, <2>1, <2>8, <2>9, <3>1
  <2>11. t * (s * S) <= w * a
    BY <2>6
  <2> HIDE DEF P, Q, S, a, w, t
  <2>12. t * Q <= t * P + w * a
    <3>1. s * S \in Nat /\ P + s * S \in Nat
      BY <2>6, <2>10
    <3>2. t * Q <= t * (P + s * S)
      BY <1>1, <2>10, <3>1, MultiplesAreMonotone
    <3>3. t * (P + s * S) = t * P + t * (s * S)
      BY <1>1, <2>10, <3>1
    <3>4. t * Q \in Nat /\ t * P \in Nat /\ t * (s * S) \in Nat /\ w * a \in Nat
      BY <1>1, <2>10, <3>1
    <3> QED
      BY <2>11, <3>2, <3>3, <3>4
  <2> QED
    BY <2>5, <2>12 DEF P, Q, a
<1>10. \A i \in PoolIds : i > n => Rows(f)[i] = 0 /\ Rows(g)[i] = 0
  <2>1. TAKE i \in PoolIds
  <2>2. HAVE i > n
  <2>3. Len(poolInfo') = n
    BY <1>1 DEF ReceiveReward
  <2>4. \A u \in Users : f[i][u] = 0 /\ g[i][u] = 0
    BY <1>7, <2>2, <2>3 DEF Exact
  <2> DEFINE p == [u \in Users |-> f[i][u]]
             q == [u \in Users |-> g[i][u]]
  <2>5. p \in [Users -> Nat] /\ q \in [Users -> Nat] /\ \A u \in Users : p[u] = 0 /\ q[u] = 0
    BY <2>4
  <2>6. Rows(f)[i] = SumOver(p, EnumerationOf(Users)) /\ Rows(g)[i] = SumOver(q, EnumerationOf(Users))
    BY <1>6 DEF Row
  <2> HIDE DEF p, q
  <2> QED
    BY <1>1, <2>5, <2>6, SumOverAccounts
<1> DEFINE F == Rows(f)
           G == Rows(g)
<1>11. \A i \in 1 .. MaxPools :
         /\ F[i] \in Nat /\ G[i] \in Nat /\ Points[i] \in Nat
         /\ t * G[i] + 0 * F[i] <= t * F[i] + w * Points[i]
  <2>1. TAKE i \in 1 .. MaxPools
  <2>2. i \in PoolIds /\ F[i] \in Nat /\ G[i] \in Nat /\ Points[i] \in Nat
    BY <1>1, <1>6, PointsAreTotal DEF PoolIds
  <2>3. t * G[i] <= t * F[i] + w * Points[i]
    <3>1. CASE i <= n
      <4>1. i \in 1 .. n /\ Points[i] = poolInfo[i].allocPoint
        BY <1>1, <2>2, <3>1 DEF Points
      <4> QED
        BY <1>9, <4>1
    <3>2. CASE ~(i <= n)
      <4>1. F[i] = 0 /\ G[i] = 0 /\ Points[i] = 0
        BY <1>1, <1>10, <2>2, <3>2 DEF Points
      <4> HIDE DEF F, G, t, w
      <4>2. t * 0 = 0 /\ w * 0 = 0
        BY <1>1
      <4> QED
        BY <4>1, <4>2
    <3> QED
      BY <3>1, <3>2
  <2> HIDE DEF F, G, t, w
  <2>4. t * G[i] \in Nat /\ t * F[i] \in Nat /\ w * Points[i] \in Nat /\ 0 * F[i] = 0
    BY <1>1, <2>2
  <2> QED
    BY <2>2, <2>3, <2>4
<1>12. SumTo(Points, MaxPools) = t
  BY <1>1, PointsAreTotal
<1>13. SumTo(F, MaxPools) = Total(f) /\ SumTo(G, MaxPools) = Total(g)
  BY <1>6
<1> HIDE DEF F, G, t, w
<1>14. t * SumTo(G, MaxPools) + 0 * SumTo(F, MaxPools)
         <= t * SumTo(F, MaxPools) + w * SumTo(Points, MaxPools)
  BY <1>1, <1>11, SumToCombines
<1> DEFINE x == Total(f)
           y == Total(g)
<1>15. x \in Nat /\ y \in Nat
  BY <1>6
<1>16. t * y + 0 * x <= t * x + w * t
  BY <1>12, <1>13, <1>14
<1> HIDE DEF x, y
<1>17. y <= x + w
  <2>1. t * y \in Nat /\ t * (x + w) \in Nat /\ t * (x + w) = t * x + w * t /\ 0 * x = 0
    BY <1>1, <1>15
  <2>2. t * y <= t * (x + w)
    BY <1>16, <2>1
  <2>3. ASSUME x + w < y PROVE FALSE
    <3>1. (x + w) + 1 <= y /\ (x + w) + 1 \in Nat /\ x + w \in Nat
      BY <1>1, <1>15, <2>3
    <3>2. t * ((x + w) + 1) <= t * y
      BY <1>1, <1>15, <3>1, MultiplesAreMonotone
    <3>3. t * ((x + w) + 1) = t * (x + w) + t
      BY <1>1, <3>1, OneMore
    <3> DEFINE c == t * (x + w)
               d == t * y
    <3>4. c \in Nat /\ d \in Nat /\ c + t <= d /\ d <= c
      BY <2>1, <2>2, <3>2, <3>3
    <3> HIDE DEF c, d
    <3> QED
      BY <1>1, <1>3, <3>4
  <2> QED
    BY <1>1, <1>15, <2>3
<1> QED
  BY <1>8, <1>17 DEF x, y, w

LEMMA RewardSharesStep ==
  ASSUME SInv, IInv', NEW amount \in Nat, ReceiveReward(amount)
  PROVE  SInv'
<1>1. /\ userInfo' = userInfo /\ paid' = paid /\ lpBalance' = lpBalance /\ moves' = moves
      /\ lpRecovered' = lpRecovered /\ received' = received + amount
      /\ poolInfo' = [i \in 1 .. Len(poolInfo) |->
           [poolInfo[i] EXCEPT !.accTokenPerShare = @ + PerShare(poolInfo[i], amount)]]
  BY DEF ReceiveReward
<1>2. /\ IInv /\ received \in Nat /\ moves \in Nat /\ MULTIPLIER \in Nat
      /\ Len(poolInfo) \in Nat
      /\ \A i \in 1 .. Len(poolInfo) : poolInfo[i] \in PoolInfo
  BY PoolsAreTyped, MasterChefAssumption DEF SInv, IInv, Types
<1>3. Len(poolInfo') = Len(poolInfo)
      /\ \A i \in 1 .. Len(poolInfo) : poolInfo'[i].lpToken = poolInfo[i].lpToken
  BY <1>1, <1>2 DEF PoolInfo
<1>4. StakesAreHeld'
  <2>0. \A i \in PoolIds, u \in Users, lp \in LPTokens : StakeOf(i, u, lp)' = StakeOf(i, u, lp)
    <3>1. TAKE i \in PoolIds, u \in Users, lp \in LPTokens
    <3>2. userInfo' = userInfo
      BY <1>1
    <3>3. i <= Len(poolInfo) => i \in 1 .. Len(poolInfo)
      BY <1>2 DEF PoolIds
    <3> QED
      BY <1>3, <3>2, <3>3 DEF StakeOf
  <2>1. \A lp \in LPTokens : StakesOf(lp)' = StakesOf(lp)
    BY <2>0 DEF StakesOf
  <2>2. \A lp \in LPTokens : (Total(StakesOf(lp)))' = Total(StakesOf(lp))
    BY <2>1 DEF Total
  <2>3. StakesAreHeld'
          <=> (~lpRecovered' => \A lp \in LPTokens : (Total(StakesOf(lp)))' <= lpBalance'[lp])
    BY DEF StakesAreHeld, StakesOf, StakeOf
  <2>4. ~lpRecovered => \A lp \in LPTokens : Total(StakesOf(lp)) <= lpBalance[lp]
    BY HeldByDefinition DEF SInv
  <2> QED
    BY <1>1, <2>2, <2>3, <2>4
<1>5. SharedExactly'
  <2> SUFFICES ASSUME ~lpRecovered'
               PROVE  (Total(Exacts))' <= MULTIPLIER * (received' + moves')
    BY DEF SharedExactly
  <2>1. ~lpRecovered /\ Total(Exacts) <= MULTIPLIER * (received + moves)
    BY <1>1 DEF SInv, SharedExactly
  <2>2. Total(Exacts) \in Nat
    BY <1>2, MatricesAreTyped, RowsAreTyped
  <2>3. (Total(Exacts))' <= Total(Exacts) + MULTIPLIER * amount
        /\ (Total(Exacts))' \in Nat
    <3>1. Typed'
      BY TypedAlways, PTL
    <3> DEFINE g == Exacts'
    <3>2. g \in Matrices
      BY <3>1 DEF Typed
    <3>3. (Total(Exacts))' = Total(g)
      BY DEF Total
    <3> HIDE DEF g
    <3>4. Total(g) \in Nat
      BY <3>2, RowsAreTyped
    <3>5. CASE Len(poolInfo) # 0
      BY <2>1, <3>3, <3>4, <3>5, RewardIsSharedOnce
    <3>6. CASE Len(poolInfo) = 0
      <4>1. Exacts' = Exacts
        BY <1>3, <3>6 DEF Exacts, Exact, PoolIds
      <4>2. (Total(Exacts))' = Total(Exacts)
        BY <4>1 DEF Total
      <4>3. MULTIPLIER * amount \in Nat
        BY <1>2
      <4> QED
        BY <2>2, <4>2, <4>3
    <3> QED
      BY <3>5, <3>6
  <2>4. MULTIPLIER * (received' + moves') = MULTIPLIER * (received + moves) + MULTIPLIER * amount
    <3>1. received' + moves' = (received + moves) + amount
      BY <1>1, <1>2
    <3>2. \A a, b \in Nat : MULTIPLIER * (a + b) = MULTIPLIER * a + MULTIPLIER * b
      BY <1>2
    <3>3. received + moves \in Nat
      BY <1>2
    <3> QED
      BY <3>1, <3>2, <3>3
  <2> DEFINE t == Total(Exacts)
             t2 == (Total(Exacts))'
             b == MULTIPLIER * (received + moves)
             w == MULTIPLIER * amount
  <2>5. t \in Nat /\ t2 \in Nat /\ b \in Nat /\ w \in Nat /\ t <= b /\ t2 <= t + w
    <3>1. b \in Nat /\ w \in Nat
      BY <1>2
    <3> QED
      BY <2>1, <2>2, <2>3, <3>1
  <2> HIDE DEF t, t2, b, w
  <2>6. t2 <= b + w
    BY <2>5
  <2> QED
    BY <2>4, <2>6 DEF t2, b, w
<1>6. IInv'
  OBVIOUS
<1> QED
  BY <1>4, <1>5, <1>6 DEF SInv

-----------------------------------------------------------------------------
(* The theorems.                                                           *)

LEMMA NextSharesStep == SInv /\ [Next]_vars => SInv'
<1> SUFFICES ASSUME SInv, [Next]_vars PROVE SInv'
  OBVIOUS
<1>0. /\ IInv /\ IInv' /\ Len(poolInfo) \in Nat /\ rewardBalance \in Nat /\ funds \in Nat
      /\ \A lp \in LPTokens : lpBalance[lp] \in Nat /\ \A u \in Users : wallet[u][lp] \in Nat
  <2>1. IInv /\ IInv'
    BY NextStep DEF SInv
  <2> QED
    BY <2>1, PoolsAreTyped DEF IInv, Types
<1>1. ASSUME NEW p \in AllocPoints, NEW lp \in LPTokens, Add(p, lp) PROVE SInv'
  BY <1>0, <1>1, AdminSharesStep
<1>2. ASSUME NEW i \in 1 .. Len(poolInfo), NEW p \in AllocPoints, SetAllocPoint(i, p)
      PROVE  SInv'
  BY <1>0, <1>2, AdminSharesStep
<1>3. ASSUME NEW x \in 1 .. rewardBalance, RecoverReward(x) PROVE SInv'
  <2>1. x \in Nat
    BY <1>0
  <2> QED
    BY <1>0, <1>3, <2>1, AdminSharesStep
<1>4. ASSUME NEW lp \in LPTokens, NEW x \in 1 .. lpBalance[lp], RecoverLP(lp, x) PROVE SInv'
  <2>1. x \in Nat
    BY <1>0
  <2> QED
    BY <1>0, <1>4, <2>1, AdminSharesStep
<1>5. ASSUME NEW u \in Users, NEW lp \in LPTokens, NEW x \in 1 .. wallet[u][lp],
             ReceiveLP(u, lp, x)
      PROVE  SInv'
  <2>1. x \in Nat
    BY <1>0
  <2> QED
    BY <1>0, <1>5, <2>1, AdminSharesStep
<1>6. ASSUME NEW x \in 0 .. funds, ReceiveReward(x) PROVE SInv'
  BY <1>0, <1>6, RewardSharesStep
<1>7. ASSUME NEW u \in Users, NEW i \in 1 .. Len(poolInfo), Claim(u, i) PROVE SInv'
  BY <1>0, <1>7, ClaimSharesStep
<1>8. ASSUME NEW u \in Users, NEW i \in 1 .. Len(poolInfo),
             \/ \E x \in 1 .. wallet[u][poolInfo[i].lpToken] : Stake(u, i, x)
             \/ \E x \in 1 .. userInfo[i][u].amount : Unstake(u, i, x)
      PROVE  SInv'
  <2>1. poolInfo[i].lpToken \in LPTokens /\ i \in PoolIds
    BY <1>0, PoolsAreTyped DEF IInv, PoolInfo
  <2>2. wallet[u][poolInfo[i].lpToken] \in Nat /\ userInfo[i][u].amount \in Nat
    BY <1>0, <2>1 DEF IInv, Types, UserInfo
  <2>3. \E x \in Nat : Stake(u, i, x) \/ Unstake(u, i, x)
    BY <1>8, <2>2
  <2> QED
    BY <1>0, <2>3, StakeSharesStep
<1>9. CASE UNCHANGED vars
  <2>1. /\ userInfo' = userInfo /\ paid' = paid /\ received' = received /\ moves' = moves
        /\ poolInfo' = poolInfo /\ lpBalance' = lpBalance /\ lpRecovered' = lpRecovered
    BY <1>9 DEF vars, chef, history
  <2>2. Len(poolInfo') >= Len(poolInfo) /\ \A lp \in LPTokens : lpBalance'[lp] >= lpBalance[lp]
    BY <1>0, <2>1
  <2> QED
    BY <1>0, <2>1, <2>2, RecordsStay
<1> QED
  BY <1>1, <1>2, <1>3, <1>4, <1>5, <1>6, <1>7, <1>8, <1>9 DEF Next

LEMMA SharesInvariance == Spec => []SInv
BY InitSInv, NextSharesStep, PTL DEF Spec

\* As long as the admin takes no LP tokens out, the contract holds every stake
\* of every pool: pools that share a token never unstake each other's.
THEOREM StakesHeld == Spec => []StakesAreHeld
<1>1. SInv => StakesAreHeld
  BY DEF SInv
<1> QED
  BY <1>1, SharesInvariance, PTL

\* Earnings never exceed the rewards received by more than a unit for every
\* stake and unstake, whatever the pools, their points and their order.
THEOREM RoundingOnly == Spec => []OverpaidByRoundingOnly
<1>1. SInv => OverpaidByRoundingOnly
  <2> SUFFICES ASSUME SInv, ~lpRecovered
               PROVE  Total([i \in PoolIds |-> [u \in Users |-> Earned(i, u)]])
                        <= received + moves
    BY DEF OverpaidByRoundingOnly
  <2> DEFINE f == [i \in PoolIds |-> [u \in Users |-> Earned(i, u)]]
             g == Exacts
             x == Total(f)
             y == received + moves
  <2>1. IInv /\ MULTIPLIER \in Nat \ {0} /\ y \in Nat
    BY MasterChefAssumption DEF SInv, IInv, Types
  <2>2. f \in Matrices /\ g \in Matrices
        /\ \A i \in PoolIds, u \in Users : MULTIPLIER * f[i][u] <= g[i][u]
    <3>1. \A i \in PoolIds, u \in Users : Earned(i, u) \in Nat
      BY <2>1, EarnedIsNat
    <3> QED
      BY <2>1, <3>1, MatricesAreTyped DEF Matrices
  <2>3. Total(g) <= MULTIPLIER * y
    BY DEF SInv, SharedExactly
  <2> HIDE DEF f, g, y
  <2>4. MULTIPLIER * x <= Total(g) /\ x \in Nat /\ Total(g) \in Nat
    BY <2>1, <2>2, TotalCompares, RowsAreTyped
  <2> HIDE DEF x
  <2>5. ASSUME y < x PROVE FALSE
    <3>1. y + 1 <= x /\ y + 1 \in Nat
      BY <2>1, <2>4, <2>5
    <3>2. MULTIPLIER * (y + 1) <= MULTIPLIER * x
      BY <2>1, <2>4, <3>1, MultiplesAreMonotone
    <3>3. MULTIPLIER * (y + 1) = MULTIPLIER * y + MULTIPLIER /\ MULTIPLIER * y \in Nat
      BY <2>1, OneMore
    <3> DEFINE a == MULTIPLIER * x
               b == MULTIPLIER * y
    <3>4. a \in Nat /\ b \in Nat /\ b + MULTIPLIER <= a /\ a <= b
      <4>1. a \in Nat
        BY <2>1, <2>4
      <4>2. a <= b
        BY <2>1, <2>3, <2>4, <3>3, <4>1
      <4> QED
        BY <3>2, <3>3, <4>1, <4>2
    <3> HIDE DEF a, b
    <3> QED
      BY <2>1, <3>4
  <2>6. x <= y
    BY <2>1, <2>4, <2>5
  <2> QED
    BY <2>6 DEF x, y, f
<1> QED
  BY <1>1, SharesInvariance, PTL
=============================================================================
