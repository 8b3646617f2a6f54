-------------------------- MODULE LeveragerProofs --------------------------
(***************************************************************************)
(* Theorems about the Leverager for any users, precisions, fees, rates and *)
(* indices.  The arithmetic of the lending pool and of the accumulator is  *)
(* dealt with first, then the functions on positions and on a staker's     *)
(* record, then each action.                                               *)
(***************************************************************************)
EXTENDS Leverager, SumsProofs

-----------------------------------------------------------------------------
(* Divisions.                                                              *)

\* What rounding down means.
LEMMA Quotient ==
  ASSUME NEW x \in Nat, NEW c \in Nat \ {0}
  PROVE  /\ x \div c \in Nat
         /\ c * (x \div c) <= x
         /\ x < c * (x \div c) + c
OBVIOUS

LEMMA QuotientsAreMonotone ==
  ASSUME NEW x \in Nat, NEW y \in Nat, x <= y, NEW c \in Nat \ {0}
  PROVE  x \div c <= y \div c
<1> DEFINE p == x \div c
           q == y \div c
<1>1. p \in Nat /\ q \in Nat /\ c * p <= x /\ y < c * q + c
  BY Quotient
<1> HIDE DEF p, q
<1>2. c * p < c * (q + 1)
  BY <1>1
<1>3. p < q + 1
  BY <1>1, <1>2
<1> QED
  BY <1>1, <1>3 DEF p, q

\* A product is below another only if a factor is.
LEMMA SmallerFactor ==
  ASSUME NEW x \in Int, NEW y \in Int, NEW c \in Nat \ {0}, x * c < y * c
  PROVE  x < y
OBVIOUS

\* Burning what a scaled balance is worth, or less, never takes more than the
\* balance, although both conversions round to the nearest: the index is at
\* least one ray.
LEMMA BurnsAreCovered ==
  ASSUME NEW s \in Nat, NEW x \in Nat, NEW index \in Nat, index >= RAY,
         x <= (s * index + RAY \div 2) \div RAY
  PROVE  (x * RAY + index \div 2) \div index \in 0 .. s
<1> DEFINE w == s * index + RAY \div 2
           q == w \div RAY
           v == x * RAY + index \div 2
           r == v \div index
<1>1. RAY \in Nat \ {0} /\ index \in Nat \ {0}
  BY LeveragerAssumption
<1>2. /\ RAY \div 2 \in Nat /\ 2 * (RAY \div 2) <= RAY
      /\ index \div 2 \in Nat /\ 2 * (index \div 2) <= index
  BY <1>1
<1>3. s * index \in Nat /\ x * RAY \in Nat
  BY <1>1
<1>4. w \in Nat /\ v \in Nat
  BY <1>2, <1>3
<1>5. q \in Nat /\ RAY * q <= w /\ r \in Nat /\ index * r <= v
  <2> HIDE DEF w, v
  <2> QED
    BY <1>1, <1>4, Quotient
<1>6. x <= q
  OBVIOUS
<1>7. x * RAY <= s * index + RAY \div 2
  <2>1. x * RAY <= q * RAY
    <3> HIDE DEF q
    <3> QED
      BY <1>1, <1>5, <1>6
  <2>2. q * RAY = RAY * q /\ q * RAY \in Nat
    <3> HIDE DEF q
    <3> QED
      BY <1>1, <1>5
  <2> HIDE DEF q
  <2> QED
    BY <1>2, <1>3, <1>5, <2>1, <2>2 DEF w
<1>8. v < s * index + index
  <2>1. CASE index = RAY
    <3>1. x * RAY < (s + 1) * RAY
      <4>1. (s + 1) * RAY = s * RAY + RAY /\ RAY \div 2 < RAY
        BY <1>1, <1>2
      <4> QED
        BY <1>1, <1>2, <1>3, <1>7, <2>1, <4>1
    <3>2. x < s + 1
      BY <1>1, <3>1, SmallerFactor
    <3>3. x * RAY <= s * RAY
      BY <1>1, <3>2
    <3> QED
      BY <1>1, <1>2, <1>3, <2>1, <3>3
  <2>2. CASE index > RAY
    BY <1>1, <1>2, <1>3, <1>7, <2>2
  <2> QED
    BY <1>1, <2>1, <2>2
<1>9. r < s + 1
  <2>1. r * index < (s + 1) * index
    <3> HIDE DEF r, v
    <3>1. (s + 1) * index = s * index + index /\ r * index = index * r
      BY <1>1, <1>5
    <3> QED
      BY <1>1, <1>3, <1>4, <1>5, <1>8, <3>1
  <2> HIDE DEF r
  <2> QED
    BY <1>1, <1>5, <2>1, SmallerFactor
<1> HIDE DEF r
<1>10. r \in 0 .. s
  BY <1>5, <1>9
<1> QED
  BY <1>10 DEF r, v

-----------------------------------------------------------------------------
(* The lending pool.                                                       *)

LEMMA Indices ==
  ASSUME now \in Times
  PROVE  /\ IncomeIndex[now] \in Nat \ {0} /\ IncomeIndex[now] >= RAY
         /\ DebtIndex[now] \in Nat \ {0} /\ DebtIndex[now] >= RAY
         /\ RAY \in Nat \ {0}
BY LeveragerAssumption

LEMMA RayIsNat ==
  ASSUME NEW a \in Nat, NEW b \in Nat \ {0}
  PROVE  RayMul(a, b) \in Nat /\ RayDiv(a, b) \in Nat
<1>1. RAY \in Nat \ {0} /\ RAY \div 2 \in Nat /\ b \div 2 \in Nat
  BY LeveragerAssumption
<1>2. a * b + RAY \div 2 \in Nat /\ a * RAY + b \div 2 \in Nat
  BY <1>1
<1> QED
  BY <1>1, <1>2, Quotient DEF RayMul, RayDiv

LEMMA PremiumIsNat ==
  ASSUME NEW amount \in Nat
  PROVE  Premium(amount) \in Nat
<1>1. MULTIPLIER \in Nat \ {0} /\ MULTIPLIER \div 2 \in Nat /\ PremiumRate \in Nat
  BY LeveragerAssumption
<1>2. amount * PremiumRate + MULTIPLIER \div 2 \in Nat
  BY <1>1
<1> QED
  BY <1>1, <1>2, Quotient DEF Premium

\* A deposit and a loan add to one balance and leave the other.
LEMMA DepositedAdds ==
  ASSUME now \in Times, NEW p \in Positions, NEW amount \in Nat
  PROVE  /\ Deposited(p, amount) \in Positions
         /\ Deposited(p, amount).aToken >= p.aToken
         /\ Deposited(p, amount).debt = p.debt
<1>1. RayDiv(amount, IncomeIndex[now]) \in Nat
  BY Indices, RayIsNat
<1> QED
  BY <1>1 DEF Deposited, Positions

LEMMA BorrowedAdds ==
  ASSUME now \in Times, NEW p \in Positions, NEW amount \in Nat
  PROVE  /\ Borrowed(p, amount) \in Positions
         /\ Borrowed(p, amount).debt >= p.debt
         /\ Borrowed(p, amount).aToken = p.aToken
<1>1. RayDiv(amount, DebtIndex[now]) \in Nat
  BY Indices, RayIsNat
<1> QED
  BY <1>1 DEF Borrowed, Positions

\* Repaying never burns more than the debt.
LEMMA RepaidIsPosition ==
  ASSUME now \in Times, NEW p \in Positions, NEW amount \in Nat
  PROVE  Repaid(p, amount) \in Positions /\ Repaid(p, amount).aToken = p.aToken
<1> DEFINE due == DebtTokens(p.debt)
           repaid == IF amount < due THEN amount ELSE due
           burnt == RayDiv(repaid, DebtIndex[now])
<1>1. p.debt \in Nat
  BY DEF Positions
<1>2. due \in Nat
  BY <1>1, Indices, RayIsNat DEF DebtTokens
<1>3. repaid \in Nat /\ repaid <= due
  BY <1>2
<1>4. due = (p.debt * DebtIndex[now] + RAY \div 2) \div RAY
  BY DEF DebtTokens, RayMul
<1> HIDE DEF due, repaid
<1>5. burnt \in 0 .. p.debt
  BY <1>1, <1>3, <1>4, Indices, BurnsAreCovered DEF RayDiv
<1>6. p.debt - burnt \in Nat
  BY <1>1, <1>5
<1>7. Repaid(p, amount) = [p EXCEPT !.debt = @ - burnt]
  BY DEF Repaid, due, repaid
<1> HIDE DEF burnt
<1> QED
  BY <1>6, <1>7 DEF Positions

\* Withdrawing what the balance is worth, or less, never burns more than it.
LEMMA WithdrawnIsPosition ==
  ASSUME now \in Times, NEW p \in Positions, NEW amount \in Nat, amount <= ATokens(p.aToken)
  PROVE  Withdrawn(p, amount) \in Positions
<1> DEFINE burnt == RayDiv(amount, IncomeIndex[now])
<1>1. p.aToken \in Nat
  BY DEF Positions
<1>2. burnt \in 0 .. p.aToken
  BY <1>1, Indices, BurnsAreCovered DEF RayDiv, ATokens, RayMul
<1>3. p.aToken - burnt \in Nat
  BY <1>1, <1>2
<1>4. Withdrawn(p, amount) = [p EXCEPT !.aToken = @ - burnt]
  BY DEF Withdrawn
<1> HIDE DEF burnt
<1> QED
  BY <1>3, <1>4 DEF Positions

LEMMA ValueIsNat ==
  ASSUME now \in Times, NEW s \in Nat
  PROVE  ATokens(s) \in Nat /\ DebtTokens(s) \in Nat
BY Indices, RayIsNat DEF ATokens, DebtTokens

\* Looping adds to both balances.
LEMMA LoopedAdds ==
  ASSUME now \in Times, NEW p \in Positions, NEW amount \in Nat
  PROVE  LET after == Looped(p, amount)
         IN  /\ after \in Positions
             /\ after.aToken >= p.aToken /\ after.debt >= p.debt
<1> DEFINE loan == LoanFor(amount)
           own == Deposited(p, amount)
           more == Deposited(own, loan)
<1>1. loan \in Nat
  <2>1. BorrowRatio \in Nat /\ MULTIPLIER - BorrowRatio \in Nat \ {0}
    BY LeveragerAssumption
  <2>2. amount * BorrowRatio \in Nat
    BY <2>1
  <2> QED
    BY <2>1, <2>2, Quotient DEF LoanFor
<1>2. own \in Positions /\ own.aToken >= p.aToken /\ own.debt = p.debt
  BY DepositedAdds
<1> HIDE DEF own, loan
<1>3. more \in Positions /\ more.aToken >= own.aToken /\ more.debt = own.debt
  BY <1>1, <1>2, DepositedAdds
<1>4. loan + Premium(loan) \in Nat
  BY <1>1, PremiumIsNat
<1> HIDE DEF more
<1> DEFINE after == Borrowed(more, loan + Premium(loan))
<1>5. after \in Positions /\ after.debt >= more.debt /\ after.aToken = more.aToken
  BY <1>3, <1>4, BorrowedAdds
<1>6. Looped(p, amount) = IF loan = 0 THEN own ELSE after
  BY DEF Looped, own, loan, more
<1> HIDE DEF after
<1> QED
  BY <1>2, <1>3, <1>5, <1>6 DEF Positions

\* Unlooping leaves a position when the subtractions of the code do not revert.
LEMMA UnloopedIsPosition ==
  ASSUME now \in Times, NEW p \in Positions, NEW amount \in Nat, NEW repay \in Nat,
         CanUnloop(p, amount, repay)
  PROVE  Unlooped(p, amount, repay) \in Positions
<1> DEFINE lighter == Repaid(p, repay)
           less == Withdrawn(lighter, repay + Premium(repay))
           rest == amount - Premium(repay)
           balance == ATokens(less.aToken)
           last == IF rest < balance THEN rest ELSE balance
<1>1. Premium(repay) \in Nat /\ Premium(repay) <= amount
      /\ repay + Premium(repay) <= ATokens(p.aToken)
  BY PremiumIsNat DEF CanUnloop
<1>2. lighter \in Positions /\ lighter.aToken = p.aToken
  BY RepaidIsPosition
<1> HIDE DEF lighter
<1>3. less \in Positions
  BY <1>1, <1>2, WithdrawnIsPosition
<1> HIDE DEF less
<1>4. balance \in Nat
  BY <1>3, ValueIsNat DEF Positions
<1>5. last \in Nat /\ last <= balance
  BY <1>1, <1>4
<1> HIDE DEF last
<1>6. Withdrawn(less, last) \in Positions
  BY <1>3, <1>5, WithdrawnIsPosition
<1> QED
  BY <1>6 DEF Unlooped, less, lighter, last

\* What is asked for is covered by debt to repay, rounded up.
LEMMA RepayIsNat ==
  ASSUME NEW aTokens \in Nat, NEW debtTokens \in Nat, debtTokens < aTokens, NEW amount \in Nat
  PROVE  RepayFor(aTokens, debtTokens, amount) \in Nat
<1>1. aTokens - debtTokens \in Nat \ {0} /\ debtTokens * amount \in Nat
  OBVIOUS
<1>2. debtTokens * amount + (aTokens - debtTokens) - 1 \in Nat
  BY <1>1
<1> QED
  BY <1>1, <1>2, Quotient DEF RepayFor

\* Aave's aTokens are worth more the more there are, at the same index.
LEMMA ValueGrows ==
  ASSUME now \in Times, NEW s \in Nat, NEW r \in Nat, s <= r
  PROVE  ATokens(s) <= ATokens(r)
<1> DEFINE i == IncomeIndex[now]
<1>1. i \in Nat \ {0} /\ RAY \in Nat \ {0} /\ RAY \div 2 \in Nat
  BY Indices
<1>2. ATokens(s) = (s * i + RAY \div 2) \div RAY /\ ATokens(r) = (r * i + RAY \div 2) \div RAY
  BY DEF ATokens, RayMul
<1> HIDE DEF i
<1>3. s * i \in Nat /\ r * i \in Nat /\ s * i <= r * i
  BY <1>1
<1>4. s * i + RAY \div 2 \in Nat /\ r * i + RAY \div 2 \in Nat
      /\ s * i + RAY \div 2 <= r * i + RAY \div 2
  BY <1>1, <1>3
<1> QED
  BY <1>1, <1>2, <1>4, QuotientsAreMonotone

-----------------------------------------------------------------------------
(* The accumulator and a staker's record.                                  *)

\* What an accumulator owes a stake is rounded down by less than one unit.
LEMMA AccruedRoundsDown ==
  ASSUME NEW acc \in Nat, NEW s \in Nat
  PROVE  /\ Accrued(acc, s) \in Nat /\ acc * s \in Nat
         /\ PRECISION * Accrued(acc, s) \in Nat
         /\ PRECISION * Accrued(acc, s) <= acc * s
         /\ acc * s < PRECISION * Accrued(acc, s) + PRECISION
<1>1. PRECISION \in Nat \ {0} /\ acc * s \in Nat
  BY LeveragerAssumption
<1> QED
  BY <1>1, Quotient DEF Accrued

LEMMA AccruedGrows ==
  ASSUME NEW acc \in Nat, NEW later \in Nat, acc <= later, NEW s \in Nat
  PROVE  Accrued(acc, s) <= Accrued(later, s)
<1>1. PRECISION \in Nat \ {0}
  BY LeveragerAssumption
<1>2. acc * s \in Nat /\ later * s \in Nat /\ acc * s <= later * s
  OBVIOUS
<1> QED
  BY <1>1, <1>2, QuotientsAreMonotone DEF Accrued

\* Collecting raises the accumulator by no more than what was collected.
LEMMA AccumulatorGrows ==
  ASSUME accTokenPerShare \in Nat, totalSB \in Nat, chefPending \in Nat
  PROVE  /\ Collectable \in 0 .. chefPending
         /\ NewAccTokenPerShare \in Nat /\ NewAccTokenPerShare >= accTokenPerShare
         /\ NewAccTokenPerShare * totalSB <= accTokenPerShare * totalSB + PRECISION * Collectable
<1> DEFINE C == Collectable
           N == NewAccTokenPerShare
           d == (C * PRECISION) \div totalSB
<1>1. C \in 0 .. chefPending /\ PRECISION \in Nat \ {0}
  BY LeveragerAssumption DEF Collectable
<1>2. CASE C = 0
  <2>1. N = accTokenPerShare
    BY <1>2 DEF NewAccTokenPerShare
  <2>2. PRECISION * C = 0 /\ accTokenPerShare * totalSB \in Nat
    BY <1>1, <1>2
  <2> QED
    BY <1>1, <2>1, <2>2
<1>3. CASE C # 0
  <2>1. totalSB \in Nat \ {0}
    BY <1>3 DEF Collectable
  <2>2. N = accTokenPerShare + d
    BY <1>3 DEF NewAccTokenPerShare
  <2> HIDE DEF N, C
  <2>3. C * PRECISION \in Nat /\ C * PRECISION = PRECISION * C
    BY <1>1
  <2>4. d \in Nat /\ totalSB * d <= C * PRECISION
    BY <2>1, <2>3, Quotient
  <2> HIDE DEF d
  <2>5. N * totalSB = accTokenPerShare * totalSB + totalSB * d
    BY <2>1, <2>2, <2>4
  <2>6. accTokenPerShare * totalSB \in Nat /\ totalSB * d \in Nat
    BY <2>1, <2>4
  <2>7. N * totalSB <= accTokenPerShare * totalSB + PRECISION * C
    BY <1>1, <2>3, <2>4, <2>5, <2>6
  <2> QED
    BY <1>1, <2>2, <2>4, <2>7 DEF N, C
<1> QED
  BY <1>2, <1>3

IsSettled(info) == info.debt <= Accrued(accTokenPerShare, info.aTSB)

\* _update keeps a record one, and promises no more than what accrued.
LEMMA UpdatedIsStake ==
  ASSUME accTokenPerShare \in Nat, totalSB \in Nat, chefPending \in Nat,
         NEW info \in Stakes, IsSettled(info)
  PROVE  LET up == Updated(info)
             owed == Accrued(NewAccTokenPerShare, info.aTSB)
         IN  /\ up \in Stakes
             /\ up.aTSB = info.aTSB /\ up.dTSB = info.dTSB
             /\ owed \in Nat /\ info.debt <= owed
             /\ info.pending <= up.pending
             /\ up.pending <= info.pending + owed - info.debt
<1> DEFINE owed == Accrued(NewAccTokenPerShare, info.aTSB)
           due == info.pending + owed - info.debt
<1>1. /\ info.aTSB \in Nat /\ info.pending \in Nat /\ info.debt \in Nat
      /\ NewAccTokenPerShare \in Nat /\ accTokenPerShare <= NewAccTokenPerShare
  BY AccumulatorGrows DEF Stakes
<1>2. /\ owed \in Nat /\ Accrued(accTokenPerShare, info.aTSB) \in Nat
      /\ Accrued(accTokenPerShare, info.aTSB) <= owed
  BY <1>1, AccruedRoundsDown, AccruedGrows
<1>3. info.debt <= owed
  BY <1>1, <1>2 DEF IsSettled
<1>4. due \in Nat /\ info.pending <= due
  BY <1>1, <1>2, <1>3
<1>5. Updated(info) = IF Collectable = 0 THEN info ELSE [info EXCEPT !.pending = due]
  BY <1>1, <1>2 DEF Updated
<1> HIDE DEF due
<1>6. CASE Collectable = 0
  <2>1. Updated(info) = info
    BY <1>5, <1>6
  <2> QED
    BY <1>1, <1>2, <1>3, <1>4, <2>1 DEF due
<1>7. CASE Collectable # 0
  <2>1. Updated(info) = [info EXCEPT !.pending = due]
    BY <1>5, <1>7
  <2>2. /\ Updated(info) \in Stakes /\ Updated(info).pending = due
        /\ Updated(info).aTSB = info.aTSB /\ Updated(info).dTSB = info.dTSB
    BY <1>4, <2>1 DEF Stakes
  <2> QED
    BY <1>1, <1>2, <1>3, <1>4, <2>2 DEF due
<1> QED
  BY <1>6, <1>7

\* A record after _update, a change of its balances and _updateDebt is settled
\* at the new accumulator, and its share was worth what it is worth now but for
\* the rounding of the debt.
LEMMA StakedIsSettled ==
  ASSUME accTokenPerShare \in Nat, totalSB \in Nat, chefPending \in Nat,
         NEW info \in Stakes, IsSettled(info), NEW gained,
         info.aTSB + gained.aToken \in Nat, info.dTSB + gained.debt \in Nat
  PROVE  LET new == Staked(info, gained)
             N == NewAccTokenPerShare
         IN  /\ new \in Stakes
             /\ new.aTSB = info.aTSB + gained.aToken
             /\ new.dTSB = info.dTSB + gained.debt
             /\ new.debt = Accrued(N, new.aTSB)
             /\ PRECISION * new.pending + N * new.aTSB + PRECISION * info.debt
                  <= PRECISION * info.pending + N * info.aTSB + PRECISION * new.debt + PRECISION
<1> DEFINE up == Updated(info)
           N == NewAccTokenPerShare
           a == info.aTSB + gained.aToken
           b == info.dTSB + gained.debt
           debt == Accrued(N, a)
           owed == Accrued(N, info.aTSB)
           new == Staked(info, gained)
<1>1. /\ up \in Stakes /\ up.aTSB = info.aTSB /\ up.dTSB = info.dTSB
      /\ owed \in Nat /\ up.pending <= info.pending + owed - info.debt
  BY UpdatedIsStake
<1>2. /\ info.aTSB \in Nat /\ info.pending \in Nat /\ info.debt \in Nat
      /\ up.pending \in Nat /\ N \in Nat /\ PRECISION \in Nat \ {0}
  BY <1>1, AccumulatorGrows, LeveragerAssumption DEF Stakes
<1>3. /\ debt \in Nat /\ N * a \in Nat /\ N * a < PRECISION * debt + PRECISION
      /\ N * info.aTSB \in Nat /\ PRECISION * owed <= N * info.aTSB
  BY <1>2, AccruedRoundsDown
<1>4. new = [[up EXCEPT !.aTSB = a, !.dTSB = b] EXCEPT !.debt = debt]
  <2> DEFINE moved == [up EXCEPT !.aTSB = a, !.dTSB = b]
  <2>1. moved = [up EXCEPT !.aTSB = @ + gained.aToken, !.dTSB = @ + gained.debt]
    BY <1>1
  <2>2. moved.aTSB = a
    BY <1>1 DEF Stakes
  <2>3. new = WithDebt(moved)
    BY <2>1 DEF Staked
  <2> HIDE DEF moved
  <2>4. WithDebt(moved) = [moved EXCEPT !.debt = debt]
    BY <2>2 DEF WithDebt
  <2> QED
    BY <2>3, <2>4 DEF moved
<1> HIDE DEF up, N, a, b, debt, owed, new
<1>5. /\ new \in Stakes /\ new.aTSB = a /\ new.dTSB = b /\ new.debt = debt
      /\ new.pending = up.pending
  BY <1>1, <1>3, <1>4 DEF Stakes, a, b
<1>6. PRECISION * up.pending + PRECISION * info.debt <= PRECISION * info.pending + PRECISION * owed
  <2>1. up.pending + info.debt <= info.pending + owed
    BY <1>1, <1>2
  <2>2. PRECISION * (up.pending + info.debt) <= PRECISION * (info.pending + owed)
    BY <1>1, <1>2, <2>1
  <2> QED
    BY <1>1, <1>2, <2>2
<1>7. /\ PRECISION * up.pending \in Nat /\ PRECISION * info.debt \in Nat /\ PRECISION * debt \in Nat
      /\ PRECISION * info.pending \in Nat /\ PRECISION * owed \in Nat
  BY <1>1, <1>2, <1>3
<1>8. PRECISION * up.pending + N * a + PRECISION * info.debt
        <= PRECISION * info.pending + N * info.aTSB + PRECISION * debt + PRECISION
  BY <1>2, <1>3, <1>6, <1>7
<1> QED
  BY <1>5, <1>8 DEF new, N, a, b, debt

\* A claim does the same without a change of balances, and exactly.
LEMMA ClaimedIsSettled ==
  ASSUME accTokenPerShare \in Nat, totalSB \in Nat, chefPending \in Nat,
         NEW info \in Stakes, IsSettled(info)
  PROVE  LET new == WithDebt(Updated(info))
             N == NewAccTokenPerShare
         IN  /\ new \in Stakes
             /\ new.aTSB = info.aTSB /\ new.dTSB = info.dTSB
             /\ new.debt = Accrued(N, new.aTSB)
             /\ new.pending + info.debt <= info.pending + new.debt
<1> DEFINE up == Updated(info)
           debt == Accrued(NewAccTokenPerShare, info.aTSB)
           new == WithDebt(up)
<1>1. /\ up \in Stakes /\ up.aTSB = info.aTSB /\ up.dTSB = info.dTSB
      /\ debt \in Nat /\ up.pending <= info.pending + debt - info.debt
  BY UpdatedIsStake
<1>2. info.pending \in Nat /\ info.debt \in Nat /\ up.pending \in Nat
  BY <1>1 DEF Stakes
<1>3. new = [up EXCEPT !.debt = debt]
  BY <1>1 DEF WithDebt
<1> HIDE DEF up, debt, new
<1>4. /\ new \in Stakes /\ new.aTSB = info.aTSB /\ new.dTSB = info.dTSB
      /\ new.debt = debt /\ new.pending = up.pending
  BY <1>1, <1>3 DEF Stakes
<1>5. new.pending + info.debt <= info.pending + new.debt
  BY <1>1, <1>2, <1>4
<1> QED
  BY <1>4, <1>5 DEF new, up, debt

-----------------------------------------------------------------------------
(* The inductive invariant.                                                *)

Types ==
  /\ accTokenPerShare \in Nat /\ totalSB \in Nat
  /\ stakeInfo \in [Users -> Stakes]
  /\ claimInfo \in Seq(Claims)
  /\ userClaims \in [Users -> SUBSET (1 .. Len(claimInfo))]
  /\ now \in Times
  /\ position \in Positions
  /\ aTokenReward \in Nat /\ funds \in Nat /\ chefPending \in Nat
  /\ vesting \in [Times -> Nat]
  /\ distributorOpen \in BOOLEAN
  /\ paid \in [Users -> Nat] /\ distributed \in Nat
  /\ collected \in Nat /\ harvests \in Nat /\ moves \in Nat

Settled == \A u \in Users : IsSettled(stakeInfo[u])

Payable == \A i \in 1 .. Len(claimInfo) : claimInfo[i].amount > 0

(* The columns of stakeInfo and their sums. *)
ATSBs == [u \in Users |-> stakeInfo[u].aTSB]
DTSBs == [u \in Users |-> stakeInfo[u].dTSB]
Pendings == [u \in Users |-> stakeInfo[u].pending]
Debts == [u \in Users |-> stakeInfo[u].debt]

ClaimSum == SumTo(ClaimTotals, Len(claimInfo))

\* What was promised, before the rounding of what the accumulator owes: this
\* is what each action preserves, and what RewardsAreSharedOnce follows from.
SharedExactly ==
  PRECISION * SumOf(Pendings) + accTokenPerShare * totalSB + PRECISION * ClaimSum
    <= PRECISION * (collected + moves) + PRECISION * SumOf(Debts)

IInv == Types /\ Settled /\ Payable /\ StakesAddUp /\ SharedExactly

LEMMA TypeOKByParts == TypeOK <=> Types /\ Settled /\ Payable
BY DEF TypeOK, Types, Settled, IsSettled, Payable

(* What the abstract escrow sees. *)
Issued == [i \in 1 .. Len(claimInfo) |->
             [amount |-> claimInfo[i].amount, feeAmount |-> claimInfo[i].feeAmount,
              receiver |-> claimInfo[i].receiver, expireAt |-> claimInfo[i].expireAt]]
SettledClaims == {i \in 1 .. Len(claimInfo) : claimInfo[i].isClaimed}

EscrowVars == <<now, Issued, SettledClaims, paid, distributed>>

LEMMA ClaimsAreTyped ==
  ASSUME Types
  PROVE  /\ Len(claimInfo) \in Nat
         /\ \A i \in 1 .. Len(claimInfo) :
              /\ claimInfo[i] \in Claims
              /\ ClaimTotals[i] = claimInfo[i].amount + claimInfo[i].feeAmount
              /\ ClaimTotals[i] \in Nat
         /\ ClaimSum \in Nat
<1>1. Len(claimInfo) \in Nat /\ \A i \in 1 .. Len(claimInfo) : claimInfo[i] \in Claims
  BY DEF Types
<1>2. \A i \in 1 .. Len(claimInfo) :
        /\ ClaimTotals[i] = claimInfo[i].amount + claimInfo[i].feeAmount
        /\ ClaimTotals[i] \in Nat
  BY <1>1 DEF ClaimTotals, Claims
<1>3. Len(claimInfo) \in 0 .. Len(claimInfo)
  BY <1>1
<1> QED
  BY <1>1, <1>2, <1>3, SumToNat DEF ClaimSum

LEMMA ColumnsAreTyped ==
  ASSUME stakeInfo \in [Users -> Stakes]
  PROVE  /\ ATSBs \in [Users -> Nat] /\ DTSBs \in [Users -> Nat]
         /\ Pendings \in [Users -> Nat] /\ Debts \in [Users -> Nat]
         /\ SumOf(ATSBs) \in Nat /\ SumOf(DTSBs) \in Nat
         /\ SumOf(Pendings) \in Nat /\ SumOf(Debts) \in Nat
<1>1. \A u \in Users : /\ stakeInfo[u].aTSB \in Nat /\ stakeInfo[u].dTSB \in Nat
                       /\ stakeInfo[u].pending \in Nat /\ stakeInfo[u].debt \in Nat
  BY DEF Stakes
<1>2. /\ ATSBs \in [Users -> Nat] /\ DTSBs \in [Users -> Nat]
      /\ Pendings \in [Users -> Nat] /\ Debts \in [Users -> Nat]
  BY <1>1 DEF ATSBs, DTSBs, Pendings, Debts
<1>3. IsFiniteSet(Users)
  BY LeveragerAssumption
<1> QED
  BY <1>2, <1>3, SumOverAccounts DEF SumOf

\* A column in which one entry changed, with its sum.
LEMMA ColumnChanges ==
  ASSUME NEW f \in [Users -> Nat], NEW g \in [Users -> Nat], NEW u \in Users,
         \A v \in Users : v # u => g[v] = f[v]
  PROVE  SumOf(g) = SumOf(f) - f[u] + g[u]
<1>1. IsFiniteSet(Users)
  BY LeveragerAssumption
<1>2. g = [f EXCEPT ![u] = g[u]] /\ g[u] \in Nat
  OBVIOUS
<1> QED
  BY <1>1, <1>2, SumOverAccounts DEF SumOf

\* Stakers do nothing but change their own record.
LEMMA RecordChanges ==
  ASSUME stakeInfo \in [Users -> Stakes], NEW u \in Users, NEW new \in Stakes,
         stakeInfo' = [stakeInfo EXCEPT ![u] = new]
  PROVE  /\ stakeInfo' \in [Users -> Stakes]
         /\ SumOf(ATSBs)' = SumOf(ATSBs) - stakeInfo[u].aTSB + new.aTSB
         /\ SumOf(DTSBs)' = SumOf(DTSBs) - stakeInfo[u].dTSB + new.dTSB
         /\ SumOf(Pendings)' = SumOf(Pendings) - stakeInfo[u].pending + new.pending
         /\ SumOf(Debts)' = SumOf(Debts) - stakeInfo[u].debt + new.debt
         /\ SumOf(ATSBs)' \in Nat /\ SumOf(DTSBs)' \in Nat
         /\ SumOf(Pendings)' \in Nat /\ SumOf(Debts)' \in Nat
<1>1. stakeInfo' \in [Users -> Stakes] /\ stakeInfo'[u] = new
      /\ \A v \in Users : v # u => stakeInfo'[v] = stakeInfo[v]
  OBVIOUS
<1>2. /\ ATSBs' = [v \in Users |-> stakeInfo'[v].aTSB]
      /\ DTSBs' = [v \in Users |-> stakeInfo'[v].dTSB]
      /\ Pendings' = [v \in Users |-> stakeInfo'[v].pending]
      /\ Debts' = [v \in Users |-> stakeInfo'[v].debt]
  BY DEF ATSBs, DTSBs, Pendings, Debts
<1>3. \A v \in Users : /\ stakeInfo'[v].aTSB \in Nat /\ stakeInfo'[v].dTSB \in Nat
                       /\ stakeInfo'[v].pending \in Nat /\ stakeInfo'[v].debt \in Nat
  BY <1>1 DEF Stakes
<1>4. /\ ATSBs' \in [Users -> Nat] /\ DTSBs' \in [Users -> Nat]
      /\ Pendings' \in [Users -> Nat] /\ Debts' \in [Users -> Nat]
  BY <1>2, <1>3
<1>5. /\ ATSBs'[u] = new.aTSB /\ DTSBs'[u] = new.dTSB
      /\ Pendings'[u] = new.pending /\ Debts'[u] = new.debt
      /\ ATSBs[u] = stakeInfo[u].aTSB /\ DTSBs[u] = stakeInfo[u].dTSB
      /\ Pendings[u] = stakeInfo[u].pending /\ Debts[u] = stakeInfo[u].debt
      /\ \A v \in Users : v # u => /\ ATSBs'[v] = ATSBs[v] /\ DTSBs'[v] = DTSBs[v]
                                   /\ Pendings'[v] = Pendings[v] /\ Debts'[v] = Debts[v]
  BY <1>1, <1>2 DEF ATSBs, DTSBs, Pendings, Debts
<1>6. /\ SumOf(ATSBs)' = SumOf(ATSBs') /\ SumOf(DTSBs)' = SumOf(DTSBs')
      /\ SumOf(Pendings)' = SumOf(Pendings') /\ SumOf(Debts)' = SumOf(Debts')
  BY DEF SumOf
<1>7. SumOf(ATSBs') = SumOf(ATSBs) - ATSBs[u] + ATSBs'[u]
  BY <1>4, <1>5, ColumnsAreTyped, ColumnChanges
<1>8. SumOf(DTSBs') = SumOf(DTSBs) - DTSBs[u] + DTSBs'[u]
  BY <1>4, <1>5, ColumnsAreTyped, ColumnChanges
<1>9. SumOf(Pendings') = SumOf(Pendings) - Pendings[u] + Pendings'[u]
  BY <1>4, <1>5, ColumnsAreTyped, ColumnChanges
<1>10. SumOf(Debts') = SumOf(Debts) - Debts[u] + Debts'[u]
  BY <1>4, <1>5, ColumnsAreTyped, ColumnChanges
<1>11. /\ SumOf(ATSBs') \in Nat /\ SumOf(DTSBs') \in Nat
       /\ SumOf(Pendings') \in Nat /\ SumOf(Debts') \in Nat
  BY <1>4, SumOverAccounts, LeveragerAssumption DEF SumOf
<1> QED
  BY <1>1, <1>5, <1>6, <1>7, <1>8, <1>9, <1>10, <1>11

\* The records of the others stay settled as the accumulator grows.
LEMMA OthersStaySettled ==
  ASSUME Types, Settled, NEW u \in Users, NEW new \in Stakes,
         accTokenPerShare' = NewAccTokenPerShare,
         new.debt = Accrued(NewAccTokenPerShare, new.aTSB),
         stakeInfo' = [stakeInfo EXCEPT ![u] = new]
  PROVE  Settled'
<1>1. SUFFICES ASSUME NEW v \in Users
               PROVE  stakeInfo'[v].debt <= Accrued(NewAccTokenPerShare, stakeInfo'[v].aTSB)
  BY DEF Settled, IsSettled, Accrued
<1>2. /\ accTokenPerShare \in Nat /\ NewAccTokenPerShare \in Nat
      /\ accTokenPerShare <= NewAccTokenPerShare
  BY AccumulatorGrows DEF Types
<1>3. CASE v = u
  <2>1. stakeInfo'[v] = new /\ new.aTSB \in Nat
    BY <1>3 DEF Types, Stakes
  <2>2. Accrued(NewAccTokenPerShare, new.aTSB) \in Nat
    BY <1>2, <2>1, AccruedRoundsDown
  <2> QED
    BY <2>1, <2>2
<1>4. CASE v # u
  <2>1. stakeInfo'[v] = stakeInfo[v] /\ stakeInfo[v] \in Stakes /\ IsSettled(stakeInfo[v])
    BY <1>4 DEF Types, Settled
  <2>2. stakeInfo[v].debt \in Nat /\ stakeInfo[v].aTSB \in Nat
    BY <2>1 DEF Stakes
  <2>3. /\ Accrued(accTokenPerShare, stakeInfo[v].aTSB) \in Nat
        /\ Accrued(NewAccTokenPerShare, stakeInfo[v].aTSB) \in Nat
        /\ Accrued(accTokenPerShare, stakeInfo[v].aTSB)
             <= Accrued(NewAccTokenPerShare, stakeInfo[v].aTSB)
    BY <1>2, <2>2, AccruedRoundsDown, AccruedGrows
  <2> QED
    BY <2>1, <2>2, <2>3 DEF IsSettled
<1> QED
  BY <1>3, <1>4

\* What the lemmas about steps need of the state.
LEMMA StateIsTyped ==
  ASSUME IInv
  PROVE  /\ accTokenPerShare \in Nat /\ totalSB \in Nat /\ chefPending \in Nat
         /\ collected \in Nat /\ moves \in Nat /\ now \in Times
         /\ SumOf(Pendings) \in Nat /\ SumOf(Debts) \in Nat /\ ClaimSum \in Nat
         /\ PRECISION \in Nat \ {0}
         /\ \A u \in Users : stakeInfo[u] \in Stakes /\ IsSettled(stakeInfo[u])
BY ColumnsAreTyped, ClaimsAreTyped, LeveragerAssumption DEF IInv, Types, Settled

-----------------------------------------------------------------------------
(* The sums of a step.                                                     *)

\* One staker's record changes, some of what was pending is claimed, and the
\* accumulator grows: what is promised grows by what is collected, and by one
\* unit for every change of a stake.
LEMMA PromisesOfAStep ==
  ASSUME IInv, NEW u \in Users, NEW new \in Stakes, NEW more \in Nat, NEW claimed \in Nat,
         accTokenPerShare' = NewAccTokenPerShare,
         totalSB' = totalSB - stakeInfo[u].aTSB + new.aTSB,
         collected' = collected + Collectable, moves' = moves + more,
         SumOf(Pendings)' = SumOf(Pendings) - stakeInfo[u].pending + new.pending,
         SumOf(Debts)' = SumOf(Debts) - stakeInfo[u].debt + new.debt,
         ClaimSum' = ClaimSum + claimed,
         PRECISION * (new.pending + claimed) + NewAccTokenPerShare * new.aTSB
             + PRECISION * stakeInfo[u].debt
           <= PRECISION * stakeInfo[u].pending + NewAccTokenPerShare * stakeInfo[u].aTSB
                + PRECISION * new.debt + PRECISION * more
  PROVE  SharedExactly'
<1> DEFINE P == PRECISION
           k == accTokenPerShare
           n == NewAccTokenPerShare
           S == totalSB
           Ps == SumOf(Pendings)
           Ds == SumOf(Debts)
           Cs == ClaimSum
           c == collected
           C == Collectable
           m == moves
           p == stakeInfo[u].pending
           q == new.pending
           a == stakeInfo[u].aTSB
           b == new.aTSB
           d == stakeInfo[u].debt
           e == new.debt
<1>1. /\ P \in Nat \ {0} /\ k \in Nat /\ n \in Nat /\ S \in Nat /\ Ps \in Nat /\ Ds \in Nat
      /\ Cs \in Nat /\ c \in Nat /\ C \in Nat /\ m \in Nat
      /\ n * S <= k * S + P * C
  BY StateIsTyped, AccumulatorGrows
<1>2. /\ p \in Nat /\ q \in Nat /\ a \in Nat /\ b \in Nat /\ d \in Nat /\ e \in Nat
  BY StateIsTyped DEF Stakes
<1>3. P * Ps + k * S + P * Cs <= P * (c + m) + P * Ds
  BY DEF IInv, SharedExactly
<1>4. P * (q + claimed) + n * b + P * d <= P * p + n * a + P * e + P * more
  OBVIOUS
<1>5. SharedExactly' <=> P * (Ps - p + q) + n * (S - a + b) + P * (Cs + claimed)
                           <= P * (c + C + (m + more)) + P * (Ds - d + e)
  <2>1. /\ SumOf(Pendings)' = Ps - p + q /\ SumOf(Debts)' = Ds - d + e
        /\ accTokenPerShare' = n /\ totalSB' = S - a + b /\ ClaimSum' = Cs + claimed
        /\ collected' = c + C /\ moves' = m + more
    OBVIOUS
  <2> HIDE DEF P, k, n, S, Ps, Ds, Cs, c, C, m, p, q, a, b, d, e
  <2>2. SharedExactly'
          <=> PRECISION * SumOf(Pendings)' + accTokenPerShare' * totalSB' + PRECISION * ClaimSum'
                <= PRECISION * (collected' + moves') + PRECISION * SumOf(Debts)'
    BY DEF SharedExactly
  <2>3. P = PRECISION /\ c + C + m + more = c + C + (m + more)
    BY <1>1 DEF P
  <2> QED
    BY <2>1, <2>2, <2>3
<1> HIDE DEF P, k, n, S, Ps, Ds, Cs, c, C, m, p, q, a, b, d, e
<1>6. /\ P * (Ps - p + q) = P * Ps - P * p + P * q
      /\ n * (S - a + b) = n * S - n * a + n * b
      /\ P * (c + C + (m + more)) = P * c + P * C + P * m + P * more
      /\ P * (c + m) = P * c + P * m
      /\ P * (Ds - d + e) = P * Ds - P * d + P * e
      /\ P * (q + claimed) = P * q + P * claimed
      /\ P * (Cs + claimed) = P * Cs + P * claimed
  BY <1>1, <1>2
<1> DEFINE x1 == P * Ps
           x2 == P * p
           x3 == P * q
           x4 == n * S
           x5 == n * a
           x6 == n * b
           x7 == P * c
           x8 == P * C
           x9 == P * m
           y1 == P * more
           y2 == P * Ds
           y3 == P * d
           y4 == P * e
           y5 == k * S
           y6 == P * Cs
           y7 == P * claimed
<1>7. /\ x1 + y5 + y6 <= x7 + x9 + y2
      /\ x4 <= y5 + x8
      /\ x3 + y7 + x6 + y3 <= x2 + x5 + y4 + y1
  BY <1>1, <1>3, <1>4, <1>6
<1>8. /\ x1 \in Int /\ x2 \in Int /\ x3 \in Int /\ x4 \in Int /\ x5 \in Int /\ x6 \in Int
      /\ x7 \in Int /\ x8 \in Int /\ x9 \in Int /\ y1 \in Int /\ y2 \in Int /\ y3 \in Int
      /\ y4 \in Int /\ y5 \in Int /\ y6 \in Int /\ y7 \in Int
  BY <1>1, <1>2
<1>9. SUFFICES (x1 - x2 + x3) + (x4 - x5 + x6) + (y6 + y7) <= (x7 + x8 + x9 + y1) + (y2 - y3 + y4)
  BY <1>5, <1>6
<1> HIDE DEF x1, x2, x3, x4, x5, x6, x7, x8, x9, y1, y2, y3, y4, y5, y6, y7
<1> QED
  BY <1>7, <1>8

-----------------------------------------------------------------------------
(* One lemma for each kind of action.                                      *)

\* Nothing about the claims changes.
LEMMA SameClaims ==
  ASSUME claimInfo' = claimInfo
  PROVE  ClaimSum' = ClaimSum /\ Issued' = Issued /\ SettledClaims' = SettledClaims
BY DEF ClaimSum, ClaimTotals, Issued, SettledClaims

\* What Collect does to the types.
LEMMA CollectStep ==
  ASSUME IInv, Collect
  PROVE  /\ accTokenPerShare' = NewAccTokenPerShare /\ accTokenPerShare' \in Nat
         /\ collected' = collected + Collectable /\ collected' \in Nat
         /\ chefPending' \in Nat /\ vesting' \in [Times -> Nat]
<1>1. /\ Collectable \in 0 .. chefPending /\ NewAccTokenPerShare \in Nat /\ chefPending \in Nat
      /\ collected \in Nat /\ now \in Times /\ vesting \in [Times -> Nat]
  BY StateIsTyped, AccumulatorGrows DEF IInv, Types
<1>2. /\ accTokenPerShare' = NewAccTokenPerShare /\ collected' = collected + Collectable
      /\ chefPending' = chefPending - Collectable
      /\ vesting' = [vesting EXCEPT ![now] = @ + Collectable]
  BY DEF Collect
<1>3. vesting[now] + Collectable \in Nat
  BY <1>1
<1> QED
  BY <1>1, <1>2, <1>3

\* A stake or an unstake moves the position and the staker's balances alike.
LEMMA MoveStep ==
  ASSUME IInv, NEW u \in Users, NEW after \in Positions,
         stakeInfo[u].aTSB + Change(position, after).aToken \in Nat,
         stakeInfo[u].dTSB + Change(position, after).debt \in Nat,
         position' = after,
         stakeInfo' = [stakeInfo EXCEPT ![u] = Staked(@, Change(position, after))],
         totalSB' = totalSB + Change(position, after).aToken,
         Collect, moves' = moves + 1,
         UNCHANGED <<claimVars, environment, aTokenReward, harvests>>
  PROVE  IInv' /\ EscrowVars' = EscrowVars
<1> DEFINE info == stakeInfo[u]
           gained == Change(position, after)
<1>1. /\ info \in Stakes /\ IsSettled(info)
      /\ accTokenPerShare \in Nat /\ totalSB \in Nat /\ chefPending \in Nat
      /\ stakeInfo \in [Users -> Stakes] /\ position \in Positions
      /\ moves \in Nat /\ NewAccTokenPerShare \in Nat
      /\ PRECISION \in Nat \ {0}
  BY StateIsTyped, AccumulatorGrows DEF IInv, Types
<1>2. PICK new \in Stakes :
        /\ new = Staked(info, gained)
        /\ new.aTSB = info.aTSB + gained.aToken
        /\ new.dTSB = info.dTSB + gained.debt
        /\ new.debt = Accrued(NewAccTokenPerShare, new.aTSB)
        /\ PRECISION * new.pending + NewAccTokenPerShare * new.aTSB + PRECISION * info.debt
             <= PRECISION * info.pending + NewAccTokenPerShare * info.aTSB
                  + PRECISION * new.debt + PRECISION
  <2> HIDE DEF info, gained
  <2>1. info.aTSB + gained.aToken \in Nat /\ info.dTSB + gained.debt \in Nat
    BY DEF info, gained
  <2> QED
    BY <1>1, <2>1, StakedIsSettled
<1>3. stakeInfo' = [stakeInfo EXCEPT ![u] = new]
  BY <1>2
<1>4. /\ stakeInfo' \in [Users -> Stakes]
      /\ SumOf(ATSBs)' = SumOf(ATSBs) - info.aTSB + new.aTSB
      /\ SumOf(DTSBs)' = SumOf(DTSBs) - info.dTSB + new.dTSB
      /\ SumOf(Pendings)' = SumOf(Pendings) - info.pending + new.pending
      /\ SumOf(Debts)' = SumOf(Debts) - info.debt + new.debt
      /\ SumOf(ATSBs)' \in Nat
  BY <1>1, <1>3, RecordChanges
<1>5. /\ info.aTSB \in Nat /\ info.dTSB \in Nat /\ info.pending \in Nat /\ info.debt \in Nat
      /\ new.aTSB \in Nat /\ new.dTSB \in Nat /\ new.pending \in Nat /\ new.debt \in Nat
      /\ position.debt \in Nat /\ after.debt \in Nat
      /\ position.aToken \in Nat /\ after.aToken \in Nat
  BY <1>1 DEF Stakes, Positions
<1>6. gained.aToken = after.aToken - position.aToken /\ gained.debt = after.debt - position.debt
  BY DEF Change
<1>7. totalSB' = totalSB + gained.aToken /\ position' = after
  OBVIOUS
<1> HIDE DEF info, gained
<1>8. totalSB = SumOf(ATSBs) /\ position.debt = SumOf(DTSBs)
  BY DEF IInv, StakesAddUp, ATSBs, DTSBs
<1>9. totalSB' = totalSB - info.aTSB + new.aTSB
  BY <1>1, <1>2, <1>5, <1>6, <1>7
<1>10. totalSB' = SumOf(ATSBs)' /\ totalSB' \in Nat
  BY <1>4, <1>8, <1>9
<1>11. position'.debt = SumOf(DTSBs)'
  BY <1>2, <1>4, <1>5, <1>6, <1>7, <1>8
<1>12. StakesAddUp'
  BY <1>10, <1>11 DEF StakesAddUp, ATSBs, DTSBs
<1>13. Settled'
  BY <1>2, <1>3, CollectStep, OthersStaySettled DEF IInv
<1>14. claimInfo' = claimInfo
  BY DEF claimVars
<1>15. SharedExactly'
  <2>1. PRECISION * (new.pending + 0) + NewAccTokenPerShare * new.aTSB + PRECISION * info.debt
          <= PRECISION * info.pending + NewAccTokenPerShare * info.aTSB
               + PRECISION * new.debt + PRECISION * 1
    BY <1>1, <1>2, <1>5
  <2>2. ClaimSum' = ClaimSum + 0
    BY <1>14, SameClaims, StateIsTyped
  <2> QED
    BY <1>4, <1>9, <2>1, <2>2, CollectStep, PromisesOfAStep DEF info
<1>16. Types'
  BY <1>4, <1>7, <1>10, <1>14, CollectStep DEF IInv, Types, claimVars, environment
<1>17. Payable'
  BY <1>14 DEF IInv, Payable
<1>18. EscrowVars' = EscrowVars
  BY <1>14, SameClaims DEF EscrowVars, claimVars, environment
<1> QED
  BY <1>12, <1>13, <1>15, <1>16, <1>17, <1>18 DEF IInv

LEMMA StakeStep ==
  ASSUME IInv, NEW u \in Users, NEW amount \in Amounts, Stake(u, amount)
  PROVE  IInv' /\ EscrowVars' = EscrowVars
<1>1. amount \in Nat /\ now \in Times /\ position \in Positions /\ stakeInfo[u] \in Stakes
  BY LeveragerAssumption DEF IInv, Types
<1>2. PICK after \in Positions : /\ after = Looped(position, amount)
                                 /\ after.aToken >= position.aToken
                                 /\ after.debt >= position.debt
  BY <1>1, LoopedAdds
<1>3. /\ stakeInfo[u].aTSB + Change(position, after).aToken \in Nat
      /\ stakeInfo[u].dTSB + Change(position, after).debt \in Nat
  BY <1>1, <1>2 DEF Change, Positions, Stakes
<1>4. /\ position' = after
      /\ stakeInfo' = [stakeInfo EXCEPT ![u] = Staked(@, Change(position, after))]
      /\ totalSB' = totalSB + Change(position, after).aToken
      /\ Collect /\ moves' = moves + 1
      /\ UNCHANGED <<claimVars, environment, aTokenReward, harvests>>
  BY <1>2 DEF Stake
<1> QED
  BY <1>3, <1>4, MoveStep

LEMMA UnstakeStep ==
  ASSUME IInv, NEW u \in Users, NEW amount \in Amounts \cup {0}, Unstake(u, amount)
  PROVE  IInv' /\ EscrowVars' = EscrowVars
<1> DEFINE info == stakeInfo[u]
           asked == IF amount = 0 THEN Unstakeable(info) ELSE amount
           repay == RepayFor(ATokens(info.aTSB), DebtTokens(info.dTSB), asked)
<1>1. amount \in Nat /\ now \in Times /\ position \in Positions /\ info \in Stakes
  BY LeveragerAssumption DEF IInv, Types
<1>2. info.aTSB \in Nat /\ info.dTSB \in Nat
  BY <1>1 DEF Stakes
<1>3. /\ ATokens(info.aTSB) \in Nat /\ DebtTokens(info.dTSB) \in Nat
      /\ Unstakeable(info) \in Nat
      /\ Unstakeable(info) # 0 => DebtTokens(info.dTSB) < ATokens(info.aTSB)
  BY <1>1, <1>2, ValueIsNat DEF Unstakeable
<1>4. asked \in Nat /\ asked <= Unstakeable(info)
  BY <1>1, <1>3 DEF Unstake
<1>5. PICK after \in Positions :
        after = IF asked = 0 THEN position ELSE Unlooped(position, asked, repay)
  <2>1. CASE asked = 0
    BY <1>1, <2>1
  <2>2. CASE asked # 0
    <3>1. DebtTokens(info.dTSB) < ATokens(info.aTSB)
      BY <1>3, <1>4, <2>2
    <3>2. repay \in Nat
      BY <1>3, <1>4, <3>1, RepayIsNat
    <3>3. CanUnloop(position, asked, repay)
      BY <2>2 DEF Unstake
    <3> HIDE DEF asked, repay
    <3>4. Unlooped(position, asked, repay) \in Positions
      BY <1>1, <1>4, <3>2, <3>3, UnloopedIsPosition
    <3> QED
      BY <2>2, <3>4
  <2> QED
    BY <2>1, <2>2
<1>6. /\ position' = after
      /\ info.aTSB + Change(position, after).aToken >= 0
      /\ info.dTSB + Change(position, after).debt >= 0
      /\ stakeInfo' = [stakeInfo EXCEPT ![u] = Staked(@, Change(position, after))]
      /\ totalSB' = totalSB + Change(position, after).aToken
      /\ Collect /\ moves' = moves + 1
      /\ UNCHANGED <<claimVars, environment, aTokenReward, harvests>>
  BY <1>5 DEF Unstake
<1>7. /\ info.aTSB + Change(position, after).aToken \in Nat
      /\ info.dTSB + Change(position, after).debt \in Nat
  BY <1>1, <1>2, <1>6 DEF Change, Positions
<1> QED
  BY <1>6, <1>7, MoveStep

\* The fee is less than the claim, whatever the rounding: something is left to
\* pay, and the two make up what was pending.
LEMMA NewClaimIsWhole ==
  ASSUME now \in Times, NEW u \in Users, NEW amount \in Nat \ {0}
  PROVE  LET claim == NewClaim(u, amount, now + VestDuration)
         IN  /\ claim \in Claims
             /\ claim.amount > 0 /\ ~claim.isClaimed /\ claim.expireAt > now
             /\ claim.amount + claim.feeAmount = amount
<1> DEFINE fee == (amount * Fee) \div MULTIPLIER
           expiry == now + VestDuration
           claim == NewClaim(u, amount, expiry)
<1>1. /\ MULTIPLIER \in Nat \ {0} /\ Fee \in Nat /\ Fee + 1 <= MULTIPLIER
      /\ VestDuration \in Nat \ {0} /\ now \in Nat
  BY LeveragerAssumption DEF Times
<1>2. amount * Fee \in Nat /\ amount * Fee < amount * MULTIPLIER
  <2>1. amount * (Fee + 1) <= amount * MULTIPLIER
    BY <1>1
  <2>2. amount * (Fee + 1) = amount * Fee + amount
    BY <1>1
  <2> QED
    BY <1>1, <2>1, <2>2
<1>3. fee \in Nat /\ MULTIPLIER * fee <= amount * Fee
  BY <1>1, <1>2, Quotient
<1> HIDE DEF fee
<1>4. fee < amount
  <2>1. fee * MULTIPLIER < amount * MULTIPLIER
    BY <1>1, <1>2, <1>3
  <2> QED
    BY <1>1, <1>3, <2>1, SmallerFactor
<1>5. expiry \in Nat /\ expiry > now
  BY <1>1
<1> HIDE DEF expiry
<1>6. claim = [amount |-> amount - fee, feeAmount |-> fee, receiver |-> u,
               isClaimed |-> FALSE, expireAt |-> expiry]
  BY DEF NewClaim, fee
<1>7. amount - fee \in Nat /\ amount - fee > 0 /\ amount - fee + fee = amount
  BY <1>3, <1>4
<1> HIDE DEF claim
<1>8. /\ claim \in Claims /\ claim.amount > 0 /\ ~claim.isClaimed /\ claim.expireAt > now
      /\ claim.amount + claim.feeAmount = amount
  BY <1>3, <1>5, <1>6, <1>7 DEF Claims
<1> QED
  BY <1>8 DEF claim, expiry

\* One more claim is one more summand and one more claim of the escrow.
LEMMA ClaimAppended ==
  ASSUME Types, Payable, NEW c \in Claims, c.amount > 0, ~c.isClaimed, c.expireAt > now,
         claimInfo' = Append(claimInfo, c), UNCHANGED <<now, paid, distributed>>
  PROVE  /\ claimInfo' \in Seq(Claims) /\ Len(claimInfo') = Len(claimInfo) + 1
         /\ Payable'
         /\ ClaimSum' = ClaimSum + (c.amount + c.feeAmount)
         /\ [Escrow!EscrowNext]_EscrowVars
<1> DEFINE n == Len(claimInfo)
<1>1. /\ n \in Nat /\ claimInfo \in Seq(Claims)
      /\ c.amount \in Nat /\ c.feeAmount \in Nat /\ c.receiver \in Users /\ c.expireAt \in Nat
  BY ClaimsAreTyped DEF Types, Claims
<1>2. /\ claimInfo' \in Seq(Claims) /\ Len(claimInfo') = n + 1
      /\ claimInfo'[n + 1] = c
      /\ \A i \in 1 .. n : claimInfo'[i] = claimInfo[i]
  BY <1>1
<1> HIDE DEF n
<1>3. \A i \in 1 .. n + 1 : i \in 1 .. n \/ i = n + 1
  BY <1>1
<1>4. Payable'
  BY <1>2, <1>3 DEF Payable, n
<1>5. ClaimSum' = ClaimSum + (c.amount + c.feeAmount)
  <2> DEFINE f == ClaimTotals
             g == ClaimTotals'
  <2>1. ClaimTotals' = [i \in 1 .. n + 1 |-> claimInfo'[i].amount + claimInfo'[i].feeAmount]
    BY <1>2 DEF ClaimTotals
  <2>2. g[n + 1] = c.amount + c.feeAmount
    BY <1>1, <1>2, <2>1
  <2>3. \A i \in 1 .. n : f[i] \in Nat /\ f[i] = g[i]
    <3>1. SUFFICES ASSUME NEW i \in 1 .. n PROVE f[i] \in Nat /\ f[i] = g[i]
      OBVIOUS
    <3>2. i \in 1 .. n + 1 /\ i \in 1 .. Len(claimInfo)
      BY <1>1 DEF n
    <3>3. g[i] = claimInfo[i].amount + claimInfo[i].feeAmount
      BY <1>2, <2>1, <3>2
    <3> QED
      BY <3>2, <3>3, ClaimsAreTyped
  <2> HIDE DEF f, g
  <2>4. SumTo(f, n) = SumTo(g, n)
    BY <1>1, <2>3, SumToAgrees
  <2>5. SumTo(g, n + 1) = SumTo(g, n) + g[n + 1]
    BY <1>1, SumToUnfolds
  <2>6. ClaimSum = SumTo(f, n) /\ ClaimSum' = SumTo(g, n + 1)
    BY <1>2 DEF ClaimSum, f, g, n
  <2> QED
    BY <2>2, <2>4, <2>5, <2>6
<1>6. Escrow!Issue
  <2> DEFINE asked == [amount |-> c.amount, feeAmount |-> c.feeAmount,
                       receiver |-> c.receiver, expireAt |-> c.expireAt]
  <2>1. Issued' = [i \in 1 .. n + 1 |->
                     [amount |-> claimInfo'[i].amount, feeAmount |-> claimInfo'[i].feeAmount,
                      receiver |-> claimInfo'[i].receiver, expireAt |-> claimInfo'[i].expireAt]]
    BY <1>2 DEF Issued
  <2>2. Issued'[n + 1] = asked
    BY <1>1, <1>2, <2>1
  <2>3. Len(Issued) = n /\ Len(Issued') = n + 1
    BY <1>1, <2>1 DEF Issued, n
  <2>4. Issued' = Append(Issued, asked)
    <3>1. \A i \in 1 .. n : Issued'[i] = Issued[i]
      BY <1>1, <1>2, <2>1 DEF Issued, n
    <3>2. Issued = [i \in 1 .. n |-> Issued[i]]
      BY DEF Issued, n
    <3>3. Issued' = [i \in 1 .. n + 1 |-> Issued'[i]]
      BY <2>1
    <3>4. Append(Issued, asked) = [i \in 1 .. n + 1 |-> IF i = n + 1 THEN asked ELSE Issued[i]]
      BY <1>1, <2>3
    <3> HIDE DEF asked
    <3> QED
      BY <1>3, <2>2, <3>1, <3>3, <3>4
  <2>5. asked \in Escrow!VestedClaim /\ asked.expireAt > now
    BY <1>1 DEF Escrow!VestedClaim
  <2>6. SettledClaims' = SettledClaims
    <3>1. SettledClaims' = {i \in 1 .. n + 1 : claimInfo'[i].isClaimed}
      BY <1>2 DEF SettledClaims
    <3>2. SettledClaims = {i \in 1 .. n : claimInfo[i].isClaimed}
      BY DEF SettledClaims, n
    <3>3. 1 .. n \subseteq 1 .. n + 1 /\ n + 1 \in 1 .. n + 1
      BY <1>1
    <3> QED
      BY <1>2, <1>3, <3>1, <3>2, <3>3
  <2> HIDE DEF asked
  <2> QED
    BY <2>2, <2>3, <2>4, <2>5, <2>6 DEF Escrow!Issue, Issued, SettledClaims
<1>7. Escrow!EscrowNext
  BY <1>6 DEF Escrow!EscrowNext
<1> QED
  BY <1>2, <1>4, <1>5, <1>7 DEF n

LEMMA ClaimStep ==
  ASSUME IInv, NEW u \in Users, Claim(u)
  PROVE  IInv' /\ [Escrow!EscrowNext]_EscrowVars
<1> DEFINE info == stakeInfo[u]
<1>1. /\ info \in Stakes /\ IsSettled(info)
      /\ accTokenPerShare \in Nat /\ totalSB \in Nat /\ chefPending \in Nat
      /\ stakeInfo \in [Users -> Stakes]
      /\ moves \in Nat /\ NewAccTokenPerShare \in Nat /\ now \in Times
      /\ PRECISION \in Nat \ {0}
  BY StateIsTyped, AccumulatorGrows DEF IInv, Types
<1>2. PICK new \in Stakes :
        /\ new = WithDebt(Updated(info))
        /\ new.aTSB = info.aTSB /\ new.dTSB = info.dTSB
        /\ new.debt = Accrued(NewAccTokenPerShare, new.aTSB)
        /\ new.pending + info.debt <= info.pending + new.debt
  <2> HIDE DEF info
  <2> QED
    BY <1>1, ClaimedIsSettled
<1> DEFINE zero == [new EXCEPT !.pending = 0]
<1>3. /\ zero \in Stakes /\ zero.pending = 0 /\ zero.debt = new.debt
      /\ zero.aTSB = new.aTSB /\ zero.dTSB = new.dTSB
  BY DEF Stakes
<1>4. /\ Collect /\ now' = now /\ funds' = funds /\ distributorOpen' = distributorOpen
      /\ paid' = paid /\ distributed' = distributed /\ totalSB' = totalSB /\ position' = position
      /\ aTokenReward' = aTokenReward /\ harvests' = harvests /\ moves' = moves
  BY DEF Claim, environment
<1>5. \/ /\ new.pending > 0
         /\ stakeInfo' = [stakeInfo EXCEPT ![u] = zero]
         /\ claimInfo' = Append(claimInfo, NewClaim(u, new.pending, now + VestDuration))
         /\ userClaims' = [userClaims EXCEPT ![u] = @ \cup {Len(claimInfo) + 1}]
      \/ /\ ~(new.pending > 0)
         /\ stakeInfo' = [stakeInfo EXCEPT ![u] = new]
         /\ UNCHANGED <<claimInfo, userClaims>>
  BY <1>2 DEF Claim
<1> HIDE DEF zero
<1>6. PICK left \in Stakes :
        /\ left.aTSB = info.aTSB /\ left.dTSB = info.dTSB
        /\ left.debt = Accrued(NewAccTokenPerShare, left.aTSB)
        /\ left.debt = new.debt /\ left.pending \in {0, new.pending}
        /\ stakeInfo' = [stakeInfo EXCEPT ![u] = left]
        /\ ClaimSum' = ClaimSum + (new.pending - left.pending)
        /\ claimInfo' \in Seq(Claims) /\ Payable'
        /\ userClaims' \in [Users -> SUBSET (1 .. Len(claimInfo'))]
        /\ [Escrow!EscrowNext]_EscrowVars
  <2>1. CASE /\ new.pending > 0
             /\ stakeInfo' = [stakeInfo EXCEPT ![u] = zero]
             /\ claimInfo' = Append(claimInfo, NewClaim(u, new.pending, now + VestDuration))
             /\ userClaims' = [userClaims EXCEPT ![u] = @ \cup {Len(claimInfo) + 1}]
    <3>1. new.pending \in Nat \ {0}
      BY <2>1 DEF Stakes
    <3>2. PICK c \in Claims :
            /\ c = NewClaim(u, new.pending, now + VestDuration)
            /\ c.amount > 0 /\ ~c.isClaimed /\ c.expireAt > now
            /\ c.amount + c.feeAmount = new.pending
      BY <1>1, <3>1, NewClaimIsWhole
    <3>3. claimInfo' = Append(claimInfo, c)
      BY <2>1, <3>2
    <3>4. /\ claimInfo' \in Seq(Claims) /\ Len(claimInfo') = Len(claimInfo) + 1
          /\ Payable'
          /\ ClaimSum' = ClaimSum + (c.amount + c.feeAmount)
          /\ [Escrow!EscrowNext]_EscrowVars
      BY <1>4, <3>2, <3>3, ClaimAppended DEF IInv
    <3>5. userClaims' \in [Users -> SUBSET (1 .. Len(claimInfo'))]
      <4>1. Len(claimInfo) \in Nat /\ userClaims \in [Users -> SUBSET (1 .. Len(claimInfo))]
        BY ClaimsAreTyped DEF IInv, Types
      <4>2. /\ 1 .. Len(claimInfo) \subseteq 1 .. Len(claimInfo')
            /\ Len(claimInfo) + 1 \in 1 .. Len(claimInfo')
        BY <3>4, <4>1
      <4> QED
        BY <2>1, <4>1, <4>2
    <3>6. new.pending - zero.pending = c.amount + c.feeAmount
      BY <1>3, <3>1, <3>2
    <3> HIDE DEF info
    <3> QED
      BY <1>2, <1>3, <2>1, <3>4, <3>5, <3>6
  <2>2. CASE /\ ~(new.pending > 0)
             /\ stakeInfo' = [stakeInfo EXCEPT ![u] = new]
             /\ UNCHANGED <<claimInfo, userClaims>>
    <3>1. new.pending \in Nat
      BY DEF Stakes
    <3>2. ClaimSum' = ClaimSum + (new.pending - new.pending)
      BY <2>2, <3>1, SameClaims, StateIsTyped
    <3>3. EscrowVars' = EscrowVars
      BY <1>4, <2>2, SameClaims DEF EscrowVars
    <3>4. claimInfo' \in Seq(Claims) /\ userClaims' \in [Users -> SUBSET (1 .. Len(claimInfo'))]
      BY <2>2 DEF IInv, Types
    <3>5. Payable'
      BY <2>2 DEF IInv, Payable
    <3> HIDE DEF info
    <3> QED
      BY <1>2, <2>2, <3>2, <3>3, <3>4, <3>5
  <2> HIDE DEF info
  <2> QED
    BY <1>5, <2>1, <2>2
<1>7. /\ stakeInfo' \in [Users -> Stakes]
      /\ SumOf(ATSBs)' = SumOf(ATSBs) - info.aTSB + left.aTSB
      /\ SumOf(DTSBs)' = SumOf(DTSBs) - info.dTSB + left.dTSB
      /\ SumOf(Pendings)' = SumOf(Pendings) - info.pending + left.pending
      /\ SumOf(Debts)' = SumOf(Debts) - info.debt + left.debt
      /\ SumOf(ATSBs) \in Nat /\ SumOf(DTSBs) \in Nat
  BY <1>1, <1>6, RecordChanges, ColumnsAreTyped
<1>8. /\ info.aTSB \in Nat /\ info.dTSB \in Nat /\ info.pending \in Nat /\ info.debt \in Nat
      /\ new.pending \in Nat /\ new.debt \in Nat /\ left.pending \in Nat /\ left.debt \in Nat
      /\ left.aTSB \in Nat
  BY <1>1 DEF Stakes
<1>9. Settled'
  BY <1>4, <1>6, CollectStep, OthersStaySettled DEF IInv
<1> HIDE DEF info
<1>10. StakesAddUp'
  <2>1. SumOf(ATSBs)' = SumOf(ATSBs) /\ SumOf(DTSBs)' = SumOf(DTSBs)
    BY <1>6, <1>7, <1>8
  <2> QED
    BY <1>4, <2>1 DEF IInv, StakesAddUp, ATSBs, DTSBs
<1>11. SharedExactly'
  <2> DEFINE claimed == new.pending - left.pending
  <2>0. /\ left.pending = 0 \/ left.pending = new.pending
        /\ left.debt = new.debt /\ left.aTSB = info.aTSB
    BY <1>6
  <2>1. claimed \in Nat /\ left.pending + claimed = new.pending
    BY <1>8, <2>0
  <2>2. PRECISION * (new.pending + info.debt) <= PRECISION * (info.pending + left.debt)
    <3>1. new.pending + info.debt <= info.pending + left.debt
      BY <1>2, <2>0
    <3>2. PRECISION \in Nat
      BY <1>1
    <3> QED
      BY <1>8, <3>1, <3>2
  <2>3. PRECISION * (left.pending + claimed) + NewAccTokenPerShare * left.aTSB
            + PRECISION * info.debt
          <= PRECISION * info.pending + NewAccTokenPerShare * info.aTSB
               + PRECISION * left.debt + PRECISION * 0
    <3>1. NewAccTokenPerShare * left.aTSB = NewAccTokenPerShare * info.aTSB
          /\ NewAccTokenPerShare * left.aTSB \in Nat
      BY <1>1, <1>8, <2>0
    <3>2. /\ PRECISION * (new.pending + info.debt) = PRECISION * new.pending + PRECISION * info.debt
          /\ PRECISION * (info.pending + left.debt)
               = PRECISION * info.pending + PRECISION * left.debt
          /\ PRECISION * new.pending \in Nat /\ PRECISION * info.debt \in Nat
          /\ PRECISION * info.pending \in Nat /\ PRECISION * left.debt \in Nat
          /\ PRECISION * 0 = 0
      BY <1>1, <1>8
    <3> QED
      BY <2>1, <2>2, <3>1, <3>2
  <2>4. totalSB' = totalSB - info.aTSB + left.aTSB
    BY <1>1, <1>4, <1>6, <1>8
  <2>5. moves' = moves + 0
    BY <1>1, <1>4
  <2> HIDE DEF claimed
  <2>6. ClaimSum' = ClaimSum + claimed
    BY <1>6 DEF claimed
  <2> QED
    BY <1>4, <1>7, <2>1, <2>3, <2>4, <2>5, <2>6, CollectStep, PromisesOfAStep DEF info
<1>12. Types'
  BY <1>4, <1>6, <1>7, CollectStep DEF IInv, Types
<1> QED
  BY <1>6, <1>9, <1>10, <1>11, <1>12 DEF IInv

\* Nothing of what the sums are about changes.
LEMMA SharesUnmoved ==
  ASSUME IInv, UNCHANGED <<accTokenPerShare, collected, totalSB, stakeInfo, moves>>,
         ClaimSum' = ClaimSum, position'.debt = position.debt
  PROVE  Settled' /\ StakesAddUp' /\ SharedExactly'
<1>1. Settled'
  BY DEF IInv, Settled, IsSettled, Accrued
<1>2. StakesAddUp'
  BY DEF IInv, StakesAddUp, SumOf
<1>3. SharedExactly'
  BY DEF IInv, SharedExactly, SumOf, Pendings, Debts
<1> QED
  BY <1>1, <1>2, <1>3

LEMMA ClaimVestedStep ==
  ASSUME IInv, NEW i \in 1 .. Len(claimInfo), ClaimVested(i)
  PROVE  IInv' /\ [Escrow!EscrowNext]_EscrowVars
<1> DEFINE info == claimInfo[i]
           n == Len(claimInfo)
           done == [info EXCEPT !.isClaimed = TRUE]
<1>1. /\ n \in Nat /\ claimInfo \in Seq(Claims) /\ \A j \in 1 .. n : claimInfo[j] \in Claims
      /\ info.amount \in Nat /\ info.feeAmount \in Nat /\ info.receiver \in Users
      /\ paid \in [Users -> Nat] /\ distributed \in Nat
      /\ userClaims \in [Users -> SUBSET (1 .. n)]
  BY ClaimsAreTyped DEF IInv, Types, Claims
<1>2. /\ info.amount # 0 /\ ~info.isClaimed /\ info.expireAt < now
      /\ claimInfo' = [claimInfo EXCEPT ![i] = done]
      /\ userClaims' = [userClaims EXCEPT ![info.receiver] = @ \ {i}]
      /\ paid' = [paid EXCEPT ![info.receiver] = @ + info.amount]
      /\ distributed' = distributed + info.feeAmount
      /\ UNCHANGED <<accTokenPerShare, collected, chefPending, vesting, now, funds,
                     distributorOpen, totalSB, stakeInfo, position, aTokenReward, harvests, moves>>
  BY DEF ClaimVested, rewardVars, environment
<1>3. /\ done \in Claims /\ done.isClaimed /\ done.amount = info.amount
      /\ done.feeAmount = info.feeAmount /\ done.receiver = info.receiver
      /\ done.expireAt = info.expireAt
  BY <1>1 DEF Claims
<1> HIDE DEF done
<1>4. /\ claimInfo' \in Seq(Claims) /\ Len(claimInfo') = n
      /\ claimInfo'[i] = done
      /\ \A j \in 1 .. n : j # i => claimInfo'[j] = claimInfo[j]
  BY <1>1, <1>2, <1>3
<1> HIDE DEF info, n
<1>5. \A j \in 1 .. n : /\ claimInfo'[j].amount = claimInfo[j].amount
                        /\ claimInfo'[j].feeAmount = claimInfo[j].feeAmount
                        /\ claimInfo'[j].receiver = claimInfo[j].receiver
                        /\ claimInfo'[j].expireAt = claimInfo[j].expireAt
  BY <1>3, <1>4 DEF info
<1>6. ClaimTotals' = ClaimTotals /\ Issued' = Issued
  <2>1. /\ ClaimTotals' = [j \in 1 .. n |-> claimInfo'[j].amount + claimInfo'[j].feeAmount]
        /\ ClaimTotals = [j \in 1 .. n |-> claimInfo[j].amount + claimInfo[j].feeAmount]
    BY <1>4 DEF ClaimTotals, n
  <2>2. /\ Issued' = [j \in 1 .. n |->
                       [amount |-> claimInfo'[j].amount, feeAmount |-> claimInfo'[j].feeAmount,
                        receiver |-> claimInfo'[j].receiver, expireAt |-> claimInfo'[j].expireAt]]
        /\ Issued = [j \in 1 .. n |->
                       [amount |-> claimInfo[j].amount, feeAmount |-> claimInfo[j].feeAmount,
                        receiver |-> claimInfo[j].receiver, expireAt |-> claimInfo[j].expireAt]]
    BY <1>4 DEF Issued, n
  <2>3. ClaimTotals' = ClaimTotals
    BY <1>5, <2>1
  <2>4. Issued' = Issued
    BY <1>5, <2>2
  <2> QED
    BY <2>3, <2>4
<1>7. ClaimSum' = ClaimSum
  BY <1>4, <1>6 DEF ClaimSum, n
<1>8. SettledClaims' = SettledClaims \cup {i} /\ i \notin SettledClaims
  <2>1. /\ SettledClaims' = {j \in 1 .. n : claimInfo'[j].isClaimed}
        /\ SettledClaims = {j \in 1 .. n : claimInfo[j].isClaimed}
    BY <1>4 DEF SettledClaims, n
  <2>2. i \in 1 .. n /\ claimInfo'[i].isClaimed /\ ~claimInfo[i].isClaimed
    BY <1>2, <1>3, <1>4 DEF n, info
  <2> QED
    BY <1>4, <2>1, <2>2
<1>9. Escrow!Settle(i)
  <2>1. Issued[i].amount = info.amount /\ Issued[i].feeAmount = info.feeAmount
        /\ Issued[i].receiver = info.receiver /\ Issued[i].expireAt = info.expireAt
    BY DEF Issued, info
  <2> QED
    BY <1>2, <1>6, <1>8, <2>1 DEF Escrow!Settle, Issued, SettledClaims
<1>10. Escrow!EscrowNext
  <2>1. i \in 1 .. Len(Issued)
    BY <1>1 DEF Issued, n
  <2> QED
    BY <1>9, <2>1 DEF Escrow!EscrowNext, Issued
<1>11. Types'
  <2>1. paid' \in [Users -> Nat] /\ distributed' \in Nat
    BY <1>1, <1>2
  <2>2. userClaims' \in [Users -> SUBSET (1 .. n)]
    BY <1>1, <1>2
  <2> QED
    BY <1>2, <1>4, <2>1, <2>2 DEF IInv, Types
<1>12. Payable'
  BY <1>4, <1>5 DEF IInv, Payable, n
<1>13. Settled' /\ StakesAddUp' /\ SharedExactly'
  BY <1>2, <1>7, SharesUnmoved
<1> QED
  BY <1>10, <1>11, <1>12, <1>13 DEF IInv

LEMMA CompoundStep ==
  ASSUME IInv, NEW amount \in Harvests, Compound(amount)
  PROVE  IInv' /\ EscrowVars' = EscrowVars
<1> DEFINE before == ATokens(position.aToken)
           richer == Deposited(position, amount)
           value == ATokens(richer.aToken)
           booked == aTokenReward + value - before
<1>1. /\ amount \in Nat /\ now \in Times /\ position \in Positions /\ position.aToken \in Nat
      /\ aTokenReward \in Nat /\ harvests \in Nat
  BY LeveragerAssumption DEF IInv, Types, Positions
<1>2. richer \in Positions /\ richer.aToken >= position.aToken /\ richer.debt = position.debt
  BY <1>1, DepositedAdds
<1> HIDE DEF richer
<1>3. richer.aToken \in Nat
  BY <1>2 DEF Positions
<1>4. before \in Nat /\ value \in Nat /\ before <= value
  BY <1>1, <1>2, <1>3, ValueIsNat, ValueGrows
<1> HIDE DEF before, value
<1>5. booked \in Nat
  BY <1>1, <1>4
<1>6. /\ harvests' = harvests + 1
      /\ \/ position' = richer /\ aTokenReward' = booked
         \/ /\ booked <= value /\ position' = Withdrawn(richer, booked) /\ aTokenReward' = 0
      /\ UNCHANGED <<rewardVars, claimVars, environment, totalSB, stakeInfo, moves>>
  BY DEF Compound, richer, value, before
<1> HIDE DEF booked
<1>7. /\ position' \in Positions /\ position'.debt = position.debt /\ aTokenReward' \in Nat
  <2>1. CASE position' = richer /\ aTokenReward' = booked
    BY <1>2, <1>5, <2>1
  <2>2. CASE booked <= value /\ position' = Withdrawn(richer, booked) /\ aTokenReward' = 0
    <3>1. Withdrawn(richer, booked) \in Positions
      BY <1>1, <1>2, <1>5, <2>2, WithdrawnIsPosition DEF value
    <3>2. Withdrawn(richer, booked).debt = richer.debt
      BY <1>2 DEF Withdrawn, Positions
    <3> QED
      BY <1>2, <2>2, <3>1, <3>2
  <2> QED
    BY <1>6, <2>1, <2>2
<1>8. claimInfo' = claimInfo
  BY <1>6 DEF claimVars
<1>9. Types'
  BY <1>1, <1>6, <1>7 DEF IInv, Types, rewardVars, claimVars, environment
<1>10. Payable'
  BY <1>8 DEF IInv, Payable
<1>11. Settled' /\ StakesAddUp' /\ SharedExactly'
  BY <1>6, <1>7, <1>8, SameClaims, SharesUnmoved DEF rewardVars
<1>12. EscrowVars' = EscrowVars
  BY <1>6, <1>8, SameClaims DEF EscrowVars, claimVars, environment
<1> QED
  BY <1>9, <1>10, <1>11, <1>12 DEF IInv

\* Nothing the Leverager keeps changes: time passes, somebody else claims for
\* the vault, or the distributor starts or stops reverting.
LEMMA OutsideStep ==
  ASSUME IInv,
         UNCHANGED <<accTokenPerShare, collected, claimVars, totalSB, stakeInfo, position,
                     aTokenReward, harvests, moves>>,
         now' \in Times, now' = now \/ now' > now,
         funds' \in Nat, chefPending' \in Nat, vesting' \in [Times -> Nat],
         distributorOpen' \in BOOLEAN
  PROVE  IInv' /\ [Escrow!EscrowNext]_EscrowVars
<1>1. claimInfo' = claimInfo /\ paid' = paid /\ distributed' = distributed
  BY DEF claimVars
<1>2. ClaimSum' = ClaimSum /\ Issued' = Issued /\ SettledClaims' = SettledClaims
  BY <1>1, SameClaims
<1>3. Types'
  BY DEF IInv, Types, claimVars
<1>4. Payable'
  BY <1>1 DEF IInv, Payable
<1>5. Settled' /\ StakesAddUp' /\ SharedExactly'
  BY <1>2, SharesUnmoved
<1>6. [Escrow!EscrowNext]_EscrowVars
  <2>1. CASE now' = now
    BY <1>1, <1>2, <2>1 DEF EscrowVars
  <2>2. CASE now' > now
    <3>1. Escrow!Pass
      BY <1>1, <1>2, <2>2 DEF Escrow!Pass, Issued, SettledClaims
    <3> QED
      BY <3>1 DEF Escrow!EscrowNext
  <2> QED
    BY <2>1, <2>2
<1> QED
  BY <1>3, <1>4, <1>5, <1>6 DEF IInv

LEMMA TickStep ==
  ASSUME IInv, NEW earned \in 0 .. funds, Tick(earned)
  PROVE  IInv' /\ [Escrow!EscrowNext]_EscrowVars
<1>1. now \in Nat /\ MaxTime \in Nat /\ funds \in Nat /\ chefPending \in Nat
      /\ vesting \in [Times -> Nat] /\ distributorOpen \in BOOLEAN
  BY LeveragerAssumption DEF IInv, Types, Times
<1>2. now' \in Times /\ now' > now /\ funds' \in Nat /\ chefPending' \in Nat
  BY <1>1 DEF Tick, Times
<1> QED
  BY <1>1, <1>2, OutsideStep DEF Tick

LEMMA ChefClaimStep ==
  ASSUME IInv, ChefClaim
  PROVE  IInv' /\ [Escrow!EscrowNext]_EscrowVars
<1>1. now \in Times /\ funds \in Nat /\ chefPending \in Nat
      /\ vesting \in [Times -> Nat] /\ distributorOpen \in BOOLEAN
  BY DEF IInv, Types
<1>2. vesting[now] + chefPending \in Nat
  BY <1>1
<1>3. vesting' \in [Times -> Nat]
  BY <1>1, <1>2 DEF ChefClaim
<1> QED
  BY <1>1, <1>3, OutsideStep DEF ChefClaim, environment

LEMMA DistributorChangesStep ==
  ASSUME IInv, DistributorChanges
  PROVE  IInv' /\ [Escrow!EscrowNext]_EscrowVars
<1>1. now \in Times /\ funds \in Nat /\ chefPending \in Nat
      /\ vesting \in [Times -> Nat] /\ distributorOpen \in BOOLEAN
  BY DEF IInv, Types
<1>2. distributorOpen' \in BOOLEAN
  BY DEF DistributorChanges
<1> QED
  BY <1>1, <1>2, OutsideStep DEF DistributorChanges, rewardVars

-----------------------------------------------------------------------------
(* The theorems.                                                           *)

LEMMA InitIInv == Init => IInv /\ Escrow!EscrowInit
<1> SUFFICES ASSUME Init PROVE IInv /\ Escrow!EscrowInit
  OBVIOUS
<1>1. claimInfo = <<>> /\ Len(claimInfo) = 0 /\ claimInfo \in Seq(Claims)
  BY DEF Init
<1>2. \A u \in Users : stakeInfo[u] = [aTSB |-> 0, dTSB |-> 0, pending |-> 0, debt |-> 0]
  BY DEF Init
<1>3. Types
  <2>1. stakeInfo \in [Users -> Stakes]
    <3>1. [aTSB |-> 0, dTSB |-> 0, pending |-> 0, debt |-> 0] \in Stakes
      BY DEF Stakes
    <3> QED
      BY <3>1 DEF Init
  <2>2. userClaims \in [Users -> SUBSET (1 .. Len(claimInfo))]
    BY <1>1 DEF Init
  <2>3. position \in Positions /\ 0 \in Times /\ RewardFunds \in Nat
    BY LeveragerAssumption DEF Init, Positions, Times
  <2>4. vesting \in [Times -> Nat] /\ paid \in [Users -> Nat]
    BY DEF Init
  <2> QED
    BY <1>1, <2>1, <2>2, <2>3, <2>4 DEF Types, Init
<1>4. Settled
  <2>1. SUFFICES ASSUME NEW u \in Users PROVE IsSettled(stakeInfo[u])
    BY DEF Settled
  <2>2. accTokenPerShare = 0 /\ stakeInfo[u].debt = 0 /\ stakeInfo[u].aTSB = 0
    BY <1>2 DEF Init
  <2> QED
    BY <2>2, AccruedRoundsDown DEF IsSettled
<1>5. Payable
  BY <1>1 DEF Payable
<1>6. /\ SumOf(ATSBs) = 0 /\ SumOf(DTSBs) = 0 /\ SumOf(Pendings) = 0 /\ SumOf(Debts) = 0
      /\ ClaimSum = 0
  <2>1. /\ \A u \in Users : /\ ATSBs[u] = 0 /\ DTSBs[u] = 0
                            /\ Pendings[u] = 0 /\ Debts[u] = 0
        /\ ATSBs \in [Users -> Nat] /\ DTSBs \in [Users -> Nat]
        /\ Pendings \in [Users -> Nat] /\ Debts \in [Users -> Nat]
    BY <1>2 DEF ATSBs, DTSBs, Pendings, Debts
  <2>2. IsFiniteSet(Users)
    BY LeveragerAssumption
  <2>3. SumOf(ATSBs) = 0 /\ SumOf(DTSBs) = 0
    BY <2>1, <2>2, SumOverAccounts DEF SumOf
  <2>4. SumOf(Pendings) = 0 /\ SumOf(Debts) = 0
    BY <2>1, <2>2, SumOverAccounts DEF SumOf
  <2>5. ClaimSum = 0
    BY <1>1, SumToUnfolds DEF ClaimSum
  <2> QED
    BY <2>3, <2>4, <2>5
<1>7. StakesAddUp
  BY <1>6 DEF StakesAddUp, ATSBs, DTSBs, Init
<1>8. SharedExactly
  <2>1. accTokenPerShare = 0 /\ totalSB = 0 /\ collected = 0 /\ moves = 0
        /\ PRECISION \in Nat
    BY LeveragerAssumption DEF Init
  <2> QED
    BY <1>6, <2>1 DEF SharedExactly
<1>9. Escrow!EscrowInit
  <2>1. 1 .. Len(claimInfo) = {}
    BY <1>1
  <2> QED
    BY <1>1, <2>1 DEF Escrow!EscrowInit, Init
<1> QED
  BY <1>3, <1>4, <1>5, <1>7, <1>8, <1>9 DEF IInv

LEMMA NextStep == IInv /\ [Next]_vars => IInv' /\ [Escrow!EscrowNext]_EscrowVars
<1> SUFFICES ASSUME IInv, [Next]_vars PROVE IInv' /\ [Escrow!EscrowNext]_EscrowVars
  OBVIOUS
<1>1. ASSUME NEW u \in Users, NEW amount \in Amounts, Stake(u, amount)
      PROVE  IInv' /\ [Escrow!EscrowNext]_EscrowVars
  BY <1>1, StakeStep
<1>2. ASSUME NEW u \in Users, NEW amount \in Amounts \cup {0}, Unstake(u, amount)
      PROVE  IInv' /\ [Escrow!EscrowNext]_EscrowVars
  BY <1>2, UnstakeStep
<1>3. ASSUME NEW u \in Users, Claim(u)
      PROVE  IInv' /\ [Escrow!EscrowNext]_EscrowVars
  BY <1>3, ClaimStep
<1>4. ASSUME NEW i \in 1 .. Len(claimInfo), ClaimVested(i)
      PROVE  IInv' /\ [Escrow!EscrowNext]_EscrowVars
  BY <1>4, ClaimVestedStep
<1>5. ASSUME NEW amount \in Harvests, Compound(amount)
      PROVE  IInv' /\ [Escrow!EscrowNext]_EscrowVars
  BY <1>5, CompoundStep
<1>6. ASSUME NEW earned \in 0 .. funds, Tick(earned)
      PROVE  IInv' /\ [Escrow!EscrowNext]_EscrowVars
  BY <1>6, TickStep
<1>7. ASSUME ChefClaim PROVE IInv' /\ [Escrow!EscrowNext]_EscrowVars
  BY <1>7, ChefClaimStep
<1>8. ASSUME DistributorChanges PROVE IInv' /\ [Escrow!EscrowNext]_EscrowVars
  BY <1>8, DistributorChangesStep
<1>9. ASSUME UNCHANGED vars PROVE IInv' /\ [Escrow!EscrowNext]_EscrowVars
  <2>1. UNCHANGED <<accTokenPerShare, collected, claimVars, totalSB, stakeInfo, position,
                    aTokenReward, harvests, moves, now, funds, chefPending, vesting,
                    distributorOpen>>
    BY <1>9 DEF vars, rewardVars, environment
  <2>2. now \in Times /\ funds \in Nat /\ chefPending \in Nat /\ vesting \in [Times -> Nat]
        /\ distributorOpen \in BOOLEAN
    BY DEF IInv, Types
  <2> QED
    BY <2>1, <2>2, OutsideStep
<1> QED
  BY <1>1, <1>2, <1>3, <1>4, <1>5, <1>6, <1>7, <1>8, <1>9 DEF Next

\* The inductive invariant.
THEOREM Invariance == Spec => []IInv
<1>1. IInv /\ [Next]_vars => IInv'
  BY NextStep
<1> QED
  BY <1>1, InitIInv, PTL DEF Spec

\* Types; what accrued never falls below a debt, so that _update does not
\* revert, and no claim is of nothing, whatever the fee.  The lending pool's
\* rounding never asks a balance for more than there is: the indices are at
\* least one ray.
THEOREM TypeCorrect == Spec => []TypeOK
<1>1. IInv => TypeOK
  BY TypeOKByParts DEF IInv
<1> QED
  BY <1>1, Invariance, PTL

\* totalSB and the vault's debt are what the stakers' records add up to,
\* whatever the indices, amounts and rounding of the stakes and unstakes.
THEOREM StakesAreAddedUp == Spec => []StakesAddUp
<1>1. IInv => StakesAddUp
  BY DEF IInv
<1> QED
  BY <1>1, Invariance, PTL

-----------------------------------------------------------------------------
(* What RewardsAreSharedOnce takes from the invariant.                     *)

LEMMA SharedExactlySuffices == IInv => RewardsAreSharedOnce
<1> SUFFICES ASSUME IInv PROVE RewardsAreSharedOnce
  OBVIOUS
<1> DEFINE P == PRECISION
           k == accTokenPerShare
           Owed == [u \in Users |-> stakeInfo[u].pending + Unsettled(stakeInfo[u])]
<1>1. /\ P \in Nat \ {0} /\ k \in Nat /\ collected \in Nat /\ moves \in Nat /\ ClaimSum \in Nat
      /\ stakeInfo \in [Users -> Stakes]
      /\ ATSBs \in [Users -> Nat] /\ Pendings \in [Users -> Nat] /\ Debts \in [Users -> Nat]
  BY StateIsTyped, ColumnsAreTyped DEF IInv, Types
<1>2. ASSUME NEW u \in Users
      PROVE  Owed[u] \in Nat /\ P * Owed[u] + P * Debts[u] <= P * Pendings[u] + k * ATSBs[u]
  <2> DEFINE a == Accrued(k, ATSBs[u])
             q == Pendings[u]
             d == Debts[u]
             s == ATSBs[u]
  <2>1. q = stakeInfo[u].pending /\ d = stakeInfo[u].debt /\ s = stakeInfo[u].aTSB
        /\ q \in Nat /\ d \in Nat /\ s \in Nat
    BY <1>1 DEF ATSBs, Pendings, Debts
  <2>2. d <= a
    BY <2>1 DEF IInv, Settled, IsSettled
  <2>3. Owed[u] = q + (a - d)
    BY <2>1 DEF Unsettled
  <2>4. a \in Nat /\ k * s \in Nat /\ P * a <= k * s
    BY <1>1, <2>1, AccruedRoundsDown
  <2> HIDE DEF a, q, d, s, P, k, Owed
  <2>5. Owed[u] \in Nat
    BY <2>1, <2>2, <2>3, <2>4
  <2>6. P * Owed[u] = P * q + P * a - P * d
    BY <1>1, <2>1, <2>3, <2>4
  <2>7. P * q \in Nat /\ P * a \in Nat /\ P * d \in Nat
    BY <1>1, <2>1, <2>4
  <2>8. P * Owed[u] + P * d <= P * q + k * s
    BY <2>4, <2>6, <2>7
  <2> QED
    BY <2>5, <2>8 DEF d, q, s
<1>3. Owed \in [Users -> Nat]
  BY <1>2
<1> HIDE DEF P, k, Owed
<1>4. P * SumOf(Owed) + P * SumOf(Debts) <= P * SumOf(Pendings) + k * SumOf(ATSBs)
  <2>1. IsFiniteSet(Users) /\ P \in Nat
    BY <1>1, LeveragerAssumption
  <2>2. \A u \in Users : P * Owed[u] + P * Debts[u] <= P * Pendings[u] + k * ATSBs[u]
    BY <1>2
  <2> QED
    BY <1>1, <1>3, <2>1, <2>2, SumOverCombines DEF SumOf
<1>5. P * SumOf(Pendings) + k * SumOf(ATSBs) + P * ClaimSum
        <= P * (collected + moves) + P * SumOf(Debts)
  BY DEF IInv, SharedExactly, StakesAddUp, ATSBs, P, k
<1>6. /\ SumOf(Owed) \in Nat /\ SumOf(Debts) \in Nat
      /\ SumOf(Pendings) \in Nat /\ SumOf(ATSBs) \in Nat
  BY <1>1, <1>3, SumOverAccounts, LeveragerAssumption DEF SumOf
<1> DEFINE o == SumOf(Owed)
           x == P * SumOf(Owed)
           y == P * SumOf(Debts)
           z == P * SumOf(Pendings)
           w == k * SumOf(ATSBs)
           c == P * ClaimSum
           e == P * (collected + moves)
<1>7. x \in Nat /\ y \in Nat /\ z \in Nat /\ w \in Nat /\ c \in Nat /\ e \in Nat
  BY <1>1, <1>6
<1>8. x + y <= z + w /\ z + w + c <= e + y
  BY <1>4, <1>5
<1>9. x + c <= e
  <2> HIDE DEF x, y, z, w, c, e
  <2> QED
    BY <1>7, <1>8
<1>10. o + ClaimSum <= collected + moves
  <2> HIDE DEF o
  <2>1. o \in Nat
    BY <1>6 DEF o
  <2>2. P * o + P * ClaimSum <= P * (collected + moves)
    BY <1>9 DEF o
  <2>3. (o + ClaimSum) * P <= (collected + moves) * P
    BY <1>1, <2>1, <2>2
  <2>4. ~((collected + moves) * P < (o + ClaimSum) * P)
    BY <1>1, <2>1, <2>3
  <2>5. ~(collected + moves < o + ClaimSum)
    <3>1. SUFFICES ASSUME collected + moves < o + ClaimSum
                   PROVE  (collected + moves) * P < (o + ClaimSum) * P
      BY <2>4
    <3>2. P * (collected + moves) < P * (o + ClaimSum)
      BY <1>1, <2>1, <3>1
    <3> QED
      BY <1>1, <2>1, <3>2
  <2> QED
    BY <1>1, <2>1, <2>5
<1> QED
  BY <1>10 DEF RewardsAreSharedOnce, ClaimSum, o, Owed

\* Stakers are never promised more than was shared out but for one unit of
\* rounding for every change of a stake, for any number of stakers, any
\* precision and any order of calls.
THEOREM SharedOnce == Spec => []RewardsAreSharedOnce
  BY SharedExactlySuffices, Invariance, PTL

\* Claims implement the escrow: each is paid once, after it expired, to its
\* receiver, in full and with its fee.
THEOREM Implementation == Spec => ClaimsAreVested
<1>1. [Escrow!EscrowNext]_EscrowVars <=> [Escrow!EscrowNext]_(Escrow!escrowVars)
  BY DEF EscrowVars, Issued, SettledClaims, Escrow!escrowVars
<1>2. Init => Escrow!EscrowInit
  BY InitIInv
<1> QED
  BY <1>1, <1>2, NextStep, Invariance, PTL DEF Spec, ClaimsAreVested, Escrow!EscrowSpec

-----------------------------------------------------------------------------
(* The backing of the stakes.  By itself it is not inductive: what was     *)
(* booked as a reward and not yet swapped must be worth no more than what  *)
(* the position has to spare, at the index of the day.                     *)

Spare == position.aToken + harvests - totalSB

Backed == Spare \in Nat /\ aTokenReward * RAY <= Spare * IncomeIndex[now]

\* What a deposit adds to the value of a balance, roundings included, is worth no more
\* than one unit of scaled balance above what it added to the scaled balance.
LEMMA ValueAdded ==
  ASSUME NEW a \in Nat, NEW x \in Nat, NEW i \in Nat, RAY \in Nat \ {0}, i >= RAY
  PROVE  (RayMul(a + x, i) - RayMul(a, i)) * RAY <= (x + 1) * i
<1> DEFINE h == RAY \div 2
           p == RayMul(a + x, i)
           q == RayMul(a, i)
           y == a * i
           z == x * i
<1>1. h \in Nat /\ y \in Nat /\ z \in Nat /\ (a + x) * i = y + z /\ (x + 1) * i = z + i
  OBVIOUS
<1>2. p = (y + z + h) \div RAY /\ q = (y + h) \div RAY
  BY <1>1 DEF RayMul
<1> HIDE DEF h, p, q, y, z
<1>3. /\ p \in Nat /\ RAY * p <= y + z + h
      /\ q \in Nat /\ y + h < RAY * q + RAY
  BY <1>1, <1>2, Quotient
<1>4. (p - q) * RAY = RAY * p - RAY * q /\ RAY * p \in Nat /\ RAY * q \in Nat
  BY <1>3
<1>5. (p - q) * RAY <= z + i
  BY <1>1, <1>3, <1>4
<1> QED
  BY <1>1, <1>5 DEF p, q

\* An amount that is worth no more than a scaled balance burns no more than it.
LEMMA BurnIsSpared ==
  ASSUME NEW b \in Nat, NEW e \in Nat, NEW i \in Nat \ {0}, RAY \in Nat, b * RAY <= e * i
  PROVE  RayDiv(b, i) \in 0 .. e
<1> DEFINE v == b * RAY + i \div 2
           q == v \div i
<1>1. i \div 2 \in Nat /\ i \div 2 < i /\ b * RAY \in Nat /\ e * i \in Nat
  OBVIOUS
<1>2. v \in Nat /\ v < e * i + i
  BY <1>1
<1>3. q \in Nat /\ i * q <= v
  <2> HIDE DEF v
  <2> QED
    BY <1>2, Quotient
<1>4. RayDiv(b, i) = q
  BY DEF RayDiv
<1> HIDE DEF q, v
<1>5. q * i < (e + 1) * i
  <2>1. (e + 1) * i = e * i + i /\ q * i = i * q /\ i * q \in Nat
    BY <1>3
  <2> QED
    BY <1>1, <1>2, <1>3, <2>1
<1>6. q < e + 1
  BY <1>3, <1>5, SmallerFactor
<1> QED
  BY <1>3, <1>4, <1>6

LEMMA WithdrawnTakes ==
  ASSUME NEW p \in Positions, NEW amount
  PROVE  Withdrawn(p, amount).aToken = p.aToken - RayDiv(amount, IncomeIndex[now])
<1> DEFINE burnt == RayDiv(amount, IncomeIndex[now])
<1>1. Withdrawn(p, amount) = [p EXCEPT !.aToken = @ - burnt]
  BY DEF Withdrawn
<1> HIDE DEF burnt
<1>2. Withdrawn(p, amount).aToken = p.aToken - burnt
  BY <1>1 DEF Positions
<1> QED
  BY <1>2 DEF burnt

LEMMA CompoundBacked ==
  ASSUME IInv, Backed, NEW amount \in Harvests, Compound(amount)
  PROVE  Backed'
<1> DEFINE i == IncomeIndex[now]
           a == position.aToken
           x == RayDiv(amount, i)
           before == ATokens(a)
           value == ATokens(a + x)
           booked == aTokenReward + value - before
           spare == Spare + (x + 1)
<1>1. /\ amount \in Nat /\ now \in Times /\ position \in Positions /\ a \in Nat
      /\ aTokenReward \in Nat /\ harvests \in Nat /\ totalSB \in Nat /\ Spare \in Nat
      /\ aTokenReward * RAY <= Spare * i
  BY LeveragerAssumption DEF IInv, Types, Positions, Backed
<1>2. i \in Nat \ {0} /\ i >= RAY /\ RAY \in Nat \ {0}
  BY <1>1, Indices
<1>3. x \in Nat
  BY <1>1, <1>2, RayIsNat
<1>4. /\ Deposited(position, amount).aToken = a + x
      /\ Deposited(position, amount) \in Positions
  <2>1. Deposited(position, amount) = [position EXCEPT !.aToken = @ + x]
    BY DEF Deposited
  <2> HIDE DEF x
  <2> QED
    BY <1>1, <1>3, <2>1 DEF Positions
<1>5. before \in Nat /\ value \in Nat /\ before <= value /\ (value - before) * RAY <= (x + 1) * i
  <2>1. before = RayMul(a, i) /\ value = RayMul(a + x, i)
    BY DEF ATokens
  <2> HIDE DEF a, x, i
  <2>2. before \in Nat /\ value \in Nat /\ before <= value
    BY <1>1, <1>3, ValueIsNat, ValueGrows
  <2>3. (value - before) * RAY <= (x + 1) * i
    <3> HIDE DEF before, value
    <3> QED
      BY <1>1, <1>2, <1>3, <2>1, ValueAdded
  <2> QED
    BY <2>2, <2>3
<1>6. /\ harvests' = harvests + 1 /\ totalSB' = totalSB /\ now' = now
      /\ \/ position' = Deposited(position, amount) /\ aTokenReward' = booked
         \/ /\ position' = Withdrawn(Deposited(position, amount), booked)
            /\ aTokenReward' = 0
  BY <1>4 DEF Compound, environment
<1> HIDE DEF x, before, value
<1>7. booked \in Nat /\ spare \in Nat /\ booked * RAY <= spare * i
  <2> HIDE DEF i
  <2>1. booked = aTokenReward + (value - before) /\ value - before \in Nat
    BY <1>1, <1>5
  <2>2. booked * RAY = aTokenReward * RAY + (value - before) * RAY
    BY <1>2, <1>1, <2>1
  <2>3. spare * i = Spare * i + (x + 1) * i
    BY <1>1, <1>2, <1>3
  <2>4. /\ aTokenReward * RAY \in Nat /\ (value - before) * RAY \in Nat
        /\ Spare * i \in Nat /\ (x + 1) * i \in Nat
    BY <1>1, <1>2, <1>3, <2>1
  <2>5. booked \in Nat /\ spare \in Nat
    BY <1>1, <1>3, <2>1
  <2> HIDE DEF booked, spare
  <2> QED
    BY <1>1, <1>5, <2>2, <2>3, <2>4, <2>5
<1> HIDE DEF booked
<1>8. CASE position' = Deposited(position, amount) /\ aTokenReward' = booked
  <2>1. Spare' = spare
    BY <1>1, <1>3, <1>4, <1>6, <1>8 DEF Spare
  <2> QED
    BY <1>6, <1>7, <1>8, <2>1 DEF Backed
<1>9. CASE position' = Withdrawn(Deposited(position, amount), booked) /\ aTokenReward' = 0
  <2> DEFINE burnt == RayDiv(booked, i)
  <2>1. burnt \in 0 .. spare
    <3> HIDE DEF i, spare
    <3> QED
      BY <1>2, <1>7, BurnIsSpared
  <2>2. position'.aToken = a + x - burnt
    <3>1. Withdrawn(Deposited(position, amount), booked).aToken
            = Deposited(position, amount).aToken - burnt
      BY <1>4, WithdrawnTakes
    <3>2. a \in Nat /\ x \in Nat /\ burnt \in Int
      BY <1>1, <1>3, <1>7, <2>1
    <3> HIDE DEF burnt, a
    <3> QED
      BY <1>4, <1>9, <3>1, <3>2
  <2> HIDE DEF burnt
  <2>3. Spare' = spare - burnt
    BY <1>1, <1>3, <1>6, <2>1, <2>2 DEF Spare
  <2>4. Spare' \in Nat
    BY <1>7, <2>1, <2>3
  <2>5. IncomeIndex[now]' = i
    BY <1>6
  <2> DEFINE left == spare - burnt
  <2>6. left \in Nat /\ Spare' = left
    BY <2>3, <2>4
  <2> HIDE DEF left, i
  <2>7. 0 * RAY <= left * i
    BY <1>2, <2>6
  <2> QED
    BY <1>9, <2>5, <2>6, <2>7 DEF Backed
<1> QED
  BY <1>6, <1>8, <1>9

LEMMA BackedStep ==
  ASSUME IInv, IInv', Backed, [Next]_vars
  PROVE  Backed'
<1>1. /\ position \in Positions /\ position' \in Positions /\ harvests \in Nat /\ moves \in Nat
      /\ totalSB \in Nat /\ totalSB' \in Nat /\ now \in Times /\ now' \in Times
      /\ position.aToken \in Nat /\ position'.aToken \in Nat
  BY DEF IInv, Types, Positions
<1>2. ASSUME totalSB' = totalSB + (position'.aToken - position.aToken),
             now' = now, UNCHANGED <<aTokenReward, harvests>>
      PROVE  Backed'
  <2>1. Spare' = Spare
    BY <1>1, <1>2 DEF Spare
  <2> QED
    BY <1>2, <2>1 DEF Backed
<1>3. ASSUME NEW u \in Users, NEW amount \in Amounts, Stake(u, amount)
      PROVE  Backed'
  BY <1>2, <1>3 DEF Stake, Change, environment
<1>4. ASSUME NEW u \in Users, NEW amount \in Amounts \cup {0}, Unstake(u, amount)
      PROVE  Backed'
  BY <1>2, <1>4 DEF Unstake, Change, environment
<1>5. ASSUME UNCHANGED <<totalSB, position, aTokenReward, harvests>>, now' >= now
      PROVE  Backed'
  <2>1. Spare' = Spare /\ Spare \in Nat
    BY <1>5 DEF Spare, Backed
  <2>2. /\ IncomeIndex[now] \in Nat /\ IncomeIndex[now'] \in Nat
        /\ IncomeIndex[now] <= IncomeIndex[now']
    BY <1>1, <1>5, LeveragerAssumption
  <2> DEFINE i == IncomeIndex[now]
             j == IncomeIndex[now']
             r == aTokenReward * RAY
  <2>3. aTokenReward \in Nat /\ RAY \in Nat /\ r \in Nat /\ r <= Spare * i
    BY LeveragerAssumption DEF IInv, Types, Backed
  <2>4. Spare * i <= Spare * j /\ Spare * i \in Nat /\ Spare * j \in Nat
    <3> HIDE DEF i, j
    <3> QED
      BY <2>1, <2>2 DEF i, j
  <2>5. r <= Spare * j
    <3> HIDE DEF i, j, r
    <3> QED
      BY <2>3, <2>4
  <2>6. aTokenReward' = aTokenReward
    BY <1>5
  <2> QED
    BY <2>1, <2>5, <2>6 DEF Backed
<1>6. now \in Nat
  BY <1>1 DEF Times
<1>7. ASSUME NEW u \in Users, Claim(u) PROVE Backed'
  BY <1>5, <1>6, <1>7 DEF Claim, environment
<1>8. ASSUME NEW i \in 1 .. Len(claimInfo), ClaimVested(i) PROVE Backed'
  BY <1>5, <1>6, <1>8 DEF ClaimVested, environment
<1>9. ASSUME NEW earned \in 0 .. funds, Tick(earned) PROVE Backed'
  BY <1>5, <1>6, <1>9 DEF Tick
<1>10. ASSUME ChefClaim PROVE Backed'
  BY <1>5, <1>6, <1>10 DEF ChefClaim, environment
<1>11. ASSUME DistributorChanges PROVE Backed'
  BY <1>5, <1>6, <1>11 DEF DistributorChanges
<1>12. ASSUME UNCHANGED vars PROVE Backed'
  BY <1>5, <1>6, <1>12 DEF vars, environment
<1> QED
  BY <1>3, <1>4, <1>7, <1>8, <1>9, <1>10, <1>11, <1>12, CompoundBacked DEF Next

\* The aTokens behind the stakes are in the position whatever the vault swapped out of
\* the same balance, but for one unit of scaled balance for every harvest, for all
\* indices that start at one ray and never fall.
THEOREM StakesAreBacked == Spec => []PositionsAreBacked
<1>1. Init => Backed
  <2> SUFFICES ASSUME Init PROVE Backed
    OBVIOUS
  <2>1. Spare = 0 /\ aTokenReward = 0
    BY DEF Init, Spare
  <2>2. RAY \in Nat /\ IncomeIndex[now] \in Nat
    BY LeveragerAssumption DEF Init, Times
  <2> QED
    BY <2>1, <2>2 DEF Backed
<1>2. IInv /\ IInv' /\ Backed /\ [Next]_vars => Backed'
  BY BackedStep
<1>3. IInv /\ Backed => PositionsAreBacked
  BY DEF IInv, Types, Positions, Backed, Spare, PositionsAreBacked
<1> QED
  BY <1>1, <1>2, <1>3, Invariance, PTL DEF Spec

-----------------------------------------------------------------------------
(* The dates.  Claims are paid from what started to vest by the instant    *)
(* they were made: this is kept for every instant that is over, and what   *)
(* was collected so far started to vest by now.                            *)

\* What vests by the time a claim made at t expires, and what those claims are worth.
VestingBy(v, t) ==
  SumTo([k \in 1 .. MaxTime + 1 |-> IF k - 1 <= t THEN v[k - 1] ELSE 0], MaxTime + 1)

DueBy(claims, t) ==
  SumTo([i \in 1 .. Len(claims) |->
           IF claims[i].expireAt <= t + VestDuration
           THEN claims[i].amount + claims[i].feeAmount ELSE 0], Len(claims))

Dated ==
  \A i \in 1 .. Len(claimInfo) :
    /\ VestDuration <= claimInfo[i].expireAt /\ claimInfo[i].expireAt <= now + VestDuration
    /\ claimInfo[i].isClaimed => claimInfo[i].expireAt < now

InTime ==
  /\ Dated
  /\ collected <= VestingBy(vesting, now)
  /\ \A t \in 0 .. (now - 1) : DueBy(claimInfo, t) <= VestingBy(vesting, t) + moves

\* Later, no less has started to vest.
LEMMA VestingGrows ==
  ASSUME NEW v \in [Times -> Nat], NEW s \in Nat, NEW t \in Nat, s <= t
  PROVE  /\ VestingBy(v, s) \in Nat /\ VestingBy(v, t) \in Nat
         /\ VestingBy(v, s) <= VestingBy(v, t)
<1> DEFINE n == MaxTime + 1
           f == [k \in 1 .. n |-> IF k - 1 <= s THEN v[k - 1] ELSE 0]
           g == [k \in 1 .. n |-> IF k - 1 <= t THEN v[k - 1] ELSE 0]
<1>1. MaxTime \in Nat /\ n \in Nat
  BY LeveragerAssumption
<1>2. ASSUME NEW k \in 1 .. n PROVE f[k] \in Nat /\ g[k] \in Nat /\ f[k] <= g[k]
  <2>1. k - 1 \in Times /\ v[k - 1] \in Nat /\ (k - 1 <= s => k - 1 <= t)
    BY <1>1 DEF Times
  <2> QED
    BY <2>1
<1>3. VestingBy(v, s) = SumTo(f, n) /\ VestingBy(v, t) = SumTo(g, n)
  BY DEF VestingBy
<1> HIDE DEF f, g, n
<1> QED
  BY <1>1, <1>2, <1>3, SumsAreOrdered

\* What starts to vest now counts now and not before.
LEMMA VestingRaised ==
  ASSUME NEW v \in [Times -> Nat], NEW at \in Times, NEW more \in Nat, NEW t \in 0 .. at,
         NEW w \in [Times -> Nat], w[at] = v[at] + more,
         \A k \in Times : k # at => w[k] = v[k]
  PROVE  VestingBy(w, t) = VestingBy(v, t) + (IF t = at THEN more ELSE 0)
<1> DEFINE n == MaxTime + 1
           f == [k \in 1 .. n |-> IF k - 1 <= t THEN v[k - 1] ELSE 0]
           g == [k \in 1 .. n |-> IF k - 1 <= t THEN w[k - 1] ELSE 0]
           i == at + 1
           d == IF t = at THEN more ELSE 0
<1>1. MaxTime \in Nat /\ n \in Nat /\ at \in Nat /\ t \in Nat /\ i \in 1 .. n /\ i - 1 = at
  BY LeveragerAssumption DEF Times
<1>2. w \in [Times -> Nat] /\ w[at] = v[at] + more /\ \A k \in Times : k # at => w[k] = v[k]
  OBVIOUS
<1>3. ASSUME NEW k \in 1 .. n PROVE f[k] \in Nat /\ g[k] \in Nat /\ (k # i => f[k] = g[k])
  <2>1. k - 1 \in Times /\ v[k - 1] \in Nat /\ w[k - 1] \in Nat
        /\ (k # i => w[k - 1] = v[k - 1])
    BY <1>1, <1>2 DEF Times
  <2> QED
    BY <2>1
<1>4. g[i] = f[i] + d
  <2>1. v[at] \in Nat
    OBVIOUS
  <2>2. f[i] = (IF at <= t THEN v[at] ELSE 0) /\ g[i] = (IF at <= t THEN w[at] ELSE 0)
    BY <1>1
  <2> QED
    BY <1>1, <1>2, <2>1, <2>2
<1>5. VestingBy(v, t) = SumTo(f, n) /\ VestingBy(w, t) = SumTo(g, n)
  BY DEF VestingBy
<1>6. n \in 0 .. n
  BY <1>1
<1> HIDE DEF f, g, n, i
<1>7. SumTo(g, n) = SumTo(f, n) - f[i] + g[i]
  BY <1>1, <1>3, SumToChanges
<1>8. SumTo(f, n) \in Nat /\ f[i] \in Nat
  BY <1>1, <1>3, <1>6, SumToNat
<1> HIDE DEF d
<1>9. d \in Nat
  BY DEF d
<1>10. VestingBy(w, t) = VestingBy(v, t) + d
  BY <1>4, <1>5, <1>7, <1>8, <1>9
<1> QED
  BY <1>10 DEF d

\* A claim that expires later is not due.
LEMMA DueAppended ==
  ASSUME NEW cs \in Seq(Claims), NEW c \in Claims, NEW t \in Nat, c.expireAt > t + VestDuration
  PROVE  DueBy(Append(cs, c), t) = DueBy(cs, t)
<1> DEFINE n == Len(cs)
           ds == Append(cs, c)
           f == [i \in 1 .. n |-> IF cs[i].expireAt <= t + VestDuration
                                  THEN cs[i].amount + cs[i].feeAmount ELSE 0]
           g == [i \in 1 .. n + 1 |-> IF ds[i].expireAt <= t + VestDuration
                                      THEN ds[i].amount + ds[i].feeAmount ELSE 0]
<1>1. /\ n \in Nat /\ Len(ds) = n + 1 /\ ds[n + 1] = c
      /\ \A i \in 1 .. n : ds[i] = cs[i] /\ cs[i] \in Claims
  OBVIOUS
<1>2. DueBy(cs, t) = SumTo(f, n) /\ DueBy(ds, t) = SumTo(g, n + 1)
  BY <1>1 DEF DueBy
<1> HIDE DEF ds, n
<1>3. VestDuration \in Nat /\ c.expireAt \in Nat
  BY LeveragerAssumption DEF Claims
<1>4. g[n + 1] = 0
  BY <1>1, <1>3
<1>5. \A i \in 1 .. n : f[i] \in Nat /\ f[i] = g[i]
  <2>1. SUFFICES ASSUME NEW i \in 1 .. n PROVE f[i] \in Nat /\ f[i] = g[i]
    OBVIOUS
  <2>2. i \in 1 .. n + 1 /\ ds[i] = cs[i] /\ cs[i] \in Claims
    BY <1>1
  <2>3. cs[i].amount + cs[i].feeAmount \in Nat
    BY <2>2 DEF Claims
  <2> QED
    BY <2>2, <2>3
<1> HIDE DEF f, g
<1>6. SumTo(f, n) = SumTo(g, n)
  BY <1>1, <1>5, SumToAgrees
<1>7. SumTo(g, n + 1) = SumTo(g, n) + g[n + 1] /\ SumTo(f, n) \in Nat
  <2>1. n \in 0 .. n
    BY <1>1
  <2> QED
    BY <1>1, <1>5, <2>1, SumToUnfolds, SumToNat
<1>8. DueBy(ds, t) = DueBy(cs, t)
  BY <1>2, <1>4, <1>6, <1>7
<1> QED
  BY <1>8 DEF ds

\* What is due by an instant is part of all claims.
LEMMA DueIsClaimed ==
  ASSUME Types, NEW t \in Nat
  PROVE  DueBy(claimInfo, t) \in Nat /\ ClaimSum \in Nat /\ DueBy(claimInfo, t) <= ClaimSum
<1> DEFINE n == Len(claimInfo)
           f == [i \in 1 .. n |-> IF claimInfo[i].expireAt <= t + VestDuration
                                  THEN claimInfo[i].amount + claimInfo[i].feeAmount ELSE 0]
           g == ClaimTotals
<1>1. n \in Nat
  BY ClaimsAreTyped
<1>2. ASSUME NEW i \in 1 .. n PROVE f[i] \in Nat /\ g[i] \in Nat /\ f[i] <= g[i]
  <2>1. g[i] = claimInfo[i].amount + claimInfo[i].feeAmount /\ g[i] \in Nat
    BY ClaimsAreTyped
  <2> QED
    BY <2>1
<1>3. DueBy(claimInfo, t) = SumTo(f, n) /\ ClaimSum = SumTo(g, n)
  BY DEF DueBy, ClaimSum
<1> HIDE DEF f, g, n
<1> QED
  BY <1>1, <1>2, <1>3, SumsAreOrdered

\* At one instant: what is collected starts to vest, and no claim made before falls
\* due or changes what it is worth.
LEMMA InTimeAtAnInstant ==
  ASSUME IInv, IInv', InTime, now' = now, NEW more \in Nat,
         vesting' = [vesting EXCEPT ![now] = @ + more],
         collected' <= collected + more, moves' >= moves, Dated',
         \A t \in 0 .. (now - 1) : DueBy(claimInfo', t) = DueBy(claimInfo, t)
  PROVE  InTime'
<1>1. /\ now \in Times /\ now \in Nat /\ vesting \in [Times -> Nat] /\ moves \in Nat
      /\ moves' \in Nat /\ collected \in Nat /\ collected' \in Nat /\ Types
  BY DEF IInv, Types, Times
<1> DEFINE w == vesting'
<1>2. w \in [Times -> Nat] /\ w[now] = vesting[now] + more
      /\ \A k \in Times : k # now => w[k] = vesting[k]
  <2>1. vesting[now] + more \in Nat
    BY <1>1
  <2> QED
    BY <1>1, <2>1
<1> HIDE DEF w
<1>3. ASSUME NEW t \in 0 .. now
      PROVE  /\ VestingBy(w, t) = VestingBy(vesting, t) + (IF t = now THEN more ELSE 0)
             /\ VestingBy(vesting, t) \in Nat
  <2>1. VestingBy(w, t) = VestingBy(vesting, t) + (IF t = now THEN more ELSE 0)
    BY <1>1, <1>2, VestingRaised
  <2>2. t \in Nat
    BY <1>1
  <2> QED
    BY <1>1, <2>1, <2>2, VestingGrows
<1>4. collected' <= VestingBy(w, now)
  <2>1. /\ VestingBy(w, now) = VestingBy(vesting, now) + more
        /\ VestingBy(vesting, now) \in Nat
    BY <1>1, <1>3
  <2>2. collected <= VestingBy(vesting, now)
    BY DEF InTime
  <2> QED
    BY <1>1, <2>1, <2>2
<1>5. ASSUME NEW t \in 0 .. (now - 1)
      PROVE  DueBy(claimInfo', t) <= VestingBy(w, t) + moves'
  <2>1. t \in Nat /\ t \in 0 .. now /\ t # now
    BY <1>1
  <2>2. VestingBy(w, t) = VestingBy(vesting, t) /\ VestingBy(vesting, t) \in Nat
    BY <1>3, <2>1
  <2>3. DueBy(claimInfo, t) <= VestingBy(vesting, t) + moves
    BY <1>5 DEF InTime
  <2>4. DueBy(claimInfo, t) \in Nat /\ DueBy(claimInfo', t) = DueBy(claimInfo, t)
    BY <1>1, <2>1, DueIsClaimed
  <2> QED
    BY <1>1, <2>2, <2>3, <2>4
<1> QED
  BY <1>4, <1>5 DEF InTime, w

\* So too when nothing happens to the claims.
LEMMA SameClaimsInTime ==
  ASSUME IInv, IInv', InTime, now' = now, claimInfo' = claimInfo, NEW more \in Nat,
         vesting' = [vesting EXCEPT ![now] = @ + more],
         collected' <= collected + more, moves' >= moves
  PROVE  InTime'
<1>1. Dated'
  BY DEF InTime, Dated
<1>2. \A t \in 0 .. (now - 1) : DueBy(claimInfo', t) = DueBy(claimInfo, t)
  OBVIOUS
<1> QED
  BY <1>1, <1>2, InTimeAtAnInstant

LEMMA CollectVests ==
  ASSUME IInv, Collect
  PROVE  /\ Collectable \in Nat
         /\ vesting' = [vesting EXCEPT ![now] = @ + Collectable]
         /\ collected' <= collected + Collectable
<1>1. Collectable \in 0 .. chefPending /\ chefPending \in Nat /\ collected \in Nat
  BY StateIsTyped, AccumulatorGrows
<1> HIDE DEF Collectable
<1> QED
  BY <1>1 DEF Collect

\* A claim falls due when what starts to vest now will have vested.
LEMMA ClaimInTime ==
  ASSUME IInv, IInv', InTime, NEW u \in Users, Claim(u)
  PROVE  InTime'
<1> DEFINE pending == WithDebt(Updated(stakeInfo[u])).pending
<1>1. /\ now' = now /\ moves' = moves /\ Collect
      /\ \/ /\ pending > 0
            /\ claimInfo' = Append(claimInfo, NewClaim(u, pending, now + VestDuration))
         \/ claimInfo' = claimInfo
  BY DEF Claim, environment
<1>2. now \in Nat /\ now \in Times /\ moves \in Nat /\ VestDuration \in Nat \ {0} /\ Types
      /\ claimInfo \in Seq(Claims)
  <2>1. Types
    BY DEF IInv
  <2>2. now \in Times /\ moves \in Nat /\ claimInfo \in Seq(Claims)
    BY <2>1 DEF Types
  <2> QED
    BY <2>1, <2>2, LeveragerAssumption DEF Times
<1>3. pending \in Nat
  <2>1. /\ stakeInfo[u] \in Stakes /\ IsSettled(stakeInfo[u])
        /\ accTokenPerShare \in Nat /\ totalSB \in Nat /\ chefPending \in Nat
    BY StateIsTyped
  <2>2. PICK new \in Stakes : new = WithDebt(Updated(stakeInfo[u]))
    BY <2>1, ClaimedIsSettled
  <2> QED
    BY <2>2 DEF Stakes
<1> HIDE DEF pending
<1>4. CASE claimInfo' = claimInfo
  BY <1>1, <1>2, <1>4, CollectVests, SameClaimsInTime
<1>5. CASE /\ pending > 0
           /\ claimInfo' = Append(claimInfo, NewClaim(u, pending, now + VestDuration))
  <2>1. pending \in Nat \ {0}
    BY <1>3, <1>5
  <2>2. PICK c \in Claims : /\ c = NewClaim(u, pending, now + VestDuration) /\ ~c.isClaimed
    BY <1>2, <2>1, NewClaimIsWhole
  <2>3. c.expireAt = now + VestDuration
    BY <2>2 DEF NewClaim
  <2>4. claimInfo' = Append(claimInfo, c)
    BY <1>5, <2>2
  <2>5. Dated'
    <3>1. SUFFICES ASSUME NEW i \in 1 .. Len(claimInfo')
                   PROVE  /\ VestDuration <= claimInfo'[i].expireAt
                          /\ claimInfo'[i].expireAt <= now + VestDuration
                          /\ claimInfo'[i].isClaimed => claimInfo'[i].expireAt < now
      BY <1>1 DEF Dated
    <3>2. \/ i \in 1 .. Len(claimInfo) /\ claimInfo'[i] = claimInfo[i]
          \/ claimInfo'[i] = c
      BY <1>2, <2>4
    <3>3. CASE i \in 1 .. Len(claimInfo) /\ claimInfo'[i] = claimInfo[i]
      BY <3>3 DEF InTime, Dated
    <3>4. CASE claimInfo'[i] = c
      BY <1>2, <2>2, <2>3, <3>4
    <3> QED
      BY <3>2, <3>3, <3>4
  <2>6. \A t \in 0 .. (now - 1) : DueBy(claimInfo', t) = DueBy(claimInfo, t)
    <3>1. SUFFICES ASSUME NEW t \in 0 .. (now - 1)
                   PROVE  DueBy(claimInfo', t) = DueBy(claimInfo, t)
      OBVIOUS
    <3>2. t \in Nat /\ c.expireAt > t + VestDuration
      BY <1>2, <2>3
    <3> QED
      BY <1>2, <2>4, <3>2, DueAppended
  <2> QED
    BY <1>1, <1>2, <2>5, <2>6, CollectVests, InTimeAtAnInstant
<1> QED
  BY <1>1, <1>4, <1>5

\* Paying a claim marks it.
LEMMA ClaimVestedInTime ==
  ASSUME IInv, IInv', InTime, NEW j \in 1 .. Len(claimInfo), ClaimVested(j)
  PROVE  InTime'
<1>1. /\ now' = now /\ moves' = moves /\ vesting' = vesting /\ collected' = collected
      /\ claimInfo' = [claimInfo EXCEPT ![j].isClaimed = TRUE]
      /\ claimInfo[j].expireAt < now
  BY DEF ClaimVested, environment, rewardVars
<1>2. /\ now \in Nat /\ now \in Times /\ vesting \in [Times -> Nat] /\ collected \in Nat
      /\ moves \in Nat /\ Len(claimInfo) \in Nat /\ claimInfo \in Seq(Claims)
      /\ \A i \in 1 .. Len(claimInfo) : claimInfo[i] \in Claims
  <2>1. Types
    BY DEF IInv
  <2>2. /\ now \in Times /\ vesting \in [Times -> Nat] /\ collected \in Nat
        /\ moves \in Nat /\ claimInfo \in Seq(Claims)
    BY <2>1 DEF Types
  <2> QED
    BY <2>1, <2>2, ClaimsAreTyped DEF Times
<1> DEFINE done == [claimInfo[j] EXCEPT !.isClaimed = TRUE]
<1>3. /\ done.expireAt = claimInfo[j].expireAt /\ done.amount = claimInfo[j].amount
      /\ done.feeAmount = claimInfo[j].feeAmount
  BY <1>2 DEF Claims
<1>4. claimInfo' = [claimInfo EXCEPT ![j] = done]
  BY <1>1
<1> HIDE DEF done
<1>5. /\ Len(claimInfo') = Len(claimInfo) /\ claimInfo'[j] = done
      /\ \A i \in 1 .. Len(claimInfo) : i # j => claimInfo'[i] = claimInfo[i]
  BY <1>2, <1>4
<1>6. \A i \in 1 .. Len(claimInfo) : /\ claimInfo'[i].expireAt = claimInfo[i].expireAt
                                     /\ claimInfo'[i].amount = claimInfo[i].amount
                                     /\ claimInfo'[i].feeAmount = claimInfo[i].feeAmount
  BY <1>3, <1>5
<1>7. Dated'
  <2>1. SUFFICES ASSUME NEW i \in 1 .. Len(claimInfo)
                 PROVE  /\ VestDuration <= claimInfo'[i].expireAt
                        /\ claimInfo'[i].expireAt <= now + VestDuration
                        /\ claimInfo'[i].isClaimed => claimInfo'[i].expireAt < now
    BY <1>1, <1>5 DEF Dated
  <2>2. CASE i = j
    BY <1>1, <1>6, <2>2 DEF InTime, Dated
  <2>3. CASE i # j
    BY <1>5, <2>3 DEF InTime, Dated
  <2> QED
    BY <2>2, <2>3
<1>8. \A t \in 0 .. (now - 1) : DueBy(claimInfo', t) = DueBy(claimInfo, t)
  BY <1>5, <1>6 DEF DueBy
<1>9. vesting' = [vesting EXCEPT ![now] = @ + 0]
  BY <1>1, <1>2
<1>10. collected' <= collected + 0 /\ moves' >= moves /\ 0 \in Nat
  BY <1>1, <1>2
<1> QED
  BY <1>1, <1>7, <1>8, <1>9, <1>10, InTimeAtAnInstant, Zenon

LEMMA OwedIsNat ==
  ASSUME IInv
  PROVE  SumOf([u \in Users |-> stakeInfo[u].pending + Unsettled(stakeInfo[u])]) \in Nat
<1> DEFINE Owed == [u \in Users |-> stakeInfo[u].pending + Unsettled(stakeInfo[u])]
<1>1. ASSUME NEW u \in Users PROVE Owed[u] \in Nat
  <2>1. /\ stakeInfo[u] \in Stakes /\ IsSettled(stakeInfo[u]) /\ accTokenPerShare \in Nat
    BY StateIsTyped
  <2>2. stakeInfo[u].pending \in Nat /\ stakeInfo[u].debt \in Nat /\ stakeInfo[u].aTSB \in Nat
    BY <2>1 DEF Stakes
  <2>3. /\ Accrued(accTokenPerShare, stakeInfo[u].aTSB) \in Nat
        /\ stakeInfo[u].debt <= Accrued(accTokenPerShare, stakeInfo[u].aTSB)
    BY <2>1, <2>2, AccruedRoundsDown DEF IsSettled
  <2> QED
    BY <2>2, <2>3 DEF Unsettled
<1>2. Owed \in [Users -> Nat] /\ IsFiniteSet(Users)
  BY <1>1, LeveragerAssumption
<1> HIDE DEF Owed
<1>3. SumOf(Owed) \in Nat
  BY <1>2, SumOverAccounts DEF SumOf
<1> QED
  BY <1>3 DEF Owed

\* An instant is over: all that is claimed was collected, and that started to vest.
LEMMA TickInTime ==
  ASSUME IInv, IInv', InTime, NEW earned \in 0 .. funds, Tick(earned)
  PROVE  InTime'
<1>1. /\ now' = now + 1 /\ claimInfo' = claimInfo /\ vesting' = vesting
      /\ collected' = collected /\ moves' = moves
  BY DEF Tick, claimVars
<1>2. now \in Nat /\ vesting \in [Times -> Nat] /\ collected \in Nat /\ moves \in Nat /\ Types
  <2>1. Types
    BY DEF IInv
  <2> QED
    BY <2>1 DEF Types, Times
<1>3. Dated'
  <2>1. SUFFICES ASSUME NEW i \in 1 .. Len(claimInfo)
                 PROVE  /\ VestDuration <= claimInfo[i].expireAt
                        /\ claimInfo[i].expireAt <= (now + 1) + VestDuration
                        /\ claimInfo[i].isClaimed => claimInfo[i].expireAt < now + 1
    BY <1>1 DEF Dated
  <2>2. claimInfo[i] \in Claims
    BY <1>2, ClaimsAreTyped
  <2>3. claimInfo[i].expireAt \in Nat /\ VestDuration \in Nat
    BY <2>2, LeveragerAssumption DEF Claims
  <2> QED
    BY <1>2, <2>3 DEF InTime, Dated
<1>4. /\ VestingBy(vesting, now) \in Nat /\ VestingBy(vesting, now + 1) \in Nat
      /\ VestingBy(vesting, now) <= VestingBy(vesting, now + 1)
      /\ collected <= VestingBy(vesting, now)
  <2>1. now + 1 \in Nat /\ now <= now + 1
    BY <1>2
  <2> QED
    BY <1>2, <2>1, VestingGrows DEF InTime
<1>5. ASSUME NEW t \in 0 .. now
      PROVE  DueBy(claimInfo, t) <= VestingBy(vesting, t) + moves
  <2>1. CASE t = now
    <3>1. DueBy(claimInfo, t) \in Nat /\ ClaimSum \in Nat /\ DueBy(claimInfo, t) <= ClaimSum
      BY <1>2, <2>1, DueIsClaimed
    <3>2. ClaimSum <= collected + moves
      <4> DEFINE Owed == [u \in Users |-> stakeInfo[u].pending + Unsettled(stakeInfo[u])]
      <4>1. SumOf(Owed) + ClaimSum <= collected + moves
        BY SharedExactlySuffices DEF RewardsAreSharedOnce, ClaimSum
      <4>2. SumOf(Owed) \in Nat
        BY OwedIsNat
      <4> HIDE DEF Owed
      <4> QED
        BY <1>2, <3>1, <4>1, <4>2
    <3> QED
      BY <1>2, <1>4, <2>1, <3>1, <3>2
  <2>2. CASE t # now
    <3>1. t \in 0 .. (now - 1)
      BY <1>2, <2>2
    <3> QED
      BY <3>1 DEF InTime
  <2> QED
    BY <2>1, <2>2
<1>6. InTime' <=> /\ Dated'
                  /\ collected <= VestingBy(vesting, now + 1)
                  /\ \A t \in 0 .. ((now + 1) - 1) :
                       DueBy(claimInfo, t) <= VestingBy(vesting, t) + moves
  BY <1>1 DEF InTime
<1>7. (now + 1) - 1 = now
  BY <1>2
<1>8. collected <= VestingBy(vesting, now + 1)
  BY <1>2, <1>4
<1> QED
  BY <1>3, <1>5, <1>6, <1>7, <1>8

LEMMA InTimeStep ==
  ASSUME IInv, IInv', InTime, [Next]_vars
  PROVE  InTime'
<1>1. /\ now \in Times /\ vesting \in [Times -> Nat] /\ collected \in Nat /\ moves \in Nat
      /\ chefPending \in Nat
  BY DEF IInv, Types
<1>2. ASSUME now' = now, claimInfo' = claimInfo, Collect, moves' = moves + 1
      PROVE  InTime'
  <2>1. moves' >= moves
    BY <1>1, <1>2
  <2> QED
    BY <1>2, <2>1, CollectVests, SameClaimsInTime
<1>3. ASSUME now' = now, claimInfo' = claimInfo, vesting' = vesting, collected' = collected,
             moves' = moves
      PROVE  InTime'
  <2>1. vesting' = [vesting EXCEPT ![now] = @ + 0]
    BY <1>1, <1>3
  <2>2. collected' <= collected + 0 /\ moves' >= moves /\ 0 \in Nat
    BY <1>1, <1>3
  <2> QED
    BY <1>3, <2>1, <2>2, SameClaimsInTime, Zenon
<1>4. ASSUME NEW u \in Users, NEW amount \in Amounts, Stake(u, amount)
      PROVE  InTime'
  BY <1>2, <1>4 DEF Stake, environment, claimVars
<1>5. ASSUME NEW u \in Users, NEW amount \in Amounts \cup {0}, Unstake(u, amount)
      PROVE  InTime'
  BY <1>2, <1>5 DEF Unstake, environment, claimVars
<1>6. ASSUME NEW amount \in Harvests, Compound(amount) PROVE InTime'
  BY <1>3, <1>6 DEF Compound, environment, claimVars, rewardVars
<1>7. ASSUME ChefClaim PROVE InTime'
  <2>1. /\ now' = now /\ claimInfo' = claimInfo /\ collected' = collected /\ moves' = moves
        /\ vesting' = [vesting EXCEPT ![now] = @ + chefPending]
    BY <1>7 DEF ChefClaim, environment, claimVars
  <2>2. collected' <= collected + chefPending /\ moves' >= moves
    BY <1>1, <2>1
  <2> QED
    BY <1>1, <2>1, <2>2, SameClaimsInTime, Zenon
<1>8. ASSUME DistributorChanges PROVE InTime'
  BY <1>3, <1>8 DEF DistributorChanges, claimVars, rewardVars
<1>9. ASSUME UNCHANGED vars PROVE InTime'
  BY <1>3, <1>9 DEF vars, environment, claimVars, rewardVars
<1> QED
  BY <1>4, <1>5, <1>6, <1>7, <1>8, <1>9, ClaimInTime, ClaimVestedInTime, TickInTime DEF Next

LEMMA InTimeSuffices == IInv /\ InTime => PaidFromVested
<1> SUFFICES ASSUME IInv, InTime PROVE PaidFromVested
  OBVIOUS
<1> DEFINE n == Len(claimInfo)
           f == [i \in 1 .. n |-> IF Expired(i) THEN ClaimTotals[i] ELSE 0]
           m == MaxTime + 1
           v == [k \in 1 .. m |-> IF k - 1 + VestDuration <= now THEN vesting[k - 1] ELSE 0]
<1>1. /\ now \in Nat /\ VestDuration \in Nat \ {0} /\ MaxTime \in Nat /\ moves \in Nat
      /\ vesting \in [Times -> Nat] /\ n \in Nat /\ Types
  <2>1. Types
    BY DEF IInv
  <2>2. now \in Times /\ moves \in Nat /\ vesting \in [Times -> Nat]
    BY <2>1 DEF Types
  <2> QED
    BY <2>1, <2>2, LeveragerAssumption, ClaimsAreTyped DEF Times
<1>2. ASSUME NEW i \in 1 .. n
      PROVE  /\ claimInfo[i].expireAt \in Nat /\ claimInfo[i].expireAt >= VestDuration
             /\ ClaimTotals[i] = claimInfo[i].amount + claimInfo[i].feeAmount
             /\ ClaimTotals[i] \in Nat
             /\ Expired(i) => claimInfo[i].expireAt < now
  <2>1. claimInfo[i] \in Claims
    BY <1>1, ClaimsAreTyped
  <2>2. claimInfo[i].expireAt \in Nat
    BY <2>1 DEF Claims
  <2> QED
    BY <1>1, <2>2, ClaimsAreTyped DEF Expired, InTime, Dated
<1>3. PaidFromVested <=> SumTo(f, n) <= SumTo(v, m) + moves
  BY DEF PaidFromVested, Vested
<1>4. SumTo(v, m) \in Nat
  <2>1. \A k \in 1 .. m : v[k] \in Nat
    <3>1. SUFFICES ASSUME NEW k \in 1 .. m PROVE v[k] \in Nat
      OBVIOUS
    <3>2. k - 1 \in Times
      BY <1>1 DEF Times
    <3>3. vesting[k - 1] \in Nat
      BY <1>1, <3>2
    <3> QED
      BY <3>3
  <2>2. m \in Nat /\ m \in 0 .. m
    BY <1>1
  <2> HIDE DEF v, m
  <2> QED
    BY <2>1, <2>2, SumToNat
<1>5. CASE now < VestDuration
  <2>1. \A i \in 1 .. n : f[i] = 0
    BY <1>1, <1>2, <1>5
  <2> HIDE DEF f, n, v, m
  <2>2. SumTo(f, n) = 0
    BY <1>1, <2>1, SumOfNothing
  <2> QED
    BY <1>1, <1>3, <1>4, <2>2
<1>6. CASE VestDuration <= now
  <2> DEFINE t == now - VestDuration
             g == [i \in 1 .. n |-> IF claimInfo[i].expireAt <= t + VestDuration
                                    THEN claimInfo[i].amount + claimInfo[i].feeAmount ELSE 0]
  <2>1. t \in 0 .. (now - 1) /\ t + VestDuration = now
    BY <1>1, <1>6
  <2>2. ASSUME NEW i \in 1 .. n PROVE f[i] \in Nat /\ g[i] \in Nat /\ f[i] <= g[i]
    <3>1. f[i] = IF Expired(i) THEN ClaimTotals[i] ELSE 0
      OBVIOUS
    <3>2. g[i] = IF claimInfo[i].expireAt <= now THEN ClaimTotals[i] ELSE 0
      BY <1>2, <2>1
    <3> HIDE DEF f, g
    <3> QED
      BY <1>1, <1>2, <3>1, <3>2
  <2>3. SumTo(v, m) = VestingBy(vesting, t)
    <3>1. v = [k \in 1 .. m |-> IF k - 1 <= t THEN vesting[k - 1] ELSE 0]
      BY <1>1
    <3> HIDE DEF v, t
    <3> QED
      BY <3>1 DEF VestingBy
  <2>4. SumTo(g, n) = DueBy(claimInfo, t)
    BY DEF DueBy
  <2> HIDE DEF t
  <2>5. DueBy(claimInfo, t) <= VestingBy(vesting, t) + moves
    BY <2>1 DEF InTime
  <2> HIDE DEF f, g, n, v, m
  <2>6. SumTo(f, n) \in Nat /\ SumTo(g, n) \in Nat /\ SumTo(f, n) <= SumTo(g, n)
    BY <1>1, <2>2, SumsAreOrdered
  <2> QED
    BY <1>1, <1>3, <1>4, <2>3, <2>4, <2>5, <2>6
<1> QED
  BY <1>1, <1>5, <1>6

\* What stakers' claims are paid from has vested when they expire, however the stakers'
\* transactions came in between, but for one unit of rounding for every change of a
\* stake: MFD never pays one of them early, at its penalty.
THEOREM ClaimsAreInTime == Spec => []PaidFromVested
<1>1. Init => InTime
  <2> SUFFICES ASSUME Init PROVE InTime
    OBVIOUS
  <2>1. now = 0 /\ collected = 0 /\ claimInfo = <<>> /\ vesting \in [Times -> Nat]
    BY DEF Init
  <2>2. 0 \in Nat /\ 0 <= 0
    OBVIOUS
  <2>3. VestingBy(vesting, 0) \in Nat
    BY <2>1, <2>2, VestingGrows
  <2>4. Len(claimInfo) = 0 /\ 1 .. 0 = {} /\ 0 .. (0 - 1) = {}
    BY <2>1
  <2> QED
    BY <2>1, <2>3, <2>4 DEF InTime, Dated
<1>2. IInv /\ IInv' /\ InTime /\ [Next]_vars => InTime'
  BY InTimeStep
<1> QED
  BY <1>1, <1>2, InTimeSuffices, Invariance, PTL DEF Spec
=============================================================================
