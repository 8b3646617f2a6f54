---------------------------- MODULE PresaleProofs ----------------------------
(***************************************************************************)
(* Theorems about the presale and the public claim for any buyers, prices, *)
(* caps and times.  The claims of one buyer are dealt with first, then     *)
(* each action.                                                            *)
(***************************************************************************)
EXTENDS PublicClaim, SumsProofs

-----------------------------------------------------------------------------
(* Arithmetic.                                                             *)

LEMMA ProductsAreOrdered ==
  ASSUME NEW x \in Nat, NEW y \in Nat, x <= y, NEW c \in Nat
  PROVE  c * x \in Nat /\ c * y \in Nat /\ c * x <= c * y
OBVIOUS

LEMMA FactorsCancel ==
  ASSUME NEW x \in Nat, NEW y \in Nat, NEW c \in Nat \ {0}, x * c <= y * c
  PROVE  x <= y
<1>1. ASSUME x >= y + 1 PROVE FALSE
  <2>1. c * (y + 1) <= c * x
    BY <1>1
  <2> QED
    BY <2>1
<1> QED
  BY <1>1

LEMMA Quotients ==
  ASSUME NEW x \in Nat, NEW c \in Nat \ {0}
  PROVE  x \div c \in Nat /\ (x \div c) * c <= x
OBVIOUS

-----------------------------------------------------------------------------
(* The invariant.                                                          *)

\* How much of the time since the first release a buyer's claims cover.
Progress(user) == IF user.lastClaimed = 0 THEN 0 ELSE user.lastClaimed - firstRelease

PaidInTime(user) ==
  /\ user.claimed * vestDuration <= user.claimable * Progress(user)
  /\ releaseTime = firstRelease => user.claimed <= user.claimable
  /\ user.lastClaimed = 0 => user.claimed = 0

\* Before the first release there are no claims.
Unreleased == ~released => \A u \in Users : userInfo[u].lastClaimed = 0

IInv ==
  /\ TypeOK /\ SalesAddUp /\ Unreleased /\ OverpaidUntilFullOnly
  /\ \A u \in Users : PaidInTime(userInfo[u])

\* The invariant bounds what is paid by the time that has passed.
LEMMA InTimeMeansKept == IInv => VestingIsKept
<1> SUFFICES ASSUME IInv, NEW u \in Users
             PROVE  /\ userInfo[u].claimed * vestDuration <= userInfo[u].claimable * (now - firstRelease)
                    /\ releaseTime = firstRelease => userInfo[u].claimed <= userInfo[u].claimable
  BY DEF VestingIsKept
<1> DEFINE user == userInfo[u]
           past == now - firstRelease
<1>1. user \in UserInfo /\ PaidInTime(user) /\ past \in Nat /\ vestDuration \in Nat
  BY PresaleAssumption DEF IInv, TypeOK, PresaleTypeOK
<1>2. Progress(user) \in Nat /\ Progress(user) <= past
  BY <1>1 DEF IInv, TypeOK, PresaleTypeOK, Progress
<1>3. user.claimable \in Nat /\ user.claimed \in Nat
  BY <1>1 DEF UserInfo
<1> HIDE DEF user, past
<1>4. user.claimable * Progress(user) <= user.claimable * past
  BY <1>2, <1>3, <1>1, ProductsAreOrdered
<1>5. user.claimed * vestDuration \in Nat /\ user.claimable * Progress(user) \in Nat
      /\ user.claimable * past \in Nat
  BY <1>1, <1>2, <1>3
<1>6. user.claimed * vestDuration <= user.claimable * Progress(user)
  BY <1>1 DEF PaidInTime
<1>7. user.claimed * vestDuration <= user.claimable * past
  BY <1>4, <1>5, <1>6
<1> QED
  BY <1>1, <1>7 DEF PaidInTime, user, past

-----------------------------------------------------------------------------
(* The claims of one buyer.                                                *)

LEMMA ClaimsStayInTime ==
  ASSUME IInv, NEW u \in Users, released, userInfo[u].claimed < userInfo[u].claimable
  PROVE  LET user == userInfo[u]
         IN /\ Claiming(user) \in Nat
            /\ Claimed(user) \in UserInfo
            /\ Claimed(user).claimable = user.claimable
            /\ Claimed(user).contributed = user.contributed
            /\ Claimed(user).lastClaimed = now
            /\ PaidInTime(Claimed(user))
<1> DEFINE user == userInfo[u]
           from == VestsFrom(user)
           timePass == now - from
           past == now - firstRelease
           part == (user.claimable * timePass) \div vestDuration
           paid == user.claimed + Claiming(user)
<1>1. /\ user \in UserInfo /\ PaidInTime(user) /\ now \in Nat \ {0}
      /\ firstRelease \in Nat /\ releaseTime \in Nat
      /\ firstRelease <= releaseTime /\ releaseTime <= now
      /\ user.lastClaimed # 0 => user.lastClaimed \in firstRelease .. now
  BY PresaleAssumption DEF IInv, TypeOK, PresaleTypeOK
<1>2. user.claimable \in Nat /\ user.claimed \in Nat /\ user.lastClaimed \in Nat
      /\ user.contributed \in Nat /\ user.claimed < user.claimable
  BY <1>1 DEF UserInfo
<1>3. vestDuration \in Nat \ {0}
  BY PresaleAssumption
<1>4. from \in Nat /\ firstRelease <= from /\ from <= now
  BY <1>1, <1>2 DEF VestsFrom
<1>5. Progress(user) \in Nat /\ Progress(user) + timePass <= past /\ timePass \in Nat /\ past \in Nat
  <2>1. timePass \in Nat /\ past \in Nat
    BY <1>1, <1>4
  <2>2. CASE user.lastClaimed = 0
    <3>1. Progress(user) = 0 /\ from = releaseTime
      BY <2>2 DEF Progress, VestsFrom
    <3> HIDE DEF from
    <3> QED
      BY <3>1, <2>1, <1>1, <1>4
  <2>3. CASE user.lastClaimed # 0
    <3>1. Progress(user) = user.lastClaimed - firstRelease /\ from = user.lastClaimed
      BY <2>3 DEF Progress, VestsFrom
    <3> HIDE DEF from
    <3> QED
      BY <3>1, <2>1, <2>3, <1>1, <1>2, <1>4
  <2> QED
    BY <2>2, <2>3
<1>6. part \in Nat /\ part * vestDuration <= user.claimable * timePass
  <2> HIDE DEF timePass
  <2>1. user.claimable * timePass \in Nat
    BY <1>2, <1>5
  <2> QED
    BY <2>1, <1>3, Quotients
<1>7. Claiming(user) = IF timePass >= vestDuration \/ now - releaseTime >= vestDuration
                       THEN user.claimable - user.claimed ELSE part
  BY DEF Claiming
<1>8. Claiming(user) \in Nat
  BY <1>2, <1>6, <1>7
<1>9. /\ Claimed(user) \in UserInfo /\ Claimed(user).claimable = user.claimable
      /\ Claimed(user).contributed = user.contributed
      /\ Claimed(user).lastClaimed = now /\ Claimed(user).claimed = paid
  <2>1. paid \in Nat /\ Claimed(user) = [user EXCEPT !.lastClaimed = now, !.claimed = paid]
    BY <1>2, <1>8 DEF Claimed
  <2> HIDE DEF user, paid
  <2> QED
    BY <2>1, <1>1 DEF UserInfo
<1>10. paid * vestDuration <= user.claimable * past
  <2>1. CASE timePass >= vestDuration \/ now - releaseTime >= vestDuration
    <3>1. paid = user.claimable
      BY <2>1, <1>2, <1>7
    <3>2. vestDuration <= past
      BY <2>1, <1>1, <1>3, <1>4
    <3> HIDE DEF past, paid
    <3> QED
      BY <3>1, <3>2, <1>2, <1>3, <1>5, ProductsAreOrdered
  <2>2. CASE ~(timePass >= vestDuration \/ now - releaseTime >= vestDuration)
    <3>1. paid = user.claimed + part
      BY <2>2, <1>7
    <3>2. user.claimed * vestDuration <= user.claimable * Progress(user)
      BY <1>1 DEF PaidInTime
    <3> HIDE DEF past, paid, part, timePass
    <3>3. user.claimable * (Progress(user) + timePass) <= user.claimable * past
      BY <1>2, <1>5, ProductsAreOrdered
    <3>4. user.claimable * (Progress(user) + timePass) =
            user.claimable * Progress(user) + user.claimable * timePass
      BY <1>2, <1>5
    <3>5. paid * vestDuration = user.claimed * vestDuration + part * vestDuration
      BY <3>1, <1>2, <1>3, <1>6
    <3> QED
      <4> DEFINE a == user.claimed * vestDuration
                 b == part * vestDuration
                 c == user.claimable * Progress(user)
                 d == user.claimable * timePass
                 e == user.claimable * past
      <4>1. a \in Nat /\ b \in Nat /\ c \in Nat /\ d \in Nat /\ e \in Nat
        BY <1>2, <1>3, <1>5, <1>6
      <4>2. a <= c /\ b <= d /\ c + d <= e /\ paid * vestDuration = a + b
        BY <1>6, <3>2, <3>3, <3>4, <3>5
      <4> HIDE DEF a, b, c, d, e
      <4>3. paid * vestDuration <= e
        BY <4>1, <4>2
      <4> QED
        BY <4>3 DEF e
  <2> QED
    BY <2>1, <2>2
<1>11. releaseTime = firstRelease => paid <= user.claimable
  <2>1. CASE timePass >= vestDuration \/ now - releaseTime >= vestDuration
    BY <2>1, <1>2, <1>7
  <2>2. ASSUME ~(timePass >= vestDuration \/ now - releaseTime >= vestDuration),
               releaseTime = firstRelease
        PROVE  paid <= user.claimable
    <3>1. past <= vestDuration
      BY <2>2, <1>1, <1>3
    <3>2. paid \in Nat
      BY <1>2, <1>8
    <3> HIDE DEF past, paid
    <3>3. user.claimable * past <= user.claimable * vestDuration
      BY <3>1, <1>2, <1>3, <1>5, ProductsAreOrdered
    <3>4. paid * vestDuration \in Nat /\ user.claimable * past \in Nat
          /\ user.claimable * vestDuration \in Nat
      BY <3>2, <1>2, <1>3, <1>5
    <3>5. paid * vestDuration <= user.claimable * vestDuration
      BY <3>3, <3>4, <1>10
    <3> QED
      BY <3>2, <3>5, <1>2, <1>3, FactorsCancel
  <2> QED
    BY <2>1, <2>2
<1>12. Progress(Claimed(user)) = past
  BY <1>1, <1>9 DEF Progress
<1>13. PaidInTime(Claimed(user))
  <2> HIDE DEF past, paid
  <2> QED
    BY <1>1, <1>9, <1>10, <1>11, <1>12 DEF PaidInTime
<1> QED
  BY <1>8, <1>9, <1>13

\* What is bought for a buyer leaves his claims in time.
LEMMA PurchasesStayInTime ==
  ASSUME IInv, NEW u \in Users, NEW amount \in Nat
  PROVE  LET user == userInfo[u]
         IN /\ TokenAmount(amount) \in Nat
            /\ Bought(user, amount) \in UserInfo
            /\ Bought(user, amount).contributed = user.contributed + amount
            /\ Bought(user, amount).claimable = user.claimable + TokenAmount(amount)
            /\ Bought(user, amount).lastClaimed = user.lastClaimed
            /\ Bought(user, amount).claimed = user.claimed
            /\ PaidInTime(Bought(user, amount))
<1> DEFINE user == userInfo[u]
           tokens == TokenAmount(amount)
           bought == Bought(user, amount)
<1>1. /\ user \in UserInfo /\ PaidInTime(user) /\ Progress(user) \in Nat
      /\ rate \in Nat \ {0}
  BY DEF IInv, TypeOK, PresaleTypeOK, Progress, UserInfo
<1>2. user.claimable \in Nat /\ user.claimed \in Nat /\ vestDuration \in Nat
  BY <1>1, PresaleAssumption DEF UserInfo
<1>3. tokens \in Nat
  <2>1. amount * Scale \in Nat
    BY PresaleAssumption
  <2> QED
    BY <2>1, <1>1, Quotients DEF TokenAmount
<1> DEFINE given == user.contributed + amount
           due == user.claimable + tokens
<1>4. bought = [user EXCEPT !.contributed = given, !.claimable = due]
  BY DEF Bought
<1>5. given \in Nat /\ due \in Nat
  BY <1>1, <1>2, <1>3 DEF UserInfo
<1> HIDE DEF user, tokens, bought
<1>6. /\ bought \in UserInfo /\ bought.contributed = given /\ bought.claimable = due
      /\ bought.lastClaimed = user.lastClaimed /\ bought.claimed = user.claimed
  <2> HIDE DEF given, due
  <2> QED
    BY <1>1, <1>4, <1>5 DEF UserInfo
<1>7. PaidInTime(bought)
  <2> DEFINE p == Progress(user)
             a == user.claimed * vestDuration
             b == user.claimable * p
             c == (user.claimable + tokens) * p
  <2>1. Progress(bought) = p
    BY <1>6 DEF Progress
  <2>2. a \in Nat /\ b \in Nat /\ c \in Nat /\ b <= c
    <3>1. user.claimable <= user.claimable + tokens /\ user.claimable + tokens \in Nat
      BY <1>2, <1>3
    <3> HIDE DEF p
    <3>2. p \in Nat
      BY <1>1 DEF p
    <3>3. p * user.claimable <= p * (user.claimable + tokens)
      BY <3>1, <3>2, <1>2, ProductsAreOrdered
    <3> QED
      BY <3>1, <3>2, <3>3, <1>2
  <2>3. a <= b
    BY <1>1 DEF PaidInTime
  <2> HIDE DEF a, b, c
  <2>4. a <= c
    BY <2>2, <2>3
  <2>5. bought.claimed * vestDuration <= bought.claimable * Progress(bought)
    BY <1>6, <2>1, <2>4 DEF a, c
  <2>6. releaseTime = firstRelease => bought.claimed <= bought.claimable
    BY <1>1, <1>2, <1>3, <1>6 DEF PaidInTime
  <2>7. bought.lastClaimed = 0 => bought.claimed = 0
    BY <1>1, <1>6 DEF PaidInTime
  <2> QED
    BY <2>5, <2>6, <2>7 DEF PaidInTime
<1> QED
  BY <1>3, <1>6, <1>7 DEF user, tokens, bought

-----------------------------------------------------------------------------
(* Steps.                                                                  *)

LEMMA InitHolds == Init => IInv
<1> SUFFICES ASSUME Init PROVE IInv
  OBVIOUS
<1> USE DEF Init, PresaleInit
<1>1. TypeOK
  <2>1. userInfo \in [Users -> UserInfo]
    BY DEF UserInfo
  <2>2. \A u \in Users : userInfo[u].contributed = 0 /\ userInfo[u].lastClaimed = 0
    OBVIOUS
  <2>3. /\ now \in 1 .. MaxTime /\ rate \in Nat \ {0} /\ cap \in Nat /\ userCap \in Nat
        /\ calls \in 0 .. MaxCalls /\ releaseTime \in 0 .. now /\ firstRelease \in 0 .. releaseTime
        /\ claimReleaseTime \in 0 .. now
    BY PresaleAssumption
  <2>4. /\ supply \in Nat /\ radHeld \in Nat /\ usdc \in [Users -> Nat] /\ claimHeld \in Nat
        /\ publicClaimed \in [Users -> Nat] /\ sold \in Nat /\ usdcRaised \in Nat
    BY PresaleAssumption
  <2>5. released \in BOOLEAN /\ claimReleased \in BOOLEAN /\ userCap = 0
    OBVIOUS
  <2>6. \A u \in Users : userInfo[u].contributed <= userCap
    BY <2>2, <2>5
  <2> HIDE DEF Init, PresaleInit
  <2>7. PresaleTypeOK
    BY <2>1, <2>2, <2>3, <2>4, <2>5, <2>6 DEF PresaleTypeOK
  <2> QED
    BY <2>3, <2>4, <2>5, <2>7 DEF TypeOK
<1>2. SalesAddUp
  <2>1. ASSUME NEW f \in [Users -> Nat], \A u \in Users : f[u] = 0 PROVE SumOfUsers(f) = 0
    BY <2>1, PresaleAssumption, SumOverAccounts DEF SumOfUsers
  <2>2. /\ SumOfUsers([u \in Users |-> userInfo[u].claimable]) = 0
        /\ SumOfUsers([u \in Users |-> userInfo[u].contributed]) = 0
    <3> DEFINE f == [u \in Users |-> userInfo[u].claimable]
               g == [u \in Users |-> userInfo[u].contributed]
    <3>1. f \in [Users -> Nat] /\ g \in [Users -> Nat] /\ \A u \in Users : f[u] = 0 /\ g[u] = 0
      OBVIOUS
    <3> HIDE DEF f, g
    <3>2. SumOfUsers(f) = 0 /\ SumOfUsers(g) = 0
      BY <2>1, <3>1
    <3> QED
      BY <3>2 DEF f, g
  <2> QED
    BY <2>2, PresaleAssumption DEF SalesAddUp
<1>3. Unreleased /\ \A u \in Users : userInfo[u].claimed = 0 /\ userInfo[u].claimable = 0
                                     /\ userInfo[u].lastClaimed = 0 /\ publicClaimed[u] = 0
  BY DEF Unreleased
<1>4. ASSUME NEW u \in Users PROVE PaidInTime(userInfo[u])
  BY <1>3, PresaleAssumption DEF PaidInTime, Progress
<1>5. OverpaidUntilFullOnly
  BY <1>3, PublicClaimAssumption DEF OverpaidUntilFullOnly
<1> QED
  BY <1>1, <1>2, <1>3, <1>4, <1>5 DEF IInv

\* What no step but a purchase, a claim or a release touches.
LEMMA BooksAreKept ==
  ASSUME IInv, UNCHANGED <<userInfo, sold, usdcRaised, released, releaseTime, firstRelease>>
  PROVE  /\ Unreleased'
         /\ \A u \in Users : PaidInTime(userInfo[u])'
         /\ cap' >= sold => SalesAddUp'
         /\ UNCHANGED publicClaimed => OverpaidUntilFullOnly'
<1>1. Unreleased'
  BY DEF IInv, Unreleased
<1>2. ASSUME NEW u \in Users PROVE PaidInTime(userInfo[u])'
  BY DEF IInv, PaidInTime, Progress
<1>3. cap' >= sold => SalesAddUp'
  BY DEF IInv, SalesAddUp, TypeOK, PresaleTypeOK
<1>4. UNCHANGED publicClaimed => OverpaidUntilFullOnly'
  BY DEF IInv, OverpaidUntilFullOnly
<1> QED
  BY <1>1, <1>2, <1>3, <1>4

LEMMA PresaleTypes ==
  ASSUME IInv
  PROVE  /\ now \in 1 .. MaxTime /\ MaxTime \in Nat /\ MaxCalls \in Nat /\ calls \in 0 .. MaxCalls
         /\ rate \in Nat \ {0} /\ cap \in Nat /\ userCap \in Nat /\ sold \in Nat
         /\ usdcRaised \in Nat /\ userInfo \in [Users -> UserInfo] /\ released \in BOOLEAN
         /\ releaseTime \in 0 .. now /\ firstRelease \in 0 .. releaseTime
         /\ radHeld \in Nat /\ supply \in Nat /\ usdc \in [Users -> Nat]
         /\ sold <= cap
         /\ \A u \in Users :
              /\ userInfo[u].contributed <= userCap
              /\ userInfo[u].lastClaimed # 0 => userInfo[u].lastClaimed \in firstRelease .. now
              /\ userInfo[u].claimable \in Nat /\ userInfo[u].contributed \in Nat
              /\ userInfo[u].lastClaimed \in Nat /\ userInfo[u].claimed \in Nat
              /\ userInfo[u] \in UserInfo
         /\ claimReleased \in BOOLEAN /\ claimReleaseTime \in 0 .. now
         /\ publicClaimed \in [Users -> Nat] /\ claimHeld \in Nat
<1>1. \A u \in Users : userInfo[u] \in UserInfo
  BY DEF IInv, TypeOK, PresaleTypeOK
<1>2. \A u \in Users : /\ userInfo[u].claimable \in Nat /\ userInfo[u].contributed \in Nat
                       /\ userInfo[u].lastClaimed \in Nat /\ userInfo[u].claimed \in Nat
  BY <1>1 DEF UserInfo
<1>3. sold <= cap
  BY DEF IInv, SalesAddUp
<1> QED
  BY <1>1, <1>2, <1>3, PresaleAssumption DEF IInv, TypeOK, PresaleTypeOK

\* An account's record is replaced and every other one stays.
LEMMA TypesAreKept ==
  ASSUME IInv, NEW b \in Users, NEW r \in UserInfo,
         userInfo' = [userInfo EXCEPT ![b] = r],
         r.contributed <= userCap, r.lastClaimed # 0 => r.lastClaimed \in firstRelease .. now,
         UNCHANGED <<now, rate, cap, userCap, released, releaseTime, firstRelease, supply, public>>,
         sold' \in Nat, usdcRaised' \in Nat, radHeld' \in Nat, usdc' \in [Users -> Nat],
         calls' \in 0 .. MaxCalls
  PROVE  TypeOK'
<1>1. userInfo' \in [Users -> UserInfo]
  BY PresaleTypes
<1>2. ASSUME NEW u \in Users
      PROVE  /\ userInfo'[u].contributed <= userCap
             /\ userInfo'[u].lastClaimed # 0 => userInfo'[u].lastClaimed \in firstRelease .. now
  <2>1. userInfo'[u] = IF u = b THEN r ELSE userInfo[u]
    BY PresaleTypes
  <2> QED
    BY <2>1, PresaleTypes
<1>3. PresaleTypeOK'
  BY <1>1, <1>2, PresaleTypes DEF PresaleTypeOK
<1> QED
  BY <1>3, PresaleTypes DEF TypeOK, public

\* The invariant is kept by whatever touches no purchase, claim or release.
LEMMA OthersKeep ==
  ASSUME IInv, UNCHANGED <<userInfo, sold, usdcRaised, usdc, released, releaseTime, firstRelease>>,
         now' \in now .. MaxTime, rate' \in Nat \ {0}, cap' \in Nat, cap' >= sold,
         userCap' \in Nat, userCap' >= userCap, radHeld' \in Nat, supply' \in Nat,
         calls' \in 0 .. MaxCalls, claimReleased' \in BOOLEAN, claimReleaseTime' \in 0 .. now',
         UNCHANGED publicClaimed, claimHeld' \in Nat
  PROVE  IInv'
<1>1. ASSUME NEW u \in Users
      PROVE  /\ userInfo[u].contributed <= userCap'
             /\ userInfo[u].lastClaimed # 0 => userInfo[u].lastClaimed \in firstRelease .. now'
  BY PresaleTypes
<1>2. now' \in 1 .. MaxTime /\ releaseTime' \in 0 .. now'
  BY PresaleTypes
<1>3. PresaleTypeOK'
  BY <1>1, <1>2, PresaleTypes DEF PresaleTypeOK
<1>4. TypeOK'
  BY <1>3, PresaleTypes DEF TypeOK
<1> QED
  BY <1>4, BooksAreKept DEF IInv

LEMMA SumsChange ==
  ASSUME NEW f \in [Users -> Nat], NEW b \in Users, NEW x \in Nat
  PROVE  /\ SumOfUsers(f) \in Nat
         /\ SumOfUsers([f EXCEPT ![b] = x]) = SumOfUsers(f) - f[b] + x
<1> DEFINE list == EnumerationOf(Users)
<1>1. IsFiniteSet(Users)
  BY PresaleAssumption
<1>2. /\ SumOver(f, list) \in Nat
      /\ \A a \in Users, y \in Nat :
           SumOver([f EXCEPT ![a] = y], list) = SumOver(f, list) - f[a] + y
  BY <1>1, SumOverAccounts
<1> QED
  BY <1>2 DEF SumOfUsers

LEMMA CallsAreCounted ==
  ASSUME IInv, Call PROVE calls' \in 0 .. MaxCalls
BY PresaleTypes DEF Call

LEMMA BuyKeeps ==
  ASSUME IInv, NEW payer \in Users, NEW b \in Users, NEW amount \in Amounts,
         BuyTokens(payer, b, amount), UNCHANGED public
  PROVE  IInv'
<1> DEFINE tokens == TokenAmount(amount)
           user == userInfo[b]
           bought == Bought(user, amount)
<1>1. amount \in Nat
  BY PresaleAssumption
<1>2. /\ tokens \in Nat /\ bought \in UserInfo
      /\ bought.contributed = user.contributed + amount
      /\ bought.claimable = user.claimable + tokens
      /\ bought.lastClaimed = user.lastClaimed /\ bought.claimed = user.claimed
      /\ PaidInTime(bought)
  BY <1>1, PurchasesStayInTime
<1>3. /\ userInfo' = [userInfo EXCEPT ![b] = bought]
      /\ user.contributed + amount <= userCap /\ sold + tokens <= cap
      /\ amount <= usdc[payer] /\ usdc' = [usdc EXCEPT ![payer] = @ - amount]
      /\ sold' = sold + tokens /\ usdcRaised' = usdcRaised + amount
      /\ UNCHANGED <<now, rate, cap, userCap, released, releaseTime, firstRelease, supply,
                     public, publicClaimed, radHeld>>
  BY DEF BuyTokens, terms, vesting, public
<1>4. calls' \in 0 .. MaxCalls
  BY CallsAreCounted DEF BuyTokens
<1> HIDE DEF tokens, bought
<1>5. \A u \in Users : userInfo'[u] = IF u = b THEN bought ELSE userInfo[u]
  BY <1>3, PresaleTypes
<1>6. TypeOK'
  <2>1. usdc' \in [Users -> Nat]
    <3>1. usdc[payer] - amount \in Nat
      BY <1>1, <1>3, PresaleTypes
    <3> QED
      BY <3>1, <1>3, PresaleTypes
  <2>2. bought.contributed <= userCap
        /\ (bought.lastClaimed # 0 => bought.lastClaimed \in firstRelease .. now)
    BY <1>2, <1>3, PresaleTypes
  <2>3. sold' \in Nat /\ usdcRaised' \in Nat /\ radHeld' \in Nat
    BY <1>1, <1>2, <1>3, PresaleTypes
  <2> QED
    BY <2>1, <2>2, <2>3, <1>2, <1>3, <1>4, TypesAreKept
<1>7. SalesAddUp'
  <2> DEFINE f == [u \in Users |-> userInfo[u].claimable]
             g == [u \in Users |-> userInfo[u].contributed]
             x == user.claimable + tokens
             y == user.contributed + amount
  <2>1. f \in [Users -> Nat] /\ g \in [Users -> Nat] /\ x \in Nat /\ y \in Nat
        /\ f[b] = user.claimable /\ g[b] = user.contributed
    BY <1>1, <1>2, PresaleTypes
  <2>2. [u \in Users |-> userInfo'[u].claimable] = [f EXCEPT ![b] = x]
    BY <1>2, <1>5
  <2>3. [u \in Users |-> userInfo'[u].contributed] = [g EXCEPT ![b] = y]
    BY <1>2, <1>5
  <2>4. sold = SumOfUsers(f) /\ usdcRaised = SumOfUsers(g)
    BY DEF IInv, SalesAddUp
  <2> HIDE DEF f, g
  <2>5. /\ SumOfUsers([f EXCEPT ![b] = x]) = SumOfUsers(f) - f[b] + x
        /\ SumOfUsers([g EXCEPT ![b] = y]) = SumOfUsers(g) - g[b] + y
        /\ SumOfUsers(f) \in Nat /\ SumOfUsers(g) \in Nat
    <3> HIDE DEF x, y
    <3> QED
      BY <2>1, SumsChange
  <2>6. /\ SumOfUsers([f EXCEPT ![b] = x]) = sold + tokens
        /\ SumOfUsers([g EXCEPT ![b] = y]) = usdcRaised + amount
    BY <2>1, <2>4, <2>5, <1>1, <1>2, PresaleTypes
  <2> HIDE DEF x, y
  <2> QED
    BY <2>2, <2>3, <2>6, <1>3 DEF SalesAddUp, SumOfUsers
<1>8. Unreleased'
  BY <1>2, <1>3, <1>5 DEF IInv, Unreleased
<1>9. ASSUME NEW u \in Users PROVE PaidInTime(userInfo[u])'
  <2>1. PaidInTime(userInfo'[u])
    BY <1>2, <1>5 DEF IInv
  <2> QED
    BY <2>1, <1>3 DEF PaidInTime, Progress
<1>10. OverpaidUntilFullOnly'
  <2> SUFFICES ASSUME NEW u \in Users
               PROVE  publicClaimed[u] * unlockTime <= userInfo'[u].claimable * fullTime
    BY <1>3 DEF OverpaidUntilFullOnly
  <2>1. userInfo[u].claimable <= userInfo'[u].claimable /\ userInfo'[u].claimable \in Nat
    BY <1>2, <1>5, PresaleTypes
  <2> DEFINE p == userInfo[u].claimable
             q == userInfo'[u].claimable
  <2>2. p \in Nat /\ q \in Nat /\ p <= q /\ publicClaimed[u] \in Nat
        /\ publicClaimed[u] * unlockTime <= p * fullTime
    BY <2>1, PresaleTypes DEF IInv, OverpaidUntilFullOnly
  <2> HIDE DEF p, q
  <2>3. fullTime * p <= fullTime * q /\ fullTime * p = p * fullTime /\ fullTime * q = q * fullTime
    BY <2>2, PublicClaimAssumption, ProductsAreOrdered
  <2>4. publicClaimed[u] * unlockTime \in Nat /\ p * fullTime \in Nat /\ q * fullTime \in Nat
    BY <2>2, PublicClaimAssumption
  <2>5. publicClaimed[u] * unlockTime <= q * fullTime
    BY <2>2, <2>3, <2>4
  <2> QED
    BY <2>5 DEF q
<1> QED
  BY <1>6, <1>7, <1>8, <1>9, <1>10 DEF IInv

LEMMA ClaimKeeps ==
  ASSUME IInv, NEW b \in Users, Claim(b), UNCHANGED public
  PROVE  IInv'
<1> DEFINE user == userInfo[b]
           paid == Claimed(user)
<1>1. /\ Claiming(user) \in Nat /\ paid \in UserInfo
      /\ paid.claimable = user.claimable /\ paid.contributed = user.contributed
      /\ paid.lastClaimed = now /\ PaidInTime(paid)
  BY ClaimsStayInTime DEF Claim
<1>2. /\ released /\ Claiming(user) <= radHeld
      /\ userInfo' = [userInfo EXCEPT ![b] = paid]
      /\ radHeld' = radHeld - Claiming(user)
      /\ UNCHANGED <<now, rate, cap, userCap, sold, usdcRaised, usdc, released, releaseTime,
                     firstRelease, supply, public, publicClaimed>>
  BY DEF Claim, terms, sale, vesting, public
<1>3. calls' \in 0 .. MaxCalls
  BY CallsAreCounted DEF Claim
<1> HIDE DEF paid
<1>4. \A u \in Users : userInfo'[u] = IF u = b THEN paid ELSE userInfo[u]
  BY <1>2, PresaleTypes
<1>5. TypeOK'
  <2>1. radHeld' \in Nat
    BY <1>1, <1>2, PresaleTypes
  <2>2. paid.contributed <= userCap
        /\ (paid.lastClaimed # 0 => paid.lastClaimed \in firstRelease .. now)
    BY <1>1, PresaleTypes
  <2> QED
    BY <2>1, <2>2, <1>1, <1>2, <1>3, PresaleTypes, TypesAreKept
<1>6. SalesAddUp'
  <2>1. /\ [u \in Users |-> userInfo'[u].claimable] = [u \in Users |-> userInfo[u].claimable]
        /\ [u \in Users |-> userInfo'[u].contributed] = [u \in Users |-> userInfo[u].contributed]
    BY <1>1, <1>4
  <2> QED
    BY <2>1, <1>2 DEF IInv, SalesAddUp, SumOfUsers
<1>7. Unreleased'
  BY <1>2 DEF Unreleased
<1>8. ASSUME NEW u \in Users PROVE PaidInTime(userInfo[u])'
  <2>1. PaidInTime(userInfo'[u])
    BY <1>1, <1>4 DEF IInv
  <2> QED
    BY <2>1, <1>2 DEF PaidInTime, Progress
<1>9. OverpaidUntilFullOnly'
  BY <1>1, <1>2, <1>4 DEF IInv, OverpaidUntilFullOnly
<1> QED
  BY <1>5, <1>6, <1>7, <1>8, <1>9 DEF IInv

LEMMA ReleaseKeeps ==
  ASSUME IInv, Release, UNCHANGED public
  PROVE  IInv'
<1>1. /\ released' = TRUE /\ releaseTime' = now
      /\ firstRelease' = IF released THEN firstRelease ELSE now
      /\ UNCHANGED <<now, rate, cap, userCap, sold, usdcRaised, usdc, userInfo, radHeld, supply,
                     public, publicClaimed, claimReleased, claimReleaseTime, claimHeld>>
  BY DEF Release, terms, sale, public
<1>2. calls' \in 0 .. MaxCalls
  BY CallsAreCounted DEF Release
<1>3. ASSUME NEW u \in Users
      PROVE  userInfo[u].lastClaimed # 0 => firstRelease' = firstRelease
  BY <1>1 DEF IInv, Unreleased
<1>4. PresaleTypeOK'
  <2>1. releaseTime' \in 0 .. now' /\ firstRelease' \in 0 .. releaseTime'
    BY <1>1, PresaleTypes
  <2>2. \A u \in Users : /\ userInfo'[u].contributed <= userCap'
                         /\ userInfo'[u].lastClaimed # 0 =>
                              userInfo'[u].lastClaimed \in firstRelease' .. now'
    BY <1>1, <1>3, PresaleTypes
  <2> QED
    BY <2>1, <2>2, <1>1, <1>2, PresaleTypes DEF PresaleTypeOK
<1>5. TypeOK'
  BY <1>1, <1>4, PresaleTypes DEF TypeOK
<1>6. SalesAddUp' /\ OverpaidUntilFullOnly' /\ Unreleased'
  BY <1>1 DEF IInv, SalesAddUp, OverpaidUntilFullOnly, Unreleased, SumOfUsers
<1>7. ASSUME NEW u \in Users PROVE PaidInTime(userInfo[u])'
  <2> DEFINE user == userInfo[u]
  <2>1. PaidInTime(user) /\ user.claimed \in Nat /\ user.claimable \in Nat
    BY PresaleTypes DEF IInv
  <2>2. CASE user.lastClaimed = 0
    <3>1. user.claimed = 0 /\ user.claimed * vestDuration = 0
      BY <2>1, <2>2, PresaleAssumption DEF PaidInTime
    <3> QED
      BY <3>1, <2>1, <2>2, <1>1, PresaleTypes DEF PaidInTime, Progress
  <2>3. CASE user.lastClaimed # 0
    <3>1. firstRelease' = firstRelease
      BY <1>3, <2>3
    <3>2. releaseTime' = firstRelease' => releaseTime = firstRelease
      BY <3>1, <1>1, PresaleTypes
    <3> QED
      BY <3>1, <3>2, <2>1, <2>3, <1>1 DEF PaidInTime, Progress
  <2> QED
    BY <2>2, <2>3
<1> QED
  BY <1>5, <1>6, <1>7 DEF IInv

LEMMA ClaimUnlockedKeeps ==
  ASSUME IInv, NEW b \in Users, ClaimUnlocked(b)
  PROVE  IInv'
<1> DEFINE bought == userInfo[b].claimable
           timePass == now - claimReleaseTime
           unlocked == Unlocked(b)
           claiming == unlocked - publicClaimed[b]
<1>1. /\ claiming > 0 /\ claiming <= claimHeld
      /\ publicClaimed' = [publicClaimed EXCEPT ![b] = @ + claiming]
      /\ claimHeld' = claimHeld - claiming
      /\ UNCHANGED <<presale, rate, cap, userCap, sold, usdcRaised, usdc, released, releaseTime,
                     firstRelease, userInfo, radHeld, now, supply, claimReleased, claimReleaseTime>>
  BY DEF ClaimUnlocked, presale, terms, sale, vesting
<1>2. calls' \in 0 .. MaxCalls
  BY CallsAreCounted DEF ClaimUnlocked
<1>3. bought \in Nat /\ timePass \in Nat /\ unlockTime \in Nat \ {0} /\ fullTime \in Nat
      /\ unlockTime <= fullTime /\ publicClaimed[b] \in Nat
  BY PresaleTypes, PublicClaimAssumption
<1>4. unlocked = IF timePass >= fullTime THEN bought ELSE (bought * timePass) \div unlockTime
  BY DEF Unlocked
<1> HIDE DEF bought, timePass, unlocked
<1>5. unlocked \in Nat /\ unlocked * unlockTime <= bought * fullTime
  <2>1. CASE timePass >= fullTime
    BY <2>1, <1>3, <1>4, ProductsAreOrdered
  <2>2. CASE timePass < fullTime
    <3> DEFINE x == bought * timePass
               y == bought * fullTime
               q == x \div unlockTime
    <3>1. x \in Nat /\ y \in Nat /\ x <= y
      BY <2>2, <1>3, ProductsAreOrdered
    <3> HIDE DEF x, y
    <3>2. q \in Nat /\ q * unlockTime <= x /\ q * unlockTime \in Nat
      BY <3>1, <1>3, Quotients
    <3> HIDE DEF q
    <3>3. q * unlockTime <= y
      BY <3>1, <3>2
    <3>4. unlocked = q
      BY <2>2, <1>3, <1>4 DEF q, x
    <3> QED
      BY <3>2, <3>3, <3>4 DEF y
  <2> QED
    BY <2>1, <2>2, <1>3
<1>6. publicClaimed' = [publicClaimed EXCEPT ![b] = unlocked] /\ claimHeld' \in Nat
  <2>1. publicClaimed[b] + claiming = unlocked /\ claiming \in Int
    BY <1>3, <1>5
  <2>2. publicClaimed' = [publicClaimed EXCEPT ![b] = publicClaimed[b] + claiming]
    BY <1>1
  <2> HIDE DEF claiming
  <2>3. claimHeld' \in Nat
    BY <2>1, <1>1, PresaleTypes
  <2> QED
    BY <2>1, <2>2, <2>3
<1>7. publicClaimed' \in [Users -> Nat]
      /\ \A u \in Users : publicClaimed'[u] = IF u = b THEN unlocked ELSE publicClaimed[u]
  BY <1>5, <1>6, PresaleTypes
<1>8. TypeOK'
  <2>1. PresaleTypeOK'
    BY <1>1, <1>2 DEF IInv, TypeOK, PresaleTypeOK
  <2> QED
    BY <2>1, <1>1, <1>6, <1>7, PresaleTypes DEF TypeOK
<1>9. Unreleased' /\ SalesAddUp' /\ \A u \in Users : PaidInTime(userInfo[u])'
  BY <1>1, PresaleTypes, BooksAreKept
<1>10. OverpaidUntilFullOnly'
  BY <1>1, <1>5, <1>7 DEF IInv, OverpaidUntilFullOnly, bought
<1> QED
  BY <1>8, <1>9, <1>10 DEF IInv

LEMMA StepsKeep == IInv /\ [Next]_vars => IInv'
<1> SUFFICES ASSUME IInv, [Next]_vars PROVE IInv'
  OBVIOUS
<1> USE DEF terms, sale, vesting, presale, presaleVars, public
<1>1. ASSUME NEW payer \in Users, NEW b \in Users, NEW amount \in Amounts,
             BuyTokens(payer, b, amount), UNCHANGED public
      PROVE  IInv'
  BY <1>1, BuyKeeps
<1>2. ASSUME NEW newRate \in Rates, SetRate(newRate), UNCHANGED public
      PROVE  IInv'
  <2>1. newRate \in Nat \ {0}
    BY <1>2, PresaleAssumption DEF SetRate
  <2> QED
    BY <1>2, <2>1, PresaleTypes, CallsAreCounted, OthersKeep DEF SetRate
<1>3. ASSUME NEW newCap \in Caps, SetCap(newCap) \/ SetUserCap(newCap), UNCHANGED public
      PROVE  IInv'
  <2>1. newCap \in Nat
    BY PresaleAssumption
  <2>2. CASE SetCap(newCap)
    BY <1>3, <2>1, <2>2, PresaleTypes, CallsAreCounted, OthersKeep DEF SetCap
  <2>3. CASE SetUserCap(newCap)
    BY <1>3, <2>1, <2>3, PresaleTypes, CallsAreCounted, OthersKeep DEF SetUserCap
  <2> QED
    BY <1>3, <2>2, <2>3
<1>4. ASSUME Release, UNCHANGED public
      PROVE  IInv'
  BY <1>4, ReleaseKeeps
<1>5. ASSUME NEW amount \in Deliveries, SendRAD(amount) \/ RecoverRAD(amount), UNCHANGED public
      PROVE  IInv'
  <2>1. amount \in Nat
    BY PresaleAssumption
  <2>2. CASE SendRAD(amount)
    <3>1. supply' \in Nat /\ radHeld' \in Nat
      BY <2>1, <2>2, PresaleTypes DEF SendRAD
    <3> QED
      BY <1>5, <3>1, <2>2, PresaleTypes, CallsAreCounted, OthersKeep DEF SendRAD
  <2>3. CASE RecoverRAD(amount)
    <3>1. radHeld' \in Nat
      BY <2>1, <2>3, PresaleTypes DEF RecoverRAD
    <3> QED
      BY <1>5, <3>1, <2>3, PresaleTypes, CallsAreCounted, OthersKeep DEF RecoverRAD
  <2> QED
    BY <1>5, <2>2, <2>3
<1>6. ASSUME NEW u \in Users, Claim(u), UNCHANGED public
      PROVE  IInv'
  BY <1>6, ClaimKeeps
<1>7. ASSUME Tick, UNCHANGED public
      PROVE  IInv'
  <2>1. now' \in now .. MaxTime /\ claimReleaseTime' \in 0 .. now'
    BY <1>7, PresaleTypes DEF Tick
  <2> QED
    BY <1>7, <2>1, PresaleTypes, OthersKeep DEF Tick
<1>8. ASSUME ReleaseClaims
      PROVE  IInv'
  BY <1>8, PresaleTypes, CallsAreCounted, OthersKeep DEF ReleaseClaims
<1>9. ASSUME NEW amount \in Deliveries, SendRADT(amount) \/ RecoverRADT(amount)
      PROVE  IInv'
  <2>1. amount \in Nat
    BY PresaleAssumption
  <2>2. CASE SendRADT(amount)
    <3>1. supply' \in Nat /\ claimHeld' \in Nat
      BY <2>1, <2>2, PresaleTypes DEF SendRADT
    <3> QED
      BY <3>1, <2>2, PresaleTypes, CallsAreCounted, OthersKeep DEF SendRADT
  <2>3. CASE RecoverRADT(amount)
    <3>1. claimHeld' \in Nat
      BY <2>1, <2>3, PresaleTypes DEF RecoverRADT
    <3> QED
      BY <3>1, <2>3, PresaleTypes, CallsAreCounted, OthersKeep DEF RecoverRADT
  <2> QED
    BY <1>9, <2>2, <2>3
<1>10. ASSUME NEW u \in Users, ClaimUnlocked(u)
       PROVE  IInv'
  BY <1>10, ClaimUnlockedKeeps
<1>11. CASE UNCHANGED vars
  BY <1>11, PresaleTypes, OthersKeep DEF vars
<1> QED
  BY <1>1, <1>2, <1>3, <1>4, <1>5, <1>6, <1>7, <1>8, <1>9, <1>10, <1>11
  DEF Next, PresaleNext

-----------------------------------------------------------------------------
(* The theorems.                                                           *)

LEMMA Invariance == Spec => []IInv
BY InitHolds, StepsKeep, PTL DEF Spec

\* The types of both contracts, and with them that no buyer has contributed
\* more than setUserCap ever allowed and that no claim is dated out of order.
THEOREM TypeCorrect == Spec => []TypeOK
<1>1. IInv => TypeOK
  BY DEF IInv
<1> QED
  BY <1>1, Invariance, PTL

\* sold and usdcRaised are the sums of what buyTokens booked for each
\* beneficiary, and sold stays within the cap the owner may move.
THEOREM SalesAreAddedUp == Spec => []SalesAddUp
<1>1. IInv => SalesAddUp
  BY DEF IInv
<1> QED
  BY <1>1, Invariance, PTL

\* claim never pays ahead of the time since the first release, nor more than
\* the purchase unless release() is called again.
THEOREM ClaimsAreInTime == Spec => []VestingIsKept
BY InTimeMeansKept, Invariance, PTL

\* The public claim pays at most fullTime / unlockTime of a purchase.
THEOREM PublicClaimsAreBounded == Spec => []OverpaidUntilFullOnly
<1>1. IInv => OverpaidUntilFullOnly
  BY DEF IInv
<1> QED
  BY <1>1, Invariance, PTL
=============================================================================
