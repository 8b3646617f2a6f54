---------------------------- MODULE EsRADTProofs ----------------------------
(***************************************************************************)
(* What EsRADT keeps whatever the accounts, amounts and vesting period:    *)
(* each step of the token, and each payment that somebody else makes in    *)
(* it, preserves EscrowInv.                                                *)
(***************************************************************************)
EXTENDS EsRADT, SumsProofs

\* What rounding down means.
LEMMA Quotient ==
  ASSUME NEW x \in Nat, NEW c \in Nat \ {0}
  PROVE  /\ x \div c \in Nat
         /\ c * (x \div c) <= x
         /\ x < c * (x \div c) + c
OBVIOUS

\* Dividing an inequality by a positive factor.
LEMMA SmallerFactor ==
  ASSUME NEW x \in Int, NEW y \in Int, NEW c \in Nat \ {0}, c * x <= c * y
  PROVE  x <= y
OBVIOUS

-----------------------------------------------------------------------------
(* Balances.                                                               *)

LEMMA AccountsAreFinite ==
  /\ IsFiniteSet(Users) /\ Cardinality(Users) \in Nat
  /\ IsFiniteSet(Accounts) /\ Cardinality(Accounts) = Cardinality(Users) + 2
  /\ Owner \in Accounts /\ Chef \in Accounts /\ Users \subseteq Accounts
<1>1. IsFiniteSet(Users) /\ Owner \notin Users /\ Chef \notin Users \cup {Owner}
  BY EsRADTAssumption
<1>2. Cardinality(Users) \in Nat
  BY <1>1, FS_CardinalityType
<1>3. IsFiniteSet(Users \cup {Owner}) /\ Cardinality(Users \cup {Owner}) = Cardinality(Users) + 1
  BY <1>1, FS_AddElement
<1> DEFINE S == Users \cup {Owner}
<1>4. IsFiniteSet(S \cup {Chef}) /\ Cardinality(S \cup {Chef}) = Cardinality(S) + 1
  <2> HIDE DEF S
  <2>1. Chef \notin S /\ IsFiniteSet(S)
    BY <1>1, <1>3 DEF S
  <2> QED
    BY <2>1, FS_AddElement
<1>5. Accounts = S \cup {Chef}
  BY DEF Accounts
<1> HIDE DEF S
<1>6. Cardinality(Accounts) = Cardinality(Users) + 2
  BY <1>2, <1>3, <1>4, <1>5 DEF S
<1> QED
  BY <1>1, <1>2, <1>4, <1>5, <1>6 DEF Accounts

\* A sum follows a change of one entry.
LEMMA EntryChanges ==
  ASSUME NEW S, IsFiniteSet(S), NEW f \in [S -> Nat], NEW g \in [S -> Nat], NEW a \in S,
         \A b \in S \ {a} : g[b] = f[b]
  PROVE  SumOver(g, EnumerationOf(S)) = SumOver(f, EnumerationOf(S)) - f[a] + g[a]
<1>1. g = [f EXCEPT ![a] = g[a]] /\ g[a] \in Nat
  OBVIOUS
<1> QED
  BY <1>1, SumOverAccounts

\* A transfer moves tokens and makes none.
LEMMA MovedKeepsTheSum ==
  ASSUME NEW balance \in [Accounts -> Nat], NEW from \in Accounts, NEW to \in Accounts,
         NEW amount \in Nat, amount <= balance[from]
  PROVE  /\ Moved(balance, from, to, amount) \in [Accounts -> Nat]
         /\ SumOver(Moved(balance, from, to, amount), EnumerationOf(Accounts))
              = SumOver(balance, EnumerationOf(Accounts))
<1> DEFINE after == Moved(balance, from, to, amount)
<1>1. IsFiniteSet(Accounts) /\ \A a \in Accounts : balance[a] \in Nat
  BY AccountsAreFinite
<1>2. CASE from = to
  <2>1. after = balance
    BY <1>1, <1>2 DEF Moved
  <2> QED
    BY <2>1
<1>3. CASE from # to
  <2> DEFINE less == [a \in Accounts |-> IF a = from THEN balance[a] - amount ELSE balance[a]]
  <2>1. /\ less \in [Accounts -> Nat]
        /\ \A a \in Accounts : less[a] = IF a = from THEN balance[a] - amount ELSE balance[a]
    BY <1>1
  <2> HIDE DEF less
  <2>2. /\ after \in [Accounts -> Nat] /\ after[to] = balance[to] + amount
        /\ \A a \in Accounts \ {to} : after[a] = less[a]
    BY <1>1, <1>3, <2>1 DEF Moved
  <2>3. /\ less[from] = balance[from] - amount /\ less[to] = balance[to]
        /\ \A a \in Accounts \ {from} : less[a] = balance[a]
    BY <1>3, <2>1
  <2> HIDE DEF after
  <2>4. SumOver(less, EnumerationOf(Accounts))
          = SumOver(balance, EnumerationOf(Accounts)) - balance[from] + less[from]
    BY <1>1, <2>1, <2>3, EntryChanges
  <2>5. SumOver(after, EnumerationOf(Accounts))
          = SumOver(less, EnumerationOf(Accounts)) - less[to] + after[to]
    BY <1>1, <2>1, <2>2, EntryChanges
  <2>6. SumOver(balance, EnumerationOf(Accounts)) \in Nat
    BY <1>1, SumOverAccounts
  <2>7. SumOver(after, EnumerationOf(Accounts)) = SumOver(balance, EnumerationOf(Accounts))
    BY <1>1, <2>2, <2>3, <2>4, <2>5, <2>6
  <2> QED
    BY <2>2, <2>7 DEF after
<1> QED
  BY <1>2, <1>3

\* The supply follows a change of one balance, and what vests one of a position.
LEMMA BalanceChanges ==
  ASSUME esBalance \in [Accounts -> Nat], esBalance' \in [Accounts -> Nat], NEW a \in Accounts,
         \A b \in Accounts \ {a} : esBalance'[b] = esBalance[b]
  PROVE  Supply \in Nat /\ Supply' \in Nat /\ Supply' = Supply - esBalance[a] + esBalance'[a]
<1>1. IsFiniteSet(Accounts)
  BY AccountsAreFinite
<1>2. /\ SumOver(esBalance, EnumerationOf(Accounts)) \in Nat
      /\ SumOver(esBalance', EnumerationOf(Accounts)) \in Nat
  BY <1>1, SumOverAccounts
<1>3. SumOver(esBalance', EnumerationOf(Accounts))
        = SumOver(esBalance, EnumerationOf(Accounts)) - esBalance[a] + esBalance'[a]
  BY <1>1, EntryChanges
<1>4. Supply = SumOver(esBalance, EnumerationOf(Accounts))
      /\ Supply' = SumOver(esBalance', EnumerationOf(Accounts))
  BY DEF Supply
<1> QED
  BY <1>2, <1>3, <1>4

Vestings == [u \in Users |-> userInfo[u].totalVested]

LEMMA VestingIsNat ==
  ASSUME userInfo \in [Users -> Positions]
  PROVE  Vestings \in [Users -> Nat] /\ Vesting \in Nat
<1>1. Vestings \in [Users -> Nat]
  BY DEF Vestings, Positions
<1> QED
  BY <1>1, AccountsAreFinite, SumOverAccounts DEF Vesting, Vestings

LEMMA PositionChanges ==
  ASSUME userInfo \in [Users -> Positions], NEW u \in Users, NEW new \in Positions,
         userInfo' = [userInfo EXCEPT ![u] = new]
  PROVE  /\ userInfo' \in [Users -> Positions]
         /\ Vesting \in Nat /\ Vesting' \in Nat
         /\ Vesting' = Vesting - userInfo[u].totalVested + new.totalVested
<1>1. userInfo' \in [Users -> Positions] /\ userInfo'[u] = new
      /\ \A v \in Users \ {u} : userInfo'[v] = userInfo[v]
  OBVIOUS
<1>2. Vestings' = [v \in Users |-> userInfo'[v].totalVested]
  BY DEF Vestings
<1>3. /\ Vestings' \in [Users -> Nat]
      /\ Vestings'[u] = new.totalVested /\ Vestings[u] = userInfo[u].totalVested
      /\ \A v \in Users \ {u} : Vestings'[v] = Vestings[v]
  BY <1>1, <1>2 DEF Vestings, Positions
<1>4. /\ Vesting = SumOver(Vestings, EnumerationOf(Users))
      /\ Vesting' = SumOver(Vestings', EnumerationOf(Users))
  BY DEF Vesting, Vestings
<1>5. Vestings \in [Users -> Nat] /\ IsFiniteSet(Users)
  BY VestingIsNat, AccountsAreFinite
<1>6. /\ SumOver(Vestings, EnumerationOf(Users)) \in Nat
      /\ SumOver(Vestings', EnumerationOf(Users)) \in Nat
  BY <1>3, <1>5, SumOverAccounts
<1>7. SumOver(Vestings', EnumerationOf(Users))
        = SumOver(Vestings, EnumerationOf(Users)) - Vestings[u] + Vestings'[u]
  BY <1>3, <1>5, EntryChanges
<1> QED
  BY <1>1, <1>3, <1>4, <1>6, <1>7

-----------------------------------------------------------------------------
(* Positions.                                                              *)

\* ClaimsKeepTheSchedule for one user; besides, nothing is left when no time
\* is left.
OnSchedule(position, set) ==
  /\ position.VestPeriod # 0 =>
       position.lastInteractionTime + position.VestPeriod = set.start + set.period
  /\ set.amount * position.VestPeriod <= position.totalVested * set.period
  /\ position.totalVested * set.period
       <= set.amount * position.VestPeriod + set.claims * set.period
  /\ position.VestPeriod = 0 => position.totalVested = 0

\* A position that was set now starts a schedule.
LEMMA SetOnSchedule ==
  ASSUME NEW position \in Positions, position.lastInteractionTime = now, now \in Nat,
         position.VestPeriod = 0 => position.totalVested = 0
  PROVE  /\ ScheduleOf(position) \in Schedules
         /\ OnSchedule(position, ScheduleOf(position))
<1> DEFINE set == ScheduleOf(position)
<1>1. /\ position.totalVested \in Nat /\ position.VestPeriod \in Nat
      /\ set.amount = position.totalVested /\ set.start = now
      /\ set.period = position.VestPeriod /\ set.claims = 0
      /\ set \in Schedules
  BY DEF Positions, Schedules, ScheduleOf
<1> HIDE DEF set
<1>2. position.totalVested * position.VestPeriod \in Nat
  BY <1>1
<1> QED
  BY <1>1, <1>2 DEF OnSchedule, set

\* More in a position, over a whole period.
LEMMA ExtendedIsPosition ==
  ASSUME NEW position \in Positions, NEW amount \in Nat, now \in Nat
  PROVE  LET new == Extended(position, amount)
         IN  /\ new \in Positions /\ new.lastInteractionTime = now /\ new.VestPeriod # 0
             /\ new.totalVested = position.totalVested + amount
BY EsRADTAssumption DEF Extended, Positions

\* A claim takes no more than there is, and keeps to the schedule but for a
\* unit of rounding.
LEMMA ClaimedOnSchedule ==
  ASSUME NEW position \in Positions, NEW set \in Schedules, OnSchedule(position, set),
         now \in Nat, position.lastInteractionTime <= now
  PROVE  LET new == Claimed(position)
             after == [set EXCEPT !.claims = @ + 1]
         IN  /\ new \in Positions /\ new.lastInteractionTime = now
             /\ Claimable(position) \in 0 .. position.totalVested
             /\ new.totalVested = position.totalVested - Claimable(position)
             /\ after \in Schedules /\ OnSchedule(new, after)
<1> DEFINE T == position.totalVested
           V == position.VestPeriod
           t == now - position.lastInteractionTime
           c == Claimable(position)
           A == set.amount
           p == set.period
           k == set.claims
           new == Claimed(position)
           after == [set EXCEPT !.claims = @ + 1]
<1>1. /\ T \in Nat /\ V \in Nat /\ t \in Nat /\ A \in Nat /\ p \in Nat /\ k \in Nat
      /\ position.lastInteractionTime \in Nat /\ set.start \in Nat
  BY DEF Positions, Schedules
<1>2. /\ V # 0 => position.lastInteractionTime + V = set.start + p
      /\ A * V <= T * p /\ T * p <= A * V + k * p
      /\ V = 0 => T = 0
  BY DEF OnSchedule
<1>3. after \in Schedules /\ after.amount = A /\ after.start = set.start /\ after.period = p
      /\ after.claims = k + 1
  BY <1>1 DEF Schedules
<1>4. new = [totalVested |-> T - c, lastInteractionTime |-> now,
             VestPeriod |-> IF t >= V THEN 0 ELSE V - t]
  BY DEF Claimed
<1>5. c = IF t >= V THEN T ELSE (T * t) \div V
  BY DEF Claimable, VestedBy
<1> HIDE DEF c, new, after
<1>6. CASE t >= V
  <2>1. c = T /\ new.totalVested = 0 /\ new.VestPeriod = 0 /\ new.lastInteractionTime = now
        /\ new \in Positions
    BY <1>1, <1>4, <1>5, <1>6 DEF Positions
  <2>2. (k + 1) * p \in Nat /\ A * 0 = 0 /\ 0 * p = 0
    BY <1>1
  <2>3. OnSchedule(new, after)
    BY <1>1, <1>3, <2>1, <2>2 DEF OnSchedule
  <2> QED
    BY <1>1, <1>3, <1>4, <2>1, <2>3 DEF new, after, c
<1>7. CASE t < V
  <2> DEFINE W == V - t
             R == T - c
  <2>1. V \in Nat \ {0} /\ W \in Nat \ {0} /\ V = W + t
    BY <1>1, <1>7
  <2>2. T * t \in Nat /\ T * V \in Nat /\ T * W \in Nat
    BY <1>1, <2>1
  <2>3. c = (T * t) \div V
    BY <1>5, <1>7, <1>1
  <2>4. c \in Nat /\ V * c <= T * t /\ T * t < V * c + V
    BY <2>1, <2>2, <2>3, Quotient
  <2>5. c <= T
    <3>1. T * t <= T * V
      BY <1>1, <1>7
    <3>2. V * c <= V * T
      BY <1>1, <2>1, <2>4, <3>1
    <3> QED
      BY <1>1, <2>1, <2>4, <3>2, SmallerFactor
  <2>6. R \in Nat
    BY <1>1, <2>4, <2>5
  <2>7. T * W <= V * R /\ V * R < T * W + V
    <3>1. V * R = V * T - V * c /\ T * W = T * V - T * t /\ V * T = T * V
      BY <1>1, <2>1, <2>4
    <3> HIDE DEF R, W
    <3>2. V * c \in Nat
      BY <2>1, <2>4
    <3> QED
      BY <2>1, <2>2, <2>4, <3>1, <3>2
  <2>8. new.totalVested = R /\ new.VestPeriod = W /\ new.lastInteractionTime = now
        /\ new \in Positions
    BY <1>1, <1>4, <1>7, <2>1, <2>6 DEF Positions
  <2> HIDE DEF R, W
  <2>9. A * W <= R * p
    <3>1. V * (A * W) <= (T * p) * W
      <4>1. (A * V) * W <= (T * p) * W
        BY <1>1, <1>2, <2>1
      <4>2. V * (A * W) = (A * V) * W
        BY <1>1, <2>1
      <4> QED
        BY <4>1, <4>2
    <3>2. (T * p) * W <= V * (R * p)
      <4>1. (T * W) * p <= (V * R) * p
        <5> DEFINE x == T * W
                   y == V * R
        <5>1. x \in Nat /\ y \in Nat /\ x <= y
          BY <1>1, <2>1, <2>6, <2>7
        <5> HIDE DEF x, y
        <5>2. x * p <= y * p
          BY <1>1, <5>1
        <5> QED
          BY <5>2 DEF x, y
      <4>2. (T * p) * W = (T * W) * p /\ V * (R * p) = (V * R) * p
        BY <1>1, <2>1, <2>6
      <4> QED
        BY <4>1, <4>2
    <3>3. A * W \in Int /\ R * p \in Int /\ (T * p) * W \in Int
      BY <1>1, <2>1, <2>6
    <3>4. V * (A * W) <= V * (R * p)
      <4>1. V * (A * W) \in Int /\ V * (R * p) \in Int
        BY <2>1, <3>3
      <4> QED
        BY <3>1, <3>2, <3>3, <4>1
    <3> DEFINE x == A * W
               y == R * p
    <3>5. x \in Int /\ y \in Int /\ V * x <= V * y
      BY <3>3, <3>4
    <3> HIDE DEF x, y
    <3>6. x <= y
      BY <2>1, <3>5, SmallerFactor
    <3> QED
      BY <3>6 DEF x, y
  <2>10. R * p <= A * W + (k + 1) * p
    <3>1. V * (R * p) <= (T * p) * W + V * p
      <4>1. (V * R) * p <= (T * W + V) * p
        <5> DEFINE x == V * R
                   y == T * W + V
        <5>1. x \in Nat /\ y \in Nat /\ x <= y
          BY <1>1, <2>1, <2>6, <2>7
        <5> HIDE DEF x, y
        <5>2. x * p <= y * p
          BY <1>1, <5>1
        <5> QED
          BY <5>2 DEF x, y
      <4>2. (T * W + V) * p = (T * W) * p + V * p
        <5> DEFINE x == T * W
        <5>1. x \in Nat
          BY <2>2
        <5> HIDE DEF x
        <5>2. (x + V) * p = x * p + V * p
          BY <1>1, <5>1
        <5> QED
          BY <5>2 DEF x
      <4>3. (T * W) * p = (T * p) * W /\ V * (R * p) = (V * R) * p
        BY <1>1, <2>1, <2>6
      <4> QED
        BY <4>1, <4>2, <4>3
    <3>2. (T * p) * W <= (A * V + k * p) * W
      <4> DEFINE x == T * p
                 y == A * V + k * p
      <4>1. x \in Nat /\ y \in Nat /\ x <= y
        BY <1>1, <1>2
      <4> HIDE DEF x, y
      <4>2. x * W <= y * W
        BY <2>1, <4>1
      <4> QED
        BY <4>2 DEF x, y
    <3>3. (k * p) * W <= (k * p) * V
      BY <1>1, <1>7, <2>1 DEF W
    <3>4. /\ (A * V + k * p) * W = V * (A * W) + (k * p) * W
          /\ V * (A * W + (k + 1) * p) = V * (A * W) + (k * p) * V + V * p
      <4> DEFINE x == A * V
                 y == k * p
                 z == A * W
      <4>1. x \in Nat /\ y \in Nat /\ z \in Nat /\ (k + 1) * p = y + p /\ x * W = V * z
        BY <1>1, <2>1
      <4> HIDE DEF x, y, z
      <4>2. (x + y) * W = V * z + y * W
        BY <2>1, <4>1
      <4>3. V * (z + (k + 1) * p) = V * z + y * V + V * p
        BY <1>1, <2>1, <4>1
      <4> QED
        BY <4>2, <4>3 DEF x, y, z
    <3>5. /\ V * (A * W) \in Int /\ (k * p) * W \in Int /\ (k * p) * V \in Int /\ V * p \in Int
          /\ (T * p) * W \in Int /\ V * (R * p) \in Int
      BY <1>1, <2>1, <2>6
    <3>6. V * (R * p) <= V * (A * W + (k + 1) * p)
      BY <3>1, <3>2, <3>3, <3>4, <3>5
    <3> DEFINE x == R * p
               y == A * W + (k + 1) * p
    <3>7. x \in Int /\ y \in Int /\ V * x <= V * y
      BY <1>1, <2>1, <2>6, <3>6
    <3> HIDE DEF x, y
    <3>8. x <= y
      BY <2>1, <3>7, SmallerFactor
    <3> QED
      BY <3>8 DEF x, y
  <2>11. now + W = set.start + p
    BY <1>1, <1>2, <2>1 DEF W
  <2>12. OnSchedule(new, after)
    BY <1>3, <2>1, <2>8, <2>9, <2>10, <2>11 DEF OnSchedule
  <2> QED
    BY <1>1, <1>3, <2>4, <2>5, <2>8, <2>12 DEF new, after, c, R
<1> QED
  BY <1>1, <1>6, <1>7

-----------------------------------------------------------------------------
(* The inductive invariant and the steps.                                  *)

OnAllSchedules == \A u \in Users : OnSchedule(userInfo[u], schedule[u])

EscrowInv == EscrowTypeOK /\ OnlyEarlyExitsAreUnbacked /\ OnAllSchedules

LEMMA SchedulesSuffice == EscrowInv => ClaimsKeepTheSchedule
BY DEF EscrowInv, OnAllSchedules, OnSchedule, ClaimsKeepTheSchedule

LEMMA EscrowIsTyped ==
  ASSUME EscrowInv
  PROVE  /\ now \in Nat /\ radtHeld \in Nat /\ earlyPaid \in Nat /\ burned \in Nat
         /\ calls \in Nat /\ Supply \in Nat /\ Vesting \in Nat
         /\ esBalance \in [Accounts -> Nat] /\ radt \in [Users -> Nat]
         /\ userInfo \in [Users -> Positions] /\ schedule \in [Users -> Schedules]
         /\ Users \subseteq Accounts
         /\ radtHeld + earlyPaid = Supply + Vesting + burned
         /\ \A u \in Users : /\ userInfo[u] \in Positions /\ userInfo[u].totalVested \in Nat
                             /\ userInfo[u].VestPeriod \in Nat
                             /\ userInfo[u].lastInteractionTime <= now
                             /\ OnSchedule(userInfo[u], schedule[u])
<1>1. /\ esBalance \in [Accounts -> Nat] /\ userInfo \in [Users -> Positions]
      /\ now \in 0 .. MaxTime /\ MaxTime \in Nat /\ calls \in 0 .. MaxCalls /\ MaxCalls \in Nat
  BY EsRADTAssumption DEF EscrowInv, EscrowTypeOK
<1>2. Supply \in Nat
  BY <1>1, AccountsAreFinite, SumOverAccounts DEF Supply
<1>3. \A u \in Users : userInfo[u].totalVested \in Nat /\ userInfo[u].VestPeriod \in Nat
  BY <1>1 DEF Positions
<1> QED
  BY <1>1, <1>2, <1>3, VestingIsNat, AccountsAreFinite
     DEF EscrowInv, EscrowTypeOK, OnlyEarlyExitsAreUnbacked, OnAllSchedules

\* Steps that leave the positions alone keep the token backed when its supply
\* and its RADT change together.
LEMMA TokenStep ==
  ASSUME EscrowInv, UNCHANGED <<now, userInfo, schedule, earlyPaid>>,
         esBalance' \in [Accounts -> Nat], radt' \in [Users -> Nat], radtHeld' \in Nat,
         whitelist' \subseteq Accounts, burned' \in Nat, calls' \in 0 .. MaxCalls,
         radtHeld' - radtHeld = (Supply' + burned') - (Supply + burned)
  PROVE  EscrowInv'
<1>1. EscrowTypeOK'
  BY DEF EscrowInv, EscrowTypeOK
<1>2. OnAllSchedules'
  BY DEF EscrowInv, OnAllSchedules, OnSchedule
<1>3. Vesting' = Vesting
  BY DEF Vesting
<1>4. Supply' \in Nat
  BY AccountsAreFinite, SumOverAccounts DEF Supply
<1>5. OnlyEarlyExitsAreUnbacked'
  BY <1>3, <1>4, EscrowIsTyped DEF OnlyEarlyExitsAreUnbacked
<1> QED
  BY <1>1, <1>2, <1>5 DEF EscrowInv

\* So do steps that set one user's position and its schedule.
LEMMA PositionStep ==
  ASSUME EscrowInv, NEW u \in Users, NEW new \in Positions, NEW set \in Schedules,
         OnSchedule(new, set), new.lastInteractionTime <= now,
         userInfo' = [userInfo EXCEPT ![u] = new], schedule' = [schedule EXCEPT ![u] = set],
         UNCHANGED <<now, whitelist, burned>>,
         esBalance' \in [Accounts -> Nat], radt' \in [Users -> Nat], radtHeld' \in Nat,
         earlyPaid' \in Nat, calls' \in 0 .. MaxCalls,
         (radtHeld' + earlyPaid') - (radtHeld + earlyPaid)
           = (Supply' + new.totalVested) - (Supply + userInfo[u].totalVested)
  PROVE  EscrowInv'
<1>1. /\ userInfo \in [Users -> Positions] /\ schedule \in [Users -> Schedules]
      /\ userInfo[u].totalVested \in Nat
  BY EscrowIsTyped
<1>2. /\ userInfo' \in [Users -> Positions] /\ schedule' \in [Users -> Schedules]
      /\ userInfo'[u] = new /\ schedule'[u] = set
      /\ \A v \in Users \ {u} : userInfo'[v] = userInfo[v] /\ schedule'[v] = schedule[v]
  BY <1>1
<1>3. Vesting \in Nat /\ Vesting' \in Nat
      /\ Vesting' = Vesting - userInfo[u].totalVested + new.totalVested
  BY <1>1, PositionChanges
<1>4. Supply' \in Nat /\ new.totalVested \in Nat
  BY AccountsAreFinite, SumOverAccounts DEF Supply, Positions
<1>5. OnlyEarlyExitsAreUnbacked'
  <2>1. burned' = burned
    OBVIOUS
  <2>2. /\ radtHeld \in Nat /\ earlyPaid \in Nat /\ burned \in Nat /\ Supply \in Nat
        /\ radtHeld + earlyPaid = Supply + Vesting + burned
    BY EscrowIsTyped
  <2>3. radtHeld' + earlyPaid' = Supply' + Vesting' + burned'
    <3> DEFINE d == userInfo[u].totalVested
               e == new.totalVested
    <3>1. /\ d \in Nat /\ e \in Nat /\ Vesting' = Vesting - d + e
          /\ (radtHeld' + earlyPaid') - (radtHeld + earlyPaid) = (Supply' + e) - (Supply + d)
      BY <1>1, <1>3, <1>4
    <3> HIDE DEF d, e
    <3> QED
      BY <1>3, <1>4, <2>1, <2>2, <3>1
  <2> QED
    BY <2>3 DEF OnlyEarlyExitsAreUnbacked
<1>6. OnAllSchedules'
  <2>1. \A v \in Users : OnSchedule(userInfo'[v], schedule'[v])
    <3>1. SUFFICES ASSUME NEW v \in Users PROVE OnSchedule(userInfo'[v], schedule'[v])
      OBVIOUS
    <3>2. CASE v = u
      BY <1>2, <3>2
    <3>3. CASE v # u
      <4>1. userInfo'[v] = userInfo[v] /\ schedule'[v] = schedule[v]
        BY <1>2, <3>3
      <4> QED
        BY <4>1 DEF EscrowInv, OnAllSchedules
    <3> QED
      BY <3>2, <3>3
  <2> QED
    BY <2>1 DEF OnAllSchedules, OnSchedule
<1>7. EscrowTypeOK'
  <2>1. \A v \in Users : userInfo'[v].lastInteractionTime <= now
    BY <1>2, EscrowIsTyped
  <2> QED
    BY <1>2, <2>1 DEF EscrowInv, EscrowTypeOK
<1> QED
  BY <1>5, <1>6, <1>7 DEF EscrowInv

\* Whoever moves tokens between accounts.
LEMMA MovedStep ==
  ASSUME EscrowInv, NEW from \in Accounts, NEW to \in Accounts, NEW amount \in Nat,
         amount <= esBalance[from], esBalance' = Moved(esBalance, from, to, amount),
         UNCHANGED <<now, radt, radtHeld, whitelist, userInfo, schedule, earlyPaid, burned>>,
         calls' \in 0 .. MaxCalls
  PROVE  EscrowInv'
<1>1. esBalance \in [Accounts -> Nat] /\ Supply \in Nat /\ radtHeld \in Nat /\ burned \in Nat
  BY EscrowIsTyped
<1>2. /\ Moved(esBalance, from, to, amount) \in [Accounts -> Nat]
      /\ SumOver(Moved(esBalance, from, to, amount), EnumerationOf(Accounts))
           = SumOver(esBalance, EnumerationOf(Accounts))
  BY <1>1, MovedKeepsTheSum
<1>3. Supply' = Supply /\ esBalance' \in [Accounts -> Nat]
  BY <1>2 DEF Supply
<1>4. radtHeld' - radtHeld = (Supply' + burned') - (Supply + burned)
  BY <1>1, <1>3
<1>5. radt' \in [Users -> Nat] /\ radtHeld' \in Nat /\ whitelist' \subseteq Accounts /\ burned' \in Nat
  BY DEF EscrowInv, EscrowTypeOK
<1> QED
  BY <1>3, <1>4, <1>5, TokenStep

LEMMA CallCounts ==
  ASSUME EscrowInv, Call
  PROVE  calls' \in 0 .. MaxCalls
BY EsRADTAssumption DEF EscrowInv, EscrowTypeOK, Call

LEMMA TransferStep ==
  ASSUME EscrowInv, NEW u \in Users, NEW to \in Accounts, NEW amount \in Amounts,
         Transfer(u, to, amount)
  PROVE  EscrowInv'
<1>1. u \in Accounts /\ amount \in Nat
  BY EscrowIsTyped, EsRADTAssumption
<1> QED
  BY <1>1, CallCounts, MovedStep DEF Transfer

LEMMA BurnStep ==
  ASSUME EscrowInv, NEW u \in Users, NEW amount \in Amounts, Burn(u, amount)
  PROVE  EscrowInv'
<1>1. /\ u \in Accounts /\ amount \in Nat /\ esBalance \in [Accounts -> Nat]
      /\ Supply \in Nat /\ radtHeld \in Nat /\ burned \in Nat /\ esBalance[u] - amount \in Nat
  BY EscrowIsTyped, EsRADTAssumption DEF Burn
<1>2. /\ esBalance' \in [Accounts -> Nat] /\ esBalance'[u] = esBalance[u] - amount
      /\ \A b \in Accounts \ {u} : esBalance'[b] = esBalance[b]
      /\ burned' = burned + amount
      /\ UNCHANGED <<now, radt, radtHeld, whitelist, userInfo, schedule, earlyPaid>>
  BY <1>1 DEF Burn
<1>3. Supply' \in Nat /\ Supply' = Supply - esBalance[u] + esBalance'[u]
  BY <1>1, <1>2, BalanceChanges
<1>4. radtHeld' - radtHeld = (Supply' + burned') - (Supply + burned) /\ burned' \in Nat
  BY <1>1, <1>2, <1>3
<1>5. radt' \in [Users -> Nat] /\ radtHeld' \in Nat /\ whitelist' \subseteq Accounts
  BY <1>2 DEF EscrowInv, EscrowTypeOK
<1>6. calls' \in 0 .. MaxCalls
  BY CallCounts DEF Burn
<1> QED
  BY <1>2, <1>4, <1>5, <1>6, TokenStep

LEMMA LockStep ==
  ASSUME EscrowInv, NEW u \in Users, NEW amount \in Amounts, Lock(u, amount)
  PROVE  EscrowInv'
<1>1. /\ u \in Accounts /\ amount \in Nat /\ esBalance \in [Accounts -> Nat]
      /\ radt \in [Users -> Nat] /\ radt[u] - amount \in Nat
      /\ Supply \in Nat /\ radtHeld \in Nat /\ burned \in Nat
  BY EscrowIsTyped, EsRADTAssumption DEF Lock
<1>2. /\ esBalance' \in [Accounts -> Nat] /\ esBalance'[u] = esBalance[u] + amount
      /\ \A b \in Accounts \ {u} : esBalance'[b] = esBalance[b]
      /\ radt' \in [Users -> Nat] /\ radtHeld' = radtHeld + amount
      /\ UNCHANGED <<now, whitelist, userInfo, schedule, earlyPaid, burned>>
  BY <1>1 DEF Lock
<1>3. Supply' \in Nat /\ Supply' = Supply - esBalance[u] + esBalance'[u]
  BY <1>1, <1>2, BalanceChanges
<1>4. radtHeld' - radtHeld = (Supply' + burned') - (Supply + burned) /\ radtHeld' \in Nat
  BY <1>1, <1>2, <1>3
<1>5. whitelist' \subseteq Accounts /\ burned' \in Nat
  BY <1>2 DEF EscrowInv, EscrowTypeOK
<1>6. calls' \in 0 .. MaxCalls
  BY CallCounts DEF Lock
<1> QED
  BY <1>2, <1>4, <1>5, <1>6, TokenStep

LEMMA WhitelistStep ==
  ASSUME EscrowInv, NEW a \in Users \cup {Owner}, NEW value \in BOOLEAN,
         WhitelistAddress(a, value)
  PROVE  EscrowInv'
<1>1. Supply' = Supply /\ Supply \in Nat /\ radtHeld \in Nat /\ burned \in Nat
  BY EscrowIsTyped DEF WhitelistAddress, Supply
<1>2. radtHeld' - radtHeld = (Supply' + burned') - (Supply + burned)
  BY <1>1 DEF WhitelistAddress
<1>3. whitelist' \subseteq Accounts
  BY DEF WhitelistAddress, EscrowInv, EscrowTypeOK, Accounts
<1>4. /\ esBalance' \in [Accounts -> Nat] /\ radt' \in [Users -> Nat] /\ radtHeld' \in Nat
      /\ burned' \in Nat
      /\ UNCHANGED <<now, userInfo, schedule, earlyPaid>>
  BY DEF WhitelistAddress, EscrowInv, EscrowTypeOK
<1>5. calls' \in 0 .. MaxCalls
  BY CallCounts DEF WhitelistAddress
<1> QED
  BY <1>2, <1>3, <1>4, <1>5, TokenStep

LEMMA VestStep ==
  ASSUME EscrowInv, NEW u \in Users, NEW amount \in Amounts, Vest(u, amount)
  PROVE  EscrowInv'
<1> DEFINE old == userInfo[u]
<1>1. /\ u \in Accounts /\ amount \in Nat /\ esBalance \in [Accounts -> Nat]
      /\ Supply \in Nat /\ radtHeld \in Nat /\ esBalance[u] - amount \in Nat
      /\ old \in Positions /\ old.totalVested \in Nat /\ now \in Nat /\ earlyPaid \in Nat
      /\ schedule \in [Users -> Schedules] /\ esBalance[u] \in Nat
  BY EscrowIsTyped, EsRADTAssumption DEF Vest
<1>2. PICK new \in Positions : /\ new = Extended(old, amount)
                               /\ new.lastInteractionTime = now /\ new.VestPeriod # 0
                               /\ new.totalVested = old.totalVested + amount
  BY <1>1, ExtendedIsPosition
<1>3. PICK set \in Schedules : set = ScheduleOf(new) /\ OnSchedule(new, set)
  BY <1>1, <1>2, SetOnSchedule
<1>4. /\ userInfo' = [userInfo EXCEPT ![u] = new] /\ schedule' = [schedule EXCEPT ![u] = set]
      /\ esBalance' \in [Accounts -> Nat] /\ esBalance'[u] = esBalance[u] - amount
      /\ \A b \in Accounts \ {u} : esBalance'[b] = esBalance[b]
      /\ UNCHANGED <<now, radt, radtHeld, whitelist, earlyPaid, burned>>
  BY <1>1, <1>2, <1>3 DEF Vest
<1> HIDE DEF old
<1>5. Supply' \in Nat /\ Supply' = Supply - esBalance[u] + esBalance'[u]
  BY <1>1, <1>4, BalanceChanges
<1>6. (radtHeld' + earlyPaid') - (radtHeld + earlyPaid)
        = (Supply' + new.totalVested) - (Supply + userInfo[u].totalVested)
  BY <1>1, <1>2, <1>4, <1>5 DEF old
<1>7. radt' \in [Users -> Nat] /\ radtHeld' \in Nat /\ earlyPaid' \in Nat
  BY <1>4 DEF EscrowInv, EscrowTypeOK
<1>8. calls' \in 0 .. MaxCalls
  BY CallCounts DEF Vest
<1>9. new.lastInteractionTime <= now
  BY <1>1, <1>2
<1> QED
  BY <1>3, <1>4, <1>6, <1>7, <1>8, <1>9, PositionStep

LEMMA ClaimVestedStep ==
  ASSUME EscrowInv, NEW u \in Users, ClaimVested(u)
  PROVE  EscrowInv'
<1> DEFINE old == userInfo[u]
           claimable == Claimable(old)
           new == Claimed(old)
           set == [schedule[u] EXCEPT !.claims = @ + 1]
<1>1. /\ old \in Positions /\ old.totalVested \in Nat /\ now \in Nat
      /\ old.lastInteractionTime <= now
      /\ schedule \in [Users -> Schedules] /\ OnSchedule(old, schedule[u])
      /\ Supply \in Nat /\ radtHeld \in Nat /\ earlyPaid \in Nat
      /\ radt \in [Users -> Nat] /\ esBalance \in [Accounts -> Nat]
  BY EscrowIsTyped
<1>2. schedule[u] \in Schedules
  BY <1>1
<1>3. /\ new \in Positions /\ new.lastInteractionTime = now
      /\ claimable \in 0 .. old.totalVested
      /\ new.totalVested = old.totalVested - claimable
      /\ set \in Schedules /\ OnSchedule(new, set)
  <2> HIDE DEF old
  <2> QED
    BY <1>1, <1>2, ClaimedOnSchedule
<1>4. /\ claimable <= radtHeld
      /\ userInfo' = [userInfo EXCEPT ![u] = new] /\ schedule' = [schedule EXCEPT ![u] = set]
      /\ radt' = [radt EXCEPT ![u] = radt[u] + claimable] /\ radtHeld' = radtHeld - claimable
      /\ UNCHANGED <<now, esBalance, whitelist, earlyPaid, burned>>
  BY <1>1 DEF ClaimVested
<1> HIDE DEF old, claimable, new, set
<1>5. Supply' = Supply
  BY <1>4 DEF Supply
<1>6. /\ radt' \in [Users -> Nat] /\ radtHeld' \in Nat /\ earlyPaid' \in Nat
      /\ esBalance' \in [Accounts -> Nat]
  BY <1>1, <1>3, <1>4
<1>7. (radtHeld' + earlyPaid') - (radtHeld + earlyPaid)
        = (Supply' + new.totalVested) - (Supply + userInfo[u].totalVested)
  BY <1>1, <1>3, <1>4, <1>5 DEF old
<1>8. calls' \in 0 .. MaxCalls
  BY CallCounts DEF ClaimVested
<1>9. new.lastInteractionTime <= now
  BY <1>1, <1>3
<1> QED
  BY <1>3, <1>4, <1>6, <1>7, <1>8, <1>9, PositionStep

LEMMA ExitWhitelistedStep ==
  ASSUME EscrowInv, NEW u \in Users, NEW amount \in Amounts, ExitWhitelisted(u, amount)
  PROVE  EscrowInv'
<1> DEFINE old == userInfo[u]
<1>1. /\ u \in Accounts /\ amount \in Nat /\ esBalance \in [Accounts -> Nat]
      /\ Supply \in Nat /\ radtHeld \in Nat /\ esBalance[u] - amount \in Nat
      /\ radtHeld - amount \in Nat /\ radt \in [Users -> Nat]
      /\ old \in Positions /\ old.totalVested \in Nat /\ now \in Nat /\ earlyPaid \in Nat
      /\ schedule \in [Users -> Schedules] /\ OnSchedule(old, schedule[u])
      /\ esBalance[u] \in Nat
  BY EscrowIsTyped, EsRADTAssumption DEF ExitWhitelisted
<1>2. PICK new \in Positions : /\ new = PutOff(old)
                               /\ new.lastInteractionTime = now
                               /\ new.totalVested = old.totalVested
                               /\ new.VestPeriod = old.VestPeriod
  <2> HIDE DEF old
  <2>1. /\ PutOff(old) \in Positions /\ PutOff(old).lastInteractionTime = now
        /\ PutOff(old).totalVested = old.totalVested /\ PutOff(old).VestPeriod = old.VestPeriod
    BY <1>1 DEF PutOff, Positions
  <2> QED
    BY <2>1
<1>3. PICK set \in Schedules : set = ScheduleOf(new) /\ OnSchedule(new, set)
  <2>1. new.VestPeriod = 0 => new.totalVested = 0
    BY <1>1, <1>2 DEF OnSchedule
  <2> QED
    BY <1>1, <1>2, <2>1, SetOnSchedule
<1>4. /\ userInfo' = [userInfo EXCEPT ![u] = new] /\ schedule' = [schedule EXCEPT ![u] = set]
      /\ esBalance' \in [Accounts -> Nat] /\ esBalance'[u] = esBalance[u] - amount
      /\ \A b \in Accounts \ {u} : esBalance'[b] = esBalance[b]
      /\ radt' \in [Users -> Nat] /\ radtHeld' = radtHeld - amount
      /\ UNCHANGED <<now, whitelist, earlyPaid, burned>>
  BY <1>1, <1>2, <1>3 DEF ExitWhitelisted
<1> HIDE DEF old
<1>5. Supply' \in Nat /\ Supply' = Supply - esBalance[u] + esBalance'[u]
  BY <1>1, <1>4, BalanceChanges
<1>6. (radtHeld' + earlyPaid') - (radtHeld + earlyPaid)
        = (Supply' + new.totalVested) - (Supply + userInfo[u].totalVested)
  BY <1>1, <1>2, <1>4, <1>5 DEF old
<1>7. radtHeld' \in Nat /\ earlyPaid' \in Nat
  BY <1>1, <1>4
<1>8. calls' \in 0 .. MaxCalls
  BY CallCounts DEF ExitWhitelisted
<1>9. new.lastInteractionTime <= now
  BY <1>1, <1>2
<1> QED
  BY <1>3, <1>4, <1>6, <1>7, <1>8, <1>9, PositionStep

LEMMA ExitEarlyStep ==
  ASSUME EscrowInv, NEW u \in Users, NEW amount \in Amounts, ExitEarly(u, amount)
  PROVE  EscrowInv'
<1> DEFINE old == userInfo[u]
           half == amount \div 2
<1>1. /\ u \in Accounts /\ amount \in Nat /\ esBalance \in [Accounts -> Nat]
      /\ Supply \in Nat /\ radtHeld \in Nat /\ esBalance[u] - amount \in Nat
      /\ half \in Nat /\ radtHeld - half \in Nat /\ radt \in [Users -> Nat]
      /\ old \in Positions /\ old.totalVested \in Nat /\ now \in Nat /\ earlyPaid \in Nat
      /\ schedule \in [Users -> Schedules] /\ esBalance[u] \in Nat
  BY EscrowIsTyped, EsRADTAssumption DEF ExitEarly
<1>2. PICK new \in Positions : /\ new = Extended(old, amount)
                               /\ new.lastInteractionTime = now /\ new.VestPeriod # 0
                               /\ new.totalVested = old.totalVested + amount
  BY <1>1, ExtendedIsPosition
<1>3. PICK set \in Schedules : set = ScheduleOf(new) /\ OnSchedule(new, set)
  BY <1>1, <1>2, SetOnSchedule
<1>4. /\ userInfo' = [userInfo EXCEPT ![u] = new] /\ schedule' = [schedule EXCEPT ![u] = set]
      /\ esBalance' \in [Accounts -> Nat] /\ esBalance'[u] = esBalance[u] - amount
      /\ \A b \in Accounts \ {u} : esBalance'[b] = esBalance[b]
      /\ radt' = [radt EXCEPT ![u] = radt[u] + half]
      /\ radtHeld' = radtHeld - half /\ earlyPaid' = earlyPaid + half
      /\ UNCHANGED <<now, whitelist, burned>>
  BY <1>1, <1>2, <1>3 DEF ExitEarly
<1> HIDE DEF old, half
<1>5. Supply' \in Nat /\ Supply' = Supply - esBalance[u] + esBalance'[u]
  BY <1>1, <1>4, BalanceChanges
<1>6. (radtHeld' + earlyPaid') - (radtHeld + earlyPaid)
        = (Supply' + new.totalVested) - (Supply + userInfo[u].totalVested)
  BY <1>1, <1>2, <1>4, <1>5 DEF old
<1>7. radtHeld' \in Nat /\ earlyPaid' \in Nat /\ radt' \in [Users -> Nat]
  BY <1>1, <1>4
<1>8. calls' \in 0 .. MaxCalls
  BY CallCounts DEF ExitEarly
<1>9. new.lastInteractionTime <= now
  BY <1>1, <1>2
<1> QED
  BY <1>3, <1>4, <1>6, <1>7, <1>8, <1>9, PositionStep

\* Time alone and steps that are not about the escrow change nothing of it.
LEMMA PassingStep ==
  ASSUME EscrowInv, UNCHANGED escrow, now' \in 0 .. MaxTime, now' >= now, calls' \in 0 .. MaxCalls
  PROVE  EscrowInv'
<1>1. UNCHANGED <<esBalance, radt, radtHeld, whitelist, userInfo, schedule, earlyPaid, burned>>
  BY DEF escrow
<1>2. OnlyEarlyExitsAreUnbacked'
  BY <1>1 DEF EscrowInv, OnlyEarlyExitsAreUnbacked, Supply, Vesting
<1>3. OnAllSchedules'
  BY <1>1 DEF EscrowInv, OnAllSchedules, OnSchedule
<1>4. EscrowTypeOK'
  <2>1. \A u \in Users : userInfo[u].lastInteractionTime <= now'
    <3>1. ASSUME NEW u \in Users PROVE userInfo[u].lastInteractionTime <= now'
      <4>1. userInfo[u].lastInteractionTime \in Nat /\ userInfo[u].lastInteractionTime <= now
            /\ now \in Nat /\ now' \in Int
        BY EscrowIsTyped, EsRADTAssumption DEF Positions
      <4> QED
        BY <4>1
    <3> QED
      BY <3>1
  <2> QED
    BY <1>1, <2>1 DEF EscrowInv, EscrowTypeOK
<1> QED
  BY <1>2, <1>3, <1>4 DEF EscrowInv

LEMMA TickStep ==
  ASSUME EscrowInv, Tick
  PROVE  EscrowInv'
<1>1. now \in Nat /\ MaxTime \in Nat /\ now < MaxTime /\ now' = now + 1 /\ calls' = calls
      /\ UNCHANGED escrow
  BY EscrowIsTyped, EsRADTAssumption DEF Tick
<1>2. now' \in 0 .. MaxTime /\ now' >= now
  BY <1>1
<1>3. calls' \in 0 .. MaxCalls
  BY <1>1 DEF EscrowInv, EscrowTypeOK
<1> QED
  BY <1>1, <1>2, <1>3, PassingStep

\* The RADT that was locked at first backs the first balances.
LEMMA FirstSupply ==
  ASSUME EscrowInit
  PROVE  Supply = Locked * (Cardinality(Users) + 1)
<1> DEFINE n == Cardinality(Accounts)
           list == EnumerationOf(Accounts)
           even == [a \in Accounts |-> Locked]
           Row == [i \in 1 .. n |-> even[list[i]]]
           T == {m \in Nat : m <= n => SumTo(Row, m) = Locked * m}
<1>1. /\ IsFiniteSet(Accounts) /\ n \in Nat /\ n = Cardinality(Users) + 2
      /\ Cardinality(Users) \in Nat
      /\ Chef \in Accounts /\ Locked \in Nat
  BY AccountsAreFinite, EsRADTAssumption
<1>2. list \in [1 .. n -> Accounts] /\ Len(list) = n
  BY <1>1, EnumerationExists
<1>3. SumOver(even, list) = SumTo(Row, n)
  BY <1>2 DEF SumOver
<1> HIDE DEF list, n
<1>4. \A i \in 1 .. n : Row[i] = Locked
  BY <1>2
<1> HIDE DEF Row
<1>5. 0 \in T
  BY <1>1, SumToUnfolds
<1>6. ASSUME NEW m \in T PROVE m + 1 \in T
  <2>1. CASE m + 1 <= n
    <3>1. m \in Nat /\ SumTo(Row, m) = Locked * m /\ m + 1 \in 1 .. n
      BY <2>1, <1>1
    <3>2. SumTo(Row, m + 1) = SumTo(Row, m) + Row[m + 1]
      BY <3>1, SumToUnfolds
    <3>3. SumTo(Row, m + 1) = Locked * (m + 1)
      BY <1>1, <1>4, <3>1, <3>2
    <3> QED
      BY <3>1, <3>3
  <2>2. CASE ~(m + 1 <= n)
    BY <2>2
  <2> QED
    BY <2>1, <2>2
<1>7. T = Nat
  BY <1>5, <1>6, NatIndSet
<1>8. SumTo(Row, n) = Locked * n
  BY <1>1, <1>7
<1>9. /\ even \in [Accounts -> Nat] /\ even[Chef] = Locked
      /\ esBalance \in [Accounts -> Nat] /\ esBalance[Chef] = 0
      /\ \A a \in Accounts \ {Chef} : esBalance[a] = even[a]
  BY <1>1 DEF EscrowInit
<1> HIDE DEF even
<1>10. Supply = SumOver(even, list) - even[Chef] + esBalance[Chef]
  BY <1>1, <1>9, EntryChanges DEF Supply, list
<1>11. Locked * n = Locked * (Cardinality(Users) + 1) + Locked
  BY <1>1
<1>12. Locked * (Cardinality(Users) + 1) \in Nat
  BY <1>1
<1> QED
  BY <1>1, <1>3, <1>8, <1>9, <1>10, <1>11, <1>12

LEMMA InitEscrowInv == EscrowInit => EscrowInv
<1> SUFFICES ASSUME EscrowInit PROVE EscrowInv
  OBVIOUS
<1>1. EscrowTypeOK
  <2>1. [totalVested |-> 0, lastInteractionTime |-> 0, VestPeriod |-> 0] \in Positions
        /\ [amount |-> 0, start |-> 0, period |-> 0, claims |-> 0] \in Schedules
    BY DEF Positions, Schedules
  <2>2. userInfo \in [Users -> Positions] /\ schedule \in [Users -> Schedules]
        /\ \A u \in Users : userInfo[u].lastInteractionTime <= now
    BY <2>1 DEF EscrowInit
  <2>3. Cardinality(Users) + 1 \in Nat /\ Locked \in Nat /\ RADTFunds \in Nat
        /\ MaxTime \in Nat /\ MaxCalls \in Nat
    BY AccountsAreFinite, EsRADTAssumption
  <2>4. radtHeld \in Nat
    BY <2>3 DEF EscrowInit
  <2>5. esBalance \in [Accounts -> Nat] /\ radt \in [Users -> Nat]
    BY <2>3 DEF EscrowInit
  <2>6. whitelist \subseteq Accounts
    BY DEF EscrowInit, Accounts
  <2> QED
    BY <2>2, <2>3, <2>4, <2>5, <2>6 DEF EscrowTypeOK, EscrowInit
<1>2. OnAllSchedules
  BY DEF OnAllSchedules, OnSchedule, EscrowInit
<1>3. OnlyEarlyExitsAreUnbacked
  <2>1. Vesting = 0
    <3>1. Vestings \in [Users -> Nat] /\ \A u \in Users : Vestings[u] = 0
      BY DEF Vestings, EscrowInit
    <3> QED
      BY <3>1, AccountsAreFinite, SumOverAccounts DEF Vesting, Vestings
  <2>2. radtHeld \in Nat
    BY <1>1 DEF EscrowTypeOK
  <2>3. radtHeld = Supply /\ earlyPaid = 0 /\ burned = 0
    BY FirstSupply DEF EscrowInit
  <2> QED
    BY <2>1, <2>2, <2>3 DEF OnlyEarlyExitsAreUnbacked
<1> QED
  BY <1>1, <1>2, <1>3 DEF EscrowInv

LEMMA EscrowStep ==
  ASSUME EscrowInv, EscrowNext
  PROVE  EscrowInv'
<1>1. ASSUME NEW u \in Users, NEW amount \in Amounts,
             \/ \E to \in Accounts \ {u} : Transfer(u, to, amount)
             \/ Burn(u, amount)
             \/ Lock(u, amount)
      PROVE  EscrowInv'
  BY <1>1, TransferStep, BurnStep, LockStep
<1>2. ASSUME NEW u \in Users, NEW amount \in Amounts,
             \/ Vest(u, amount)
             \/ ExitWhitelisted(u, amount)
             \/ ExitEarly(u, amount)
      PROVE  EscrowInv'
  BY <1>2, VestStep, ExitWhitelistedStep, ExitEarlyStep
<1>3. ASSUME NEW u \in Users, ClaimVested(u)
      PROVE  EscrowInv'
  BY <1>3, ClaimVestedStep
<1>4. ASSUME NEW a \in Users \cup {Owner}, NEW value \in BOOLEAN, WhitelistAddress(a, value)
      PROVE  EscrowInv'
  BY <1>4, WhitelistStep
<1>5. ASSUME Tick PROVE EscrowInv'
  BY <1>5, TickStep
<1> QED
  BY <1>1, <1>2, <1>3, <1>4, <1>5 DEF EscrowNext
=============================================================================
