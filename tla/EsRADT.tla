------------------------------- MODULE EsRADT -------------------------------
(***************************************************************************)
(* The escrowed token esRADT (src/src/policies/esRADT.sol).  RADT is       *)
(* locked for esRADT one to one; esRADT is vested back into RADT over      *)
(* vestingPeriod, claimed in parts on the way, or given up early.          *)
(*                                                                         *)
(* One action is one transaction; a transaction that reverts is an action  *)
(* whose guard fails.  Allowances are left out: who may spend has been     *)
(* approved.  The time is a variable of this module because positions      *)
(* vest by it.                                                             *)
(***************************************************************************)
EXTENDS Sums

CONSTANTS
  Users,          \* accounts that lock, vest and claim
  Owner,          \* the owner of the contracts
  Chef,           \* the rdLP staking contract, which pays in esRADT
  RADTFunds,      \* RADT each user has at first
  Locked,         \* what each user and the owner have locked at first
  vestingPeriod,  \* vestingPeriod, 200 days
  Amounts,        \* bound: the amounts of one transaction
  MaxTime,        \* bound: the last instant
  MaxCalls        \* bound: the transactions

Accounts == Users \cup {Owner, Chef}

ASSUME EsRADTAssumption ==
  /\ IsFiniteSet(Users) /\ Owner \notin Users /\ Chef \notin Users /\ Owner # Chef
  /\ RADTFunds \in Nat /\ Locked \in Nat
  /\ vestingPeriod \in Nat \ {0}
  /\ Amounts \subseteq Nat
  /\ MaxTime \in Nat /\ MaxCalls \in Nat

VARIABLES
  now,          \* block.timestamp
  esBalance,    \* [account]: esRADT
  radt,         \* [user]: RADT outside the contract
  radtHeld,     \* the contract's RADT
  whitelist,    \* accounts on the whitelist
  userInfo,     \* [user]: the vesting position
  (* History, read by the properties and by bounds only. *)
  schedule,     \* [user]: the position as it was last set, and the claims since
  earlyPaid,    \* RADT paid for early exits with the penalty
  burned,       \* esRADT burned for nothing
  calls         \* transactions so far

escrow == <<esBalance, radt, radtHeld, whitelist, userInfo, schedule, earlyPaid, burned>>
escrowVars == <<now, escrow, calls>>

Positions == [totalVested : Nat, lastInteractionTime : Nat, VestPeriod : Nat]
Schedules == [amount : Nat, start : Nat, period : Nat, claims : Nat]

Supply == SumOver(esBalance, EnumerationOf(Accounts))

EscrowInit ==
  /\ now = 0
  /\ esBalance = [a \in Accounts |-> IF a = Chef THEN 0 ELSE Locked]
  /\ radt = [u \in Users |-> RADTFunds]
  /\ radtHeld = Locked * (Cardinality(Users) + 1)
  /\ whitelist = {Owner}
  /\ userInfo = [u \in Users |-> [totalVested |-> 0, lastInteractionTime |-> 0, VestPeriod |-> 0]]
  /\ schedule = [u \in Users |-> [amount |-> 0, start |-> 0, period |-> 0, claims |-> 0]]
  /\ earlyPaid = 0 /\ burned = 0 /\ calls = 0

Call == calls < MaxCalls /\ calls' = calls + 1

-----------------------------------------------------------------------------
(* The token.                                                              *)

Moved(balance, from, to, amount) ==
  [a \in Accounts |-> balance[a] - (IF a = from THEN amount ELSE 0)
                                 + (IF a = to THEN amount ELSE 0)]

Transfer(from, to, amount) ==
  /\ Call
  /\ amount <= esBalance[from]
  /\ esBalance' = Moved(esBalance, from, to, amount)
  /\ UNCHANGED <<now, radt, radtHeld, whitelist, userInfo, schedule, earlyPaid, burned>>

Burn(u, amount) ==
  /\ Call
  /\ amount <= esBalance[u]
  /\ esBalance' = [esBalance EXCEPT ![u] = @ - amount]
  /\ burned' = burned + amount
  /\ UNCHANGED <<now, radt, radtHeld, whitelist, userInfo, schedule, earlyPaid>>

WhitelistAddress(a, value) ==
  /\ Call
  /\ (a \in whitelist) # value
  /\ whitelist' = IF value THEN whitelist \cup {a} ELSE whitelist \ {a}
  /\ UNCHANGED <<now, esBalance, radt, radtHeld, userInfo, schedule, earlyPaid, burned>>

Lock(u, amount) ==
  /\ Call
  /\ amount <= radt[u]
  /\ esBalance' = [esBalance EXCEPT ![u] = @ + amount]
  /\ radt' = [radt EXCEPT ![u] = @ - amount]
  /\ radtHeld' = radtHeld + amount
  /\ UNCHANGED <<now, whitelist, userInfo, schedule, earlyPaid, burned>>

-----------------------------------------------------------------------------
(* Vesting.                                                                *)

\* What has vested of a position since it was last touched.
VestedBy(position) ==
  (position.totalVested * (now - position.lastInteractionTime)) \div position.VestPeriod

\* More is put into a position; all of it vests over a whole period again.
Extended(position, amount) ==
  [totalVested |-> position.totalVested + amount, lastInteractionTime |-> now,
   VestPeriod |-> vestingPeriod]

\* The clock of a position starts again, for what is left of its period.
PutOff(position) == [position EXCEPT !.lastInteractionTime = now]

\* History: a position that was set now.
ScheduleOf(position) ==
  [amount |-> position.totalVested, start |-> now, period |-> position.VestPeriod,
   claims |-> 0]

Vest(u, amount) ==
  /\ Call
  /\ amount <= esBalance[u]
  /\ userInfo' = [userInfo EXCEPT ![u] = Extended(@, amount)]
  /\ schedule' = [schedule EXCEPT ![u] = ScheduleOf(Extended(userInfo[u], amount))]
  /\ esBalance' = [esBalance EXCEPT ![u] = @ - amount]
  /\ UNCHANGED <<now, radt, radtHeld, whitelist, earlyPaid, burned>>

\* What a claim takes out of a position, and the position it leaves.
Claimable(position) ==
  IF now - position.lastInteractionTime >= position.VestPeriod THEN position.totalVested
  ELSE VestedBy(position)

\* Mutated form of Claimed: what was paid stays in the position.
ClaimedKeeping(position) ==
  [position EXCEPT !.lastInteractionTime = now,
                   !.VestPeriod = IF now - position.lastInteractionTime >= @ THEN 0
                                  ELSE @ - (now - position.lastInteractionTime)]

\* Mutated form of Claimed: the clock is not started again.
ClaimedUnclocked(position) ==
  LET timePass == now - position.lastInteractionTime
  IN [position EXCEPT !.totalVested = @ - Claimable(position),
                      !.VestPeriod = IF timePass >= @ THEN 0 ELSE @ - timePass]

Claimed(position) ==
  LET timePass == now - position.lastInteractionTime
  IN [totalVested |-> position.totalVested - Claimable(position), lastInteractionTime |-> now,
      VestPeriod |-> IF timePass >= position.VestPeriod THEN 0
                     ELSE position.VestPeriod - timePass]

ClaimVested(u) ==
  LET claimable == Claimable(userInfo[u])
  IN /\ Call
     /\ userInfo[u].totalVested > 0
     /\ claimable <= radtHeld
     /\ userInfo' = [userInfo EXCEPT ![u] = Claimed(@)]
     /\ radt' = [radt EXCEPT ![u] = @ + claimable]
     /\ radtHeld' = radtHeld - claimable
     /\ schedule' = [schedule EXCEPT ![u].claims = @ + 1]
     /\ UNCHANGED <<now, esBalance, whitelist, earlyPaid, burned>>

\* exitEarly of a whitelisted account: RADT for esRADT, without a penalty.
ExitWhitelisted(u, amount) ==
  /\ Call
  /\ u \in whitelist
  /\ amount <= esBalance[u] /\ amount <= radtHeld
  /\ userInfo' = [userInfo EXCEPT ![u] = PutOff(@)]
  /\ schedule' = [schedule EXCEPT ![u] = ScheduleOf(PutOff(userInfo[u]))]
  /\ esBalance' = [esBalance EXCEPT ![u] = @ - amount]
  /\ radt' = [radt EXCEPT ![u] = @ + amount]
  /\ radtHeld' = radtHeld - amount
  /\ UNCHANGED <<now, whitelist, earlyPaid, burned>>

\* exitEarly of anybody else, who must have a position: half of the amount is
\* paid, and all of it vests besides.  (Without one nothing happens.)
ExitEarly(u, amount) ==
  LET claimable == amount \div 2
  IN /\ Call
     /\ u \notin whitelist
     /\ userInfo[u].VestPeriod # 0
     /\ amount <= esBalance[u] /\ claimable <= radtHeld
     /\ userInfo' = [userInfo EXCEPT ![u] = Extended(@, amount)]
     /\ schedule' = [schedule EXCEPT ![u] = ScheduleOf(Extended(userInfo[u], amount))]
     /\ esBalance' = [esBalance EXCEPT ![u] = @ - amount]
     /\ radt' = [radt EXCEPT ![u] = @ + claimable]
     /\ radtHeld' = radtHeld - claimable
     /\ earlyPaid' = earlyPaid + claimable
     /\ UNCHANGED <<now, whitelist, burned>>

Tick ==
  /\ now < MaxTime
  /\ now' = now + 1
  /\ UNCHANGED <<escrow, calls>>

EscrowNext ==
  \/ \E u \in Users :
       \/ \E amount \in Amounts :
            \/ \E to \in Accounts \ {u} : Transfer(u, to, amount)
            \/ Burn(u, amount)
            \/ Lock(u, amount)
            \/ Vest(u, amount)
            \/ ExitWhitelisted(u, amount)
            \/ ExitEarly(u, amount)
       \/ ClaimVested(u)
  \/ \E a \in Users \cup {Owner}, value \in BOOLEAN : WhitelistAddress(a, value)
  \/ Tick

-----------------------------------------------------------------------------
(* Properties.                                                             *)

EscrowTypeOK ==
  /\ now \in 0 .. MaxTime
  /\ esBalance \in [Accounts -> Nat]
  /\ radt \in [Users -> Nat] /\ radtHeld \in Nat
  /\ whitelist \subseteq Accounts
  /\ userInfo \in [Users -> Positions]
  /\ schedule \in [Users -> Schedules]
  /\ earlyPaid \in Nat /\ burned \in Nat /\ calls \in 0 .. MaxCalls
  /\ \A u \in Users : userInfo[u].lastInteractionTime <= now

Vesting == SumOver([u \in Users |-> userInfo[u].totalVested], EnumerationOf(Users))

\* Every esRADT and everything still vesting can be paid in RADT, except for as
\* much as early exits with the penalty were paid: exitEarly pays a half and
\* lets the whole vest (esRADT.sol:128-146), and nothing else, whatever is
\* locked, vested, claimed in parts or paid to stakers, takes RADT that
\* another holder is owed.
OnlyEarlyExitsAreUnbacked == radtHeld + earlyPaid = Supply + Vesting + burned

\* However often and whenever a position is claimed from, what is left of it
\* is what is left of its time, rounded up by less than one unit for every
\* claim: partial claims, which shorten VestPeriod and start the clock
\* again (esRADT.sol:103-126), come neither ahead of the schedule nor late.
ClaimsKeepTheSchedule ==
  \A u \in Users :
    LET position == userInfo[u]
        set == schedule[u]
    IN /\ position.VestPeriod # 0 =>
            position.lastInteractionTime + position.VestPeriod = set.start + set.period
       /\ set.amount * position.VestPeriod <= position.totalVested * set.period
       /\ position.totalVested * set.period <=
            set.amount * position.VestPeriod + set.claims * set.period
=============================================================================
