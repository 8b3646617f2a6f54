-------------------------------- MODULE DLPVault --------------------------------
(***************************************************************************)
(* The DLP vault of src/src/policies/DLPVault_Audit.sol.                   *)
(*                                                                         *)
(* The vault is an ERC-4626 vault over Radiant's DLP token.  Almost all of *)
(* its DLP is locked at Radiant's MultiFeeDistribution (MFD), so an exit   *)
(* cannot be paid at once: withdraw and redeem burn the shares and append  *)
(* an entry to a queue; _processWithdrawalQueue releases entries in order  *)
(* as locks expire; claim pays a released entry.                           *)
(*                                                                         *)
(* A transaction is one atomic action.  An internal function of the        *)
(* contract is an operator from a vault record to a vault record, and an   *)
(* external function chains them in the order of the code.  A revert is a  *)
(* false guard.  Amounts are naturals; 256-bit overflow is out of reach of *)
(* any DLP supply, but every subtraction that can underflow is a guard.    *)
(***************************************************************************)
EXTENDS Sums

CONSTANTS
    Users,          \* accounts that hold shares
    Admin,          \* the holder of role "admin"
    Treasury,       \* the TRSRY module, receiver of the fees
    Pool,           \* the Balancer pool that issues the DLP of harvested rewards
    Funds,          \* the DLP each account has at first; bounds all the DLP there is
    FeeRates,       \* the fee rates setFee is called with
    Caps,           \* the caps setVaultCap is called with
    Multiplier,     \* MULTIPLIER, 100% of a fee rate (1e6 in the code)
    ProcessLimit,   \* MAX_QUEUE_PROCESS_LIMIT (30 in the code)
    MinDLPBalance,  \* the bounty manager's minDLPBalance, the least stake MFD takes
    Amounts,        \* bound: the amounts callers pass
    Harvests,       \* bound: the DLP one compound() may yield
    MaxQueue,       \* bound: the entries ever queued
    MaxShares,      \* bound: the shares outstanding
    MaxBoost        \* bound: the DLP boosted

Accounts == Users \cup {Admin, Treasury, Pool}

ASSUME FundsAssumption == Funds \in [Accounts -> Nat]
ASSUME RatesAssumption == /\ Multiplier \in Nat \ {0}
                          /\ FeeRates \subseteq Nat
ASSUME AmountsAssumption == /\ Amounts \subseteq Nat
                            /\ Harvests \subseteq Nat
                            /\ Caps \subseteq Nat
ASSUME LimitsAssumption == /\ ProcessLimit \in Nat \ {0}
                           /\ MinDLPBalance \in Nat
                           /\ MaxQueue \in Nat
                           /\ MaxShares \in Nat
                           /\ MaxBoost \in Nat
ASSUME AccountsAssumption == /\ Admin # Treasury /\ Admin # Pool /\ Treasury # Pool
                             /\ {Admin, Treasury, Pool} \cap Users = {}
                             /\ IsFiniteSet(Users)

VARIABLES
    vault,   \* the contract's storage and its balances at DLP and MFD, see Vault
    shares,  \* balanceOf of the vault's own ERC-20 shares
    wallet,  \* DLP.balanceOf of every account but the vault
    fee,     \* [deposit, withdraw]; compoundFee only scales what Compounded harvests
    cap      \* vaultCap

vars == <<vault, shares, wallet, fee, cap>>

\* An element of withdrawalQueues; createdAt is never read and is left out.
QueueEntry == [assets : Nat, receiver : Accounts, isClaimed : BOOLEAN]

Vault == [dlp       : Nat,  \* DLP.balanceOf(vault)
          locked    : Nat,  \* MFD.totalBalance(vault), expired locks included
          expired   : Nat,  \* the part of locked whose lock time is over
          boosted   : Nat,  \* boostedDLP
          queued    : Nat,  \* queuedDLP
          claimable : Nat,  \* claimableDLP
          queue     : Seq(QueueEntry),  \* withdrawalQueues; entry i there is i + 1 here
          index     : Nat,  \* withdrawalQueueIndex, the number of released entries
          supply    : Nat]  \* totalSupply

Init ==
    /\ vault = [dlp |-> 0, locked |-> 0, expired |-> 0, boosted |-> 0, queued |-> 0,
                claimable |-> 0, queue |-> <<>>, index |-> 0, supply |-> 0]
    /\ shares = [a \in Accounts |-> 0]
    /\ wallet = Funds
    /\ fee = [deposit |-> 0, withdraw |-> 0]
    /\ cap = 0

---------------------------------------------------------------------------------
(* ERC-4626 pricing.  totalAssets reverts when it would be negative, and the   *)
(* conversions divide by it or by the supply.                                  *)

TotalAssets(v) == (v.locked + v.dlp) - (v.queued + v.boosted)

\* totalAssets, which a conversion reads only while there are shares, does not revert
Priced(v) == v.supply > 0 => TotalAssets(v) >= 0

\* assets can be turned into shares: no division by totalAssets = 0
Convertible(v, assets) == assets = 0 \/ v.supply = 0 \/ TotalAssets(v) > 0

MulDivDown(a, b, c) == (a * b) \div c

MulDivUp(a, b, c) == (a * b + (c - 1)) \div c

ToSharesDown(v, assets) ==
    IF assets = 0 \/ v.supply = 0 THEN assets
    ELSE MulDivDown(assets, v.supply, TotalAssets(v))

ToSharesUp(v, assets) ==
    IF assets = 0 \/ v.supply = 0 THEN assets
    ELSE MulDivUp(assets, v.supply, TotalAssets(v))

ToAssetsDown(v, amount) ==
    IF v.supply = 0 THEN amount ELSE MulDivDown(amount, TotalAssets(v), v.supply)

ToAssetsUp(v, amount) ==
    IF v.supply = 0 THEN amount ELSE MulDivUp(amount, TotalAssets(v), v.supply)

FeeOn(amount, rate) == MulDivDown(amount, rate, Multiplier)

---------------------------------------------------------------------------------
(* The internal functions.                                                     *)

AssetsOf(queue) == [i \in 1..Len(queue) |-> queue[i].assets]

\* What entries index + 1 .. index + k of the queue are owed together.
OwedToNext(v, k) ==
    SumTo(AssetsOf(v.queue), v.index + k) - SumTo(AssetsOf(v.queue), v.index)

\* The loop of _processWithdrawalQueue stops at the limit, at the end of the queue or
\* at the first entry that the unreserved DLP does not cover.
Releasable(v) ==
    {k \in 0..(Len(v.queue) - v.index) :
        k <= ProcessLimit /\ \A j \in 1..k : OwedToNext(v, j) <= v.dlp - v.claimable}

ProcessWithdrawalQueue(v) ==
    LET k == CHOOSE n \in Releasable(v) : \A m \in Releasable(v) : m <= n
    IN  [v EXCEPT !.claimable = @ + OwedToNext(v, k), !.index = @ + k]

StakeTokens(v, amount) ==
    IF amount < MinDLPBalance THEN v
    ELSE [v EXCEPT !.dlp = @ - amount, !.locked = @ + amount]

\* Mutated forms of StakeDLP: nothing is kept, or only what is reserved.
StakeAll(v) == StakeTokens(v, v.dlp)
StakeUnreserved(v) == StakeTokens(v, v.dlp - v.claimable)

StakeDLP(v) == IF v.dlp > v.queued THEN StakeTokens(v, v.dlp - v.queued) ELSE v

WithdrawExpiredLocks(v) ==
    [v EXCEPT !.dlp = @ + v.expired, !.locked = @ - v.expired, !.expired = 0]

\* compound(), where joining the pool with the harvested rewards yields DLP.  Rewards
\* are not harvested and exits are not released while there are no shares.
Compounded(v, harvest) ==
    IF v.supply = 0 THEN v
    ELSE StakeDLP(ProcessWithdrawalQueue(WithdrawExpiredLocks(
             [v EXCEPT !.dlp = @ + harvest])))

\* compound() does not revert: the pool can issue the harvest, and the subtraction of
\* claimableDLP in _processWithdrawalQueue does not underflow.
CanCompound(v, harvest) ==
    /\ harvest <= wallet[Pool]
    /\ v.supply = 0 => harvest = 0
    /\ v.supply > 0 => v.claimable <= v.dlp + harvest + v.expired

\* A mutated form of Enqueue, without queuedDLP += assets.
EnqueueUncounted(v, assets, receiver) ==
    [v EXCEPT !.queue = Append(@, [assets |-> assets, receiver |-> receiver,
                                   isClaimed |-> FALSE])]

\* queuedDLP += assets; withdrawalQueues.push(...)
Enqueue(v, assets, receiver) ==
    [v EXCEPT !.queued = @ + assets,
              !.queue = Append(@, [assets |-> assets, receiver |-> receiver,
                                   isClaimed |-> FALSE])]

\* A mutated form of Moved, which has read the receiver's balance before the debit.
MovedCached(balances, from, to, amount) ==
    LET credited == balances[to] + amount
    IN  [balances EXCEPT ![from] = @ - amount, ![to] = credited]

\* ERC-20 _transfer; the two accounts may be the same.
Moved(balances, from, to, amount) ==
    LET debited == [balances EXCEPT ![from] = @ - amount]
    IN  [debited EXCEPT ![to] = @ + amount]

---------------------------------------------------------------------------------
(* The external functions.                                                     *)

Compound(harvest) ==
    /\ vault.supply > 0
    /\ CanCompound(vault, harvest)
    /\ vault' = Compounded(vault, harvest)
    /\ wallet' = [wallet EXCEPT ![Pool] = @ - harvest]
    /\ UNCHANGED <<shares, fee, cap>>

Deposit(caller, receiver, assets, harvest) ==
    LET v == Compounded(vault, harvest)
        feeAssets == FeeOn(assets, fee.deposit)
        net == assets - feeAssets
        minted == ToSharesDown(v, net)
    IN  /\ CanCompound(vault, harvest)
        /\ assets <= wallet[caller]
        /\ TotalAssets(v) >= 0
        /\ TotalAssets(v) + net <= cap
        /\ Convertible(v, net)
        /\ minted > 0 /\ v.supply + minted <= MaxShares
        /\ vault' = StakeDLP([v EXCEPT !.dlp = @ + net, !.supply = @ + minted])
        /\ shares' = [shares EXCEPT ![receiver] = @ + minted]
        /\ wallet' = [wallet EXCEPT ![Pool] = @ - harvest, ![caller] = @ - assets,
                                    ![Treasury] = @ + feeAssets]
        /\ UNCHANGED <<fee, cap>>

\* The fee is charged in assets on top of the price of the shares minted, and in
\* shares out of the number asked for.
Mint(caller, receiver, amount, harvest) ==
    LET v == Compounded(vault, harvest)
        feeAssets == FeeOn(ToAssetsUp(v, amount), fee.deposit)
        minted == amount - ToSharesUp(v, feeAssets)
        price == ToAssetsUp(v, minted)
        bought == [v EXCEPT !.dlp = @ + price, !.supply = @ + minted]
    IN  /\ CanCompound(vault, harvest)
        /\ Priced(v)
        /\ Convertible(v, feeAssets)
        /\ minted > 0 /\ v.supply + minted <= MaxShares
        /\ feeAssets + price <= wallet[caller]
        /\ TotalAssets(bought) \in 0..cap
        /\ vault' = StakeDLP(bought)
        /\ shares' = [shares EXCEPT ![receiver] = @ + minted]
        /\ wallet' = [wallet EXCEPT ![Pool] = @ - harvest,
                                    ![caller] = @ - (feeAssets + price),
                                    ![Treasury] = @ + feeAssets]
        /\ UNCHANGED <<fee, cap>>

\* What withdraw and redeem share: the fee moves to the treasury as shares, the rest
\* is burned and queued.
Exit(v, owner, receiver, assets, burned, feeShares, harvest) ==
    /\ Len(v.queue) < MaxQueue
    /\ vault' = [Enqueue(v, assets, receiver) EXCEPT !.supply = @ - burned]
    /\ shares' = [Moved(shares, owner, Treasury, feeShares) EXCEPT ![owner] = @ - burned]
    /\ wallet' = [wallet EXCEPT ![Pool] = @ - harvest]
    /\ UNCHANGED <<fee, cap>>

Withdraw(owner, receiver, assets, harvest) ==
    LET v == Compounded(vault, harvest)
        feeShares == FeeOn(ToSharesUp(v, assets), fee.withdraw)
        net == assets - ToAssetsUp(v, feeShares)
        burned == ToSharesUp(v, net)
        held == shares[owner] - feeShares
    IN  /\ CanCompound(vault, harvest)
        /\ Priced(v)
        /\ Convertible(v, assets)
        /\ held >= 0
        /\ net >= 0
        /\ net <= ToAssetsDown(v, held)
        /\ burned <= held
        /\ Exit(v, owner, receiver, net, burned, feeShares, harvest)

Redeem(owner, receiver, amount, harvest) ==
    LET v == Compounded(vault, harvest)
        feeShares == FeeOn(amount, fee.withdraw)
        burned == amount - feeShares
    IN  /\ CanCompound(vault, harvest)
        /\ Priced(v)
        /\ amount <= shares[owner]
        /\ Exit(v, owner, receiver, ToAssetsDown(v, burned), burned, feeShares, harvest)

\* The effect of claim, whose checked subtractions revert on underflow.
PayEntry(i) ==
    LET entry == vault.queue[i]
    IN  /\ entry.assets <= vault.queued
        /\ entry.assets <= vault.claimable
        /\ entry.assets <= vault.dlp
        /\ vault' = [vault EXCEPT !.queue[i].isClaimed = TRUE,
                                  !.queued = @ - entry.assets,
                                  !.claimable = @ - entry.assets,
                                  !.dlp = @ - entry.assets]
        /\ wallet' = [wallet EXCEPT ![entry.receiver] = @ + entry.assets]
        /\ UNCHANGED <<shares, fee, cap>>

\* Mutated forms of Claim: an entry is paid again, or before it is released.
ClaimAgain(i) == i <= vault.index /\ PayEntry(i)
ClaimEarly(i) == ~vault.queue[i].isClaimed /\ PayEntry(i)

\* Anyone may call claim; the DLP goes to the receiver of the entry.
Claim(i) == i <= vault.index /\ ~vault.queue[i].isClaimed /\ PayEntry(i)

BoostDLP(amount) ==
    /\ amount <= wallet[Admin] /\ vault.boosted + amount <= MaxBoost
    /\ vault' = StakeTokens([vault EXCEPT !.dlp = @ + amount, !.boosted = @ + amount],
                            amount)
    /\ wallet' = [wallet EXCEPT ![Admin] = @ - amount]
    /\ UNCHANGED <<shares, fee, cap>>

\* Mutated forms of UnboostDLP: without its check, or without boostedDLP -= _amount.
UnboostTooMuch(amount) ==
    /\ Len(vault.queue) < MaxQueue
    /\ vault' = [Enqueue(vault, amount, Admin) EXCEPT !.boosted = @ - amount]
    /\ UNCHANGED <<shares, wallet, fee, cap>>
UnboostKeepsBoost(amount) ==
    /\ amount <= vault.boosted
    /\ Len(vault.queue) < MaxQueue
    /\ vault' = Enqueue(vault, amount, Admin)
    /\ UNCHANGED <<shares, wallet, fee, cap>>

UnboostDLP(amount) ==
    /\ amount <= vault.boosted
    /\ Len(vault.queue) < MaxQueue
    /\ vault' = [Enqueue(vault, amount, Admin) EXCEPT !.boosted = @ - amount]
    /\ UNCHANGED <<shares, wallet, fee, cap>>

\* withdrawTokens(DLP): whatever is not reserved for released entries goes to the admin.
WithdrawDLP ==
    LET v == ProcessWithdrawalQueue(vault)
    IN  /\ vault.claimable <= vault.dlp
        /\ vault' = [v EXCEPT !.dlp = v.claimable]
        /\ wallet' = [wallet EXCEPT ![Admin] = @ + (v.dlp - v.claimable)]
        /\ UNCHANGED <<shares, fee, cap>>

SetFee(deposit, withdraw) ==
    /\ deposit < Multiplier \div 2
    /\ withdraw < Multiplier \div 2
    /\ fee' = [deposit |-> deposit, withdraw |-> withdraw]
    /\ UNCHANGED <<vault, shares, wallet, cap>>

SetVaultCap(newCap) ==
    /\ cap' = newCap
    /\ UNCHANGED <<vault, shares, wallet, fee>>

\* transfer of the vault's ERC-20 shares
TransferShares(from, to, amount) ==
    /\ amount <= shares[from]
    /\ shares' = Moved(shares, from, to, amount)
    /\ UNCHANGED <<vault, wallet, fee, cap>>

\* Time passes at MFD: some more of the locked DLP may be withdrawn.
LocksExpire(amount) ==
    /\ amount > 0
    /\ vault.expired + amount <= vault.locked
    /\ vault' = [vault EXCEPT !.expired = @ + amount]
    /\ UNCHANGED <<shares, wallet, fee, cap>>

---------------------------------------------------------------------------------
Next ==
    \/ \E h \in Harvests : Compound(h)
    \/ \E u, r \in Users, a \in Amounts, h \in Harvests : Deposit(u, r, a, h)
    \/ \E u, r \in Users, a \in Amounts, h \in Harvests : Mint(u, r, a, h)
    \/ \E u, r \in Users, a \in Amounts, h \in Harvests : Withdraw(u, r, a, h)
    \/ \E u, r \in Users, a \in Amounts, h \in Harvests : Redeem(u, r, a, h)
    \/ \E i \in 1..Len(vault.queue) : Claim(i)
    \/ \E a \in Amounts : BoostDLP(a)
    \/ \E a \in Amounts : UnboostDLP(a)
    \/ WithdrawDLP
    \/ \E d, w \in FeeRates : SetFee(d, w)
    \/ \E c \in Caps : SetVaultCap(c)
    \/ \E u, r \in Users, a \in Amounts : TransferShares(u, r, a)
    \/ \E a \in Amounts : LocksExpire(a)

Spec == Init /\ [][Next]_vars

---------------------------------------------------------------------------------
(* Properties.                                                                 *)

WellFormed(v) == v \in Vault /\ v.index <= Len(v.queue) /\ v.expired <= v.locked

TypeOK ==
    /\ WellFormed(vault)
    /\ shares \in [Accounts -> Nat]
    /\ wallet \in [Accounts -> Nat]
    /\ fee \in [deposit : Nat, withdraw : Nat]
    /\ cap \in Nat

\* What entry i of the queue is still owed.
Due(queue) == [i \in 1..Len(queue) |-> IF queue[i].isClaimed THEN 0 ELSE queue[i].assets]

Accounted(v) ==
    /\ v.queued = SumTo(Due(v.queue), Len(v.queue))
    /\ v.claimable = SumTo(Due(v.queue), v.index)
    /\ \A i \in 1..Len(v.queue) : v.queue[i].isClaimed => i <= v.index

\* The two counters of the contract are the sums they stand for: queuedDLP is what all
\* unclaimed entries are owed, claimableDLP what the released ones among them are owed,
\* and no entry is claimed before it is released.  The counters are maintained by five
\* functions that never look at the queue as a whole.
QueueAccounting == Accounted(vault)

\* The DLP of every released entry is in the vault, neither staked again nor swept by
\* withdrawTokens: all claims succeed, in any order and whatever happens in between.
ClaimsPayable == vault.claimable <= vault.dlp

AccountList == EnumerationOf(Accounts)

\* totalSupply is the sum of all balances.  _burn lowers it unchecked because of this, and
\* the fee of an exit moves shares to the treasury between two reads of the balance.
SharesAddUp == vault.supply = SumOver(shares, AccountList)

\* No function but withdrawTokens(DLP) makes the vault owe more (to the queue and to the
\* treasury's boost) than it has, which would make totalAssets, and with it deposit,
\* mint, withdraw and redeem, revert for everyone.
OnlySweepBreaksBacking ==
    [][TotalAssets(vault) >= 0 /\ TotalAssets(vault)' < 0 => WithdrawDLP]_vars

\* The assets behind one share never fall, except by a sweep: rounding, fees and the
\* release and payment of exits never favour the caller over the remaining holders.
\* While TotalAssets is negative nobody can deposit or leave.
SharePriceNeverFalls ==
    [][ /\ vault.supply > 0 /\ vault'.supply > 0
        /\ ~WithdrawDLP
        => TotalAssets(vault)' * vault.supply >= TotalAssets(vault) * vault'.supply]_vars

\* DLP leaves the vault for a user only by the payment of an entry: exactly its assets,
\* to its receiver, and an entry is never rewritten or unclaimed.
PaymentsMatchEntries ==
    [][ /\ \A i \in 1..Len(vault.queue) :
            LET before == vault.queue[i]
                after == vault'.queue[i]
            IN  \/ after = before
                \/ /\ ~before.isClaimed
                   /\ after = [before EXCEPT !.isClaimed = TRUE]
                   /\ wallet' = [wallet EXCEPT ![before.receiver] = @ + before.assets]
                   /\ vault'.dlp = vault.dlp - before.assets
        /\ \A u \in Users : wallet'[u] > wallet[u] =>
              \E i \in 1..Len(vault.queue) : vault'.queue[i] # vault.queue[i] ]_vars

\* The vault's queue, read as tickets.
TicketView ==
    [i \in 1..Len(vault.queue) |->
        [assets   |-> vault.queue[i].assets,
         receiver |-> vault.queue[i].receiver,
         state    |-> IF vault.queue[i].isClaimed THEN "paid"
                      ELSE IF i <= vault.index THEN "payable" ELSE "waiting"]]

Tickets == INSTANCE WithdrawalTickets
             WITH Holders <- Users \cup {Admin}, Batch <- ProcessLimit,
                  tickets <- TicketView, owed <- vault.queued, reserved <- vault.claimable

\* The queue keeps the promise of WithdrawalTickets: exits are released in order, at most
\* MAX_QUEUE_PROCESS_LIMIT per call, each is paid once, none is lost or rewritten.
QueueIsTicketed == Tickets!TicketsSpec

\* Locks expire with time, and somebody calls compound again and again: it is public,
\* and every deposit, mint, withdraw and redeem calls it.
FairSpec ==
    /\ Spec
    /\ WF_vars(\E h \in Harvests : Compound(h))
    /\ WF_vars(\E a \in Amounts : LocksExpire(a))

\* Every exit is released in the end, as long as the vault has shareholders (compound
\* does nothing when it has none), owes no more than it has, and the admin does not go
\* on taking its DLP: deposits never relock what exits wait for.
ExitsAreReleased ==
    \/ []<><<WithdrawDLP>>_vars
    \/ \A i \in 1..MaxQueue :
          Len(vault.queue) >= i
             ~> (vault.index >= i \/ vault.supply = 0 \/ TotalAssets(vault) < 0)

\* What testClaim of test/DLPVault.t.sol takes for granted: an exit is released once the
\* locks have expired and compound is called.  Not so for the exit of the last holder.
ExitsSurviveLastHolder ==
    \/ []<><<WithdrawDLP>>_vars
    \/ \A i \in 1..MaxQueue :
          Len(vault.queue) >= i ~> (vault.index >= i \/ TotalAssets(vault) < 0)
=================================================================================
