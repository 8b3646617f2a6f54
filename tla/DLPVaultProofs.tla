----------------------------- MODULE DLPVaultProofs -----------------------------
(***************************************************************************)
(* Safety of the DLP vault for every value of the constants.  Sound is the *)
(* part of the inductive invariant that the internal functions preserve:   *)
(* one lemma per internal function, from which the lemma of an external    *)
(* function follows by chaining them in the order of the code.             *)
(***************************************************************************)
EXTENDS DLPVault, SumsProofs

Sound(v) == WellFormed(v) /\ Accounted(v) /\ v.claimable <= v.dlp

\* What an entry is still owed is a natural, and never more than its assets.
LEMMA DueIsNat ==
  ASSUME NEW v, WellFormed(v)
  PROVE  /\ Len(v.queue) \in Nat /\ v.index \in 0..Len(v.queue)
         /\ \A i \in 1..Len(v.queue) : /\ v.queue[i] \in QueueEntry
                                       /\ Due(v.queue)[i] \in Nat
<1>1. v.queue \in Seq(QueueEntry) /\ v.index \in Nat /\ v.index <= Len(v.queue)
  BY DEF WellFormed, Vault
<1>2. Len(v.queue) \in Nat /\ v.index \in 0..Len(v.queue)
  BY <1>1
<1>3. ASSUME NEW i \in 1..Len(v.queue)
      PROVE  v.queue[i] \in QueueEntry /\ Due(v.queue)[i] \in Nat
  <2>1. v.queue[i] \in QueueEntry
    BY <1>1
  <2> QED BY <2>1 DEF Due, QueueEntry
<1> QED BY <1>2, <1>3

\* What is reserved for released entries is part of what is queued.
LEMMA ReservedIsQueued ==
  ASSUME NEW v, Sound(v)
  PROVE  v.claimable <= v.queued
<1> DEFINE d == Due(v.queue)
           n == Len(v.queue)
<1>1. n \in Nat /\ v.index \in 0..n /\ \A i \in 1..n : d[i] \in Nat
  BY DueIsNat DEF Sound
<1>2. v.queued = SumTo(d, n) /\ v.claimable = SumTo(d, v.index)
  BY DEF Sound, Accounted
<1> HIDE DEF d, n
<1>3. SumTo(d, v.index) <= SumTo(d, n)
  BY <1>1, SumToMonotone
<1> QED BY <1>2, <1>3

\* A vault whose queue and counters are another's is sound if its money covers them.
LEMMA SameQueueIsSound ==
  ASSUME NEW v, Sound(v), NEW w \in Vault,
         w.queue = v.queue, w.index = v.index,
         w.queued = v.queued, w.claimable = v.claimable,
         w.expired <= w.locked, w.claimable <= w.dlp
  PROVE  Sound(w)
BY DEF Sound, WellFormed, Accounted

\* Staking no more than is unreserved keeps the vault sound.
LEMMA StakeTokensIsSound ==
  ASSUME NEW v, Sound(v), NEW amount \in Nat, amount <= v.dlp - v.claimable
  PROVE  Sound(StakeTokens(v, amount)) /\ StakeTokens(v, amount).supply = v.supply
<1>1. CASE amount < MinDLPBalance
  BY <1>1 DEF StakeTokens
<1>2. CASE ~ (amount < MinDLPBalance)
  <2> DEFINE d == v.dlp - amount
             l == v.locked + amount
             w == [v EXCEPT !.dlp = d, !.locked = l]
  <2>1. /\ v \in Vault /\ v.expired <= l
        /\ d \in Nat /\ l \in Nat /\ v.claimable <= d
    <3>1. /\ v \in Vault /\ v.expired <= v.locked /\ v.claimable <= v.dlp
          /\ v.dlp \in Nat /\ v.locked \in Nat /\ v.expired \in Nat /\ v.claimable \in Nat
      BY DEF Sound, WellFormed, Vault
    <3> QED BY <3>1
  <2>2. /\ w \in Vault /\ w.queue = v.queue /\ w.index = v.index /\ w.queued = v.queued
        /\ w.claimable = v.claimable /\ w.expired <= w.locked /\ w.claimable <= w.dlp
        /\ w.supply = v.supply
    <3> HIDE DEF d, l
    <3> QED BY <2>1 DEF Vault
  <2>3. Sound(w)
    <3> HIDE DEF w
    <3> QED BY <2>2, SameQueueIsSound
  <2>4. StakeTokens(v, amount) = w
    BY <1>2 DEF StakeTokens
  <2> HIDE DEF w
  <2> QED BY <2>2, <2>3, <2>4
<1> QED BY <1>1, <1>2

\* _stakeDLP keeps everything that is queued, hence what is reserved.
LEMMA StakeDLPIsSound ==
  ASSUME NEW v, Sound(v)
  PROVE  Sound(StakeDLP(v)) /\ StakeDLP(v).supply = v.supply
<1>1. v.dlp \in Nat /\ v.queued \in Nat /\ v.claimable \in Nat
  BY DEF Sound, WellFormed, Vault
<1>2. v.claimable <= v.queued
  BY ReservedIsQueued
<1>3. CASE v.dlp > v.queued
  <2>1. v.dlp - v.queued \in Nat /\ v.dlp - v.queued <= v.dlp - v.claimable
    BY <1>1, <1>2, <1>3
  <2> QED BY <1>3, <2>1, StakeTokensIsSound DEF StakeDLP
<1>4. CASE ~ (v.dlp > v.queued)
  BY <1>4 DEF StakeDLP
<1> QED BY <1>3, <1>4

\* Entries that are not released are not claimed, so what the next k of them are owed is
\* what the counter of reserved DLP has to grow by.
LEMMA NextAreDue ==
  ASSUME NEW v, Sound(v), NEW k \in 0..(Len(v.queue) - v.index)
  PROVE  /\ OwedToNext(v, k) \in Nat
         /\ v.claimable + OwedToNext(v, k) = SumTo(Due(v.queue), v.index + k)
         /\ v.index + k \in 0..Len(v.queue)
<1> DEFINE d == Due(v.queue)
           a == AssetsOf(v.queue)
           n == Len(v.queue)
           i == v.index
<1>1. /\ n \in Nat /\ i \in 0..n /\ \A j \in 1..n : d[j] \in Nat /\ v.queue[j] \in QueueEntry
  BY DueIsNat DEF Sound
<1>2. \A j \in 1..n : a[j] \in Nat
  BY <1>1 DEF AssetsOf, QueueEntry
<1>3. \A j \in (i + 1)..n : d[j] = a[j]
  <2>1. ASSUME NEW j \in (i + 1)..n PROVE d[j] = a[j]
    <3>1. j \in 1..n /\ ~ (j <= i)
      BY <1>1
    <3>2. ~ v.queue[j].isClaimed
      BY <3>1 DEF Sound, Accounted
    <3> QED BY <3>1, <3>2 DEF Due, AssetsOf
  <2> QED BY <2>1
<1>4. v.claimable = SumTo(d, i) /\ OwedToNext(v, k) = SumTo(a, i + k) - SumTo(a, i)
  BY DEF Sound, Accounted, OwedToNext
<1> HIDE DEF d, a, n, i
<1>5. i + k \in 0..n /\ i \in 0..(i + k) /\ i + k \in Nat
  BY <1>1 DEF n, i
<1>6. SumTo(d, i + k) - SumTo(d, i) = SumTo(a, i + k) - SumTo(a, i)
  <2>1. \A j \in 1..(i + k) : d[j] \in Nat /\ a[j] \in Nat
    BY <1>1, <1>2, <1>5
  <2>2. \A j \in (i + 1)..(i + k) : d[j] = a[j]
    BY <1>3, <1>5, <1>1
  <2> QED BY <1>5, <2>1, <2>2, SumToAgreesBetween
<1>7. \A m \in 0..n : SumTo(d, m) \in Nat
  BY <1>1, SumToNat
<1>8. SumTo(a, i) <= SumTo(a, i + k)
  <2>1. \A j \in 1..(i + k) : a[j] \in Nat
    BY <1>1, <1>2, <1>5
  <2> QED BY <1>5, <2>1, SumToMonotone
<1>9. \A m \in 0..n : SumTo(a, m) \in Nat
  BY <1>1, <1>2, SumToNat
<1>10. SumTo(d, i) \in Nat /\ SumTo(d, i + k) \in Nat /\ SumTo(a, i) \in Nat /\ SumTo(a, i + k) \in Nat
  BY <1>1, <1>5, <1>7, <1>9
<1> QED BY <1>4, <1>5, <1>6, <1>8, <1>10 DEF d, n, i

\* w is v after the release of the next k entries, as far as the queue goes.
Released(v, w, k) ==
  /\ k \in 0..(Len(v.queue) - v.index) /\ k <= ProcessLimit
  /\ w.queue = v.queue /\ w.queued = v.queued
  /\ w.index = v.index + k /\ w.claimable = v.claimable + OwedToNext(v, k)

\* Releasing entries reserves exactly what they are owed, out of unreserved DLP.
LEMMA ProcessWithdrawalQueueIsSound ==
  ASSUME NEW v, Sound(v)
  PROVE  LET w == ProcessWithdrawalQueue(v)
         IN  /\ Sound(w)
             /\ w.dlp = v.dlp /\ w.queued = v.queued /\ w.supply = v.supply
             /\ \E k \in Nat : Released(v, w, k)
<1> DEFINE R == Releasable(v)
           k == CHOOSE n \in R : \A m \in R : m <= n
           w == [v EXCEPT !.claimable = @ + OwedToNext(v, k), !.index = @ + k]
<1>1. /\ v \in Vault /\ v.index \in 0..Len(v.queue) /\ Len(v.queue) \in Nat
      /\ v.expired <= v.locked /\ v.claimable <= v.dlp
      /\ v.claimable \in Nat /\ v.dlp \in Nat
  BY DueIsNat DEF Sound, WellFormed, Vault
<1>2. k \in R
  <2>1. Len(v.queue) - v.index \in Nat /\ R \subseteq 0..(Len(v.queue) - v.index)
    BY <1>1 DEF Releasable
  <2>2. 0 \in R
    BY <2>1, LimitsAssumption DEF Releasable
  <2> HIDE DEF R
  <2>3. \E n \in R : \A m \in R : m <= n
    BY <2>1, <2>2, GreatestExists
  <2> QED BY <2>3
<1> HIDE DEF k
<1>3. k \in 0..(Len(v.queue) - v.index) /\ \A j \in 1..k : OwedToNext(v, j) <= v.dlp - v.claimable
  BY <1>2 DEF Releasable
<1>4. OwedToNext(v, k) <= v.dlp - v.claimable
  <2>1. CASE k = 0
    <3>1. SumTo(AssetsOf(v.queue), v.index) \in Nat
      <4>1. \A j \in 1..Len(v.queue) : AssetsOf(v.queue)[j] \in Nat
        BY DueIsNat DEF Sound, AssetsOf, QueueEntry
      <4> QED BY <1>1, <4>1, SumToNat
    <3>2. OwedToNext(v, 0) = 0
      BY <1>1, <3>1 DEF OwedToNext
    <3> QED BY <1>1, <2>1, <3>2
  <2>2. CASE k # 0
    BY <1>1, <1>3, <2>2
  <2> QED BY <2>1, <2>2
<1>5. /\ OwedToNext(v, k) \in Nat
      /\ v.claimable + OwedToNext(v, k) = SumTo(Due(v.queue), v.index + k)
      /\ v.index + k \in 0..Len(v.queue)
  BY <1>3, NextAreDue
<1>6. /\ w \in Vault /\ w.queue = v.queue /\ w.queued = v.queued /\ w.dlp = v.dlp
      /\ w.index = v.index + k /\ w.claimable = v.claimable + OwedToNext(v, k)
      /\ w.supply = v.supply /\ w.expired = v.expired /\ w.locked = v.locked
  <2> DEFINE c == v.claimable + OwedToNext(v, k)
             x == v.index + k
  <2>1. c \in Nat /\ x \in Nat
    BY <1>1, <1>3, <1>5
  <2> HIDE DEF c, x
  <2>2. w = [v EXCEPT !.claimable = c, !.index = x]
    BY DEF c, x
  <2> HIDE DEF w
  <2>3. /\ w \in Vault /\ w.queue = v.queue /\ w.queued = v.queued /\ w.dlp = v.dlp
        /\ w.index = x /\ w.claimable = c
        /\ w.supply = v.supply /\ w.expired = v.expired /\ w.locked = v.locked
    BY <1>1, <2>1, <2>2 DEF Vault
  <2> QED BY <2>3 DEF c, x
<1> HIDE DEF w
<1>7. WellFormed(w)
  BY <1>1, <1>5, <1>6 DEF WellFormed
<1>8. Accounted(w)
  <2>1. \A j \in 1..Len(w.queue) : w.queue[j].isClaimed => j <= w.index
    BY <1>1, <1>3, <1>6 DEF Sound, Accounted
  <2> QED BY <1>5, <1>6, <2>1 DEF Sound, Accounted
<1>9. w.claimable <= w.dlp
  BY <1>1, <1>4, <1>5, <1>6
<1>10. ProcessWithdrawalQueue(v) = w
  BY DEF w, k, ProcessWithdrawalQueue
<1>11. Released(v, w, k) /\ k \in Nat
  BY <1>1, <1>2, <1>3, <1>6 DEF Released, Releasable
<1> QED BY <1>6, <1>7, <1>8, <1>9, <1>10, <1>11 DEF Sound

\* The MFD pays expired locks out to the vault.
LEMMA WithdrawExpiredLocksIsSound ==
  ASSUME NEW v, Sound(v)
  PROVE  LET w == WithdrawExpiredLocks(v)
         IN  Sound(w) /\ w.supply = v.supply
<1> DEFINE d == v.dlp + v.expired
           l == v.locked - v.expired
           w == [v EXCEPT !.dlp = d, !.locked = l, !.expired = 0]
<1>1. v \in Vault /\ d \in Nat /\ l \in Nat /\ v.claimable <= d
  <2>1. /\ v \in Vault /\ v.expired <= v.locked /\ v.claimable <= v.dlp
        /\ v.dlp \in Nat /\ v.locked \in Nat /\ v.expired \in Nat /\ v.claimable \in Nat
    BY DEF Sound, WellFormed, Vault
  <2> QED BY <2>1
<1>2. WithdrawExpiredLocks(v) = w
  BY DEF WithdrawExpiredLocks
<1>3. /\ w \in Vault /\ w.queue = v.queue /\ w.index = v.index /\ w.queued = v.queued
      /\ w.claimable = v.claimable /\ w.expired <= w.locked /\ w.claimable <= w.dlp
      /\ w.supply = v.supply
  <2> HIDE DEF d, l
  <2>1. w \in Vault
    BY <1>1 DEF Vault
  <2>2. /\ w.queue = v.queue /\ w.index = v.index /\ w.queued = v.queued
        /\ w.claimable = v.claimable /\ w.supply = v.supply
        /\ w.dlp = d /\ w.locked = l /\ w.expired = 0
    BY <1>1 DEF Vault
  <2> HIDE DEF w
  <2> QED BY <1>1, <2>1, <2>2
<1> HIDE DEF w
<1>4. Sound(w)
  BY <1>3, SameQueueIsSound
<1> QED BY <1>2, <1>3, <1>4

\* DLP the vault receives, and new shares, change nothing about its queue.
LEMMA ReceivingIsSound ==
  ASSUME NEW v, Sound(v), NEW amount \in Nat, NEW supply \in Nat
  PROVE  LET w == [v EXCEPT !.dlp = @ + amount, !.supply = supply]
         IN  Sound(w) /\ w.supply = supply
<1> DEFINE d == v.dlp + amount
           w == [v EXCEPT !.dlp = d, !.supply = supply]
<1>1. v \in Vault /\ d \in Nat /\ v.claimable <= d /\ v.expired <= v.locked
  <2>1. /\ v \in Vault /\ v.expired <= v.locked /\ v.claimable <= v.dlp
        /\ v.dlp \in Nat /\ v.claimable \in Nat
    BY DEF Sound, WellFormed, Vault
  <2> QED BY <2>1
<1>2. /\ w \in Vault /\ w.queue = v.queue /\ w.index = v.index /\ w.queued = v.queued
      /\ w.claimable = v.claimable /\ w.expired <= w.locked /\ w.claimable <= w.dlp
      /\ w.supply = supply
  <2> HIDE DEF d
  <2> QED BY <1>1 DEF Vault
<1>3. Sound(w)
  <2> HIDE DEF w
  <2> QED BY <1>2, SameQueueIsSound
<1> QED BY <1>2, <1>3

\* compound() keeps the vault sound whatever it harvests.
LEMMA CompoundedIsSound ==
  ASSUME NEW v, Sound(v), NEW harvest \in Nat
  PROVE  LET w == Compounded(v, harvest)
         IN  Sound(w) /\ w.supply = v.supply
<1>1. CASE v.supply = 0
  BY <1>1 DEF Compounded
<1>2. CASE v.supply # 0
  <2> DEFINE a == [v EXCEPT !.dlp = @ + harvest]
             b == WithdrawExpiredLocks(a)
             c == ProcessWithdrawalQueue(b)
  <2>1. v.supply \in Nat /\ v \in Vault
    BY DEF Sound, WellFormed, Vault
  <2>2. a = [v EXCEPT !.dlp = @ + harvest, !.supply = v.supply]
    BY <2>1 DEF Vault
  <2>3. Sound(a) /\ a.supply = v.supply
    <3> DEFINE r == [v EXCEPT !.dlp = @ + harvest, !.supply = v.supply]
    <3>1. Sound(r) /\ r.supply = v.supply
      BY <2>1, ReceivingIsSound
    <3> HIDE DEF r
    <3>2. a = r
      BY <2>2 DEF r
    <3> HIDE DEF a
    <3> QED BY <3>1, <3>2
  <2> HIDE DEF a
  <2>4. Sound(b) /\ b.supply = v.supply
    BY <2>3, WithdrawExpiredLocksIsSound
  <2> HIDE DEF b
  <2>5. Sound(c) /\ c.supply = v.supply
    BY <2>4, ProcessWithdrawalQueueIsSound
  <2> HIDE DEF c
  <2>6. Sound(StakeDLP(c)) /\ StakeDLP(c).supply = v.supply
    BY <2>5, StakeDLPIsSound
  <2>7. Compounded(v, harvest) = StakeDLP(c)
    BY <1>2 DEF Compounded, a, b, c
  <2> QED BY <2>6, <2>7
<1> QED BY <1>1, <1>2

\* A new entry is owed in full and is not reserved for.
LEMMA EnqueueIsSound ==
  ASSUME NEW v, Sound(v), NEW assets \in Nat, NEW receiver \in Accounts
  PROVE  LET w == Enqueue(v, assets, receiver)
         IN  /\ Sound(w) /\ w.supply = v.supply /\ w.boosted = v.boosted
             /\ w.dlp = v.dlp /\ w.claimable = v.claimable
<1> DEFINE e == [assets |-> assets, receiver |-> receiver, isClaimed |-> FALSE]
           q == Append(v.queue, e)
           o == v.queued + assets
           n == Len(v.queue)
           w == [v EXCEPT !.queued = o, !.queue = q]
<1>1. /\ v \in Vault /\ v.expired <= v.locked /\ v.claimable <= v.dlp
      /\ v.queue \in Seq(QueueEntry) /\ n \in Nat /\ v.index \in 0..n /\ v.queued \in Nat
      /\ \A i \in 1..n : v.queue[i] \in QueueEntry /\ Due(v.queue)[i] \in Nat
  BY DueIsNat DEF Sound, WellFormed, Vault
<1>2. e \in QueueEntry /\ e.assets = assets /\ ~ e.isClaimed
  BY DEF QueueEntry
<1>3. q \in Seq(QueueEntry) /\ Len(q) = n + 1
      /\ q[n + 1] = e /\ \A i \in 1..n : q[i] = v.queue[i]
  <2> HIDE DEF e
  <2> QED BY <1>1, <1>2
<1>4. o \in Nat
  BY <1>1
<1>5. /\ w \in Vault /\ w.queue = q /\ w.queued = o /\ w.index = v.index
      /\ w.claimable = v.claimable /\ w.dlp = v.dlp /\ w.supply = v.supply
      /\ w.expired = v.expired /\ w.locked = v.locked /\ w.boosted = v.boosted
  <2> HIDE DEF q, o
  <2> QED BY <1>1, <1>3, <1>4 DEF Vault
<1>6. Due(q)[n + 1] = assets /\ \A i \in 1..n : Due(q)[i] = Due(v.queue)[i]
  <2> HIDE DEF q
  <2> QED BY <1>1, <1>2, <1>3 DEF Due
<1>7. SumTo(Due(q), n + 1) = SumTo(Due(v.queue), n) + assets
  <2>1. SumTo(Due(q), n) = SumTo(Due(v.queue), n)
    <3> HIDE DEF q, n
    <3> QED BY <1>1, <1>6, SumToAgrees
  <2>2. SumTo(Due(q), n + 1) = SumTo(Due(q), n) + Due(q)[n + 1]
    <3> HIDE DEF q, n
    <3> QED BY <1>1, SumToUnfolds
  <2> HIDE DEF q, n
  <2> QED BY <1>6, <2>1, <2>2
<1>8. SumTo(Due(q), v.index) = SumTo(Due(v.queue), v.index)
  <2>1. \A i \in 1..v.index : Due(v.queue)[i] \in Nat /\ Due(v.queue)[i] = Due(q)[i]
    <3> HIDE DEF q, n
    <3> QED BY <1>1, <1>6
  <2> HIDE DEF q, n
  <2>2. v.index \in Nat
    BY <1>1
  <2> QED BY <2>1, <2>2, SumToAgrees
<1>9. Accounted(w)
  <2>1. \A i \in 1..Len(q) : q[i].isClaimed => i <= v.index
    <3>1. ASSUME NEW i \in 1..(n + 1), q[i].isClaimed PROVE i <= v.index
      <4>1. i # n + 1
        BY <1>2, <1>3, <3>1
      <4>2. i \in 1..n
        BY <1>1, <3>1, <4>1
      <4> QED BY <1>3, <3>1, <4>2 DEF Sound, Accounted
    <3> QED BY <1>3, <3>1
  <2>2. o = SumTo(Due(q), Len(q)) /\ v.claimable = SumTo(Due(q), v.index)
    BY <1>3, <1>7, <1>8 DEF Sound, Accounted
  <2> HIDE DEF w, q, o
  <2> QED BY <1>5, <2>1, <2>2 DEF Accounted
<1>10. WellFormed(w) /\ w.claimable <= w.dlp
  <2> HIDE DEF w, q
  <2> QED BY <1>1, <1>3, <1>5 DEF WellFormed
<1>11. Enqueue(v, assets, receiver) = w
  BY DEF Enqueue
<1> HIDE DEF w
<1> QED BY <1>5, <1>9, <1>10, <1>11 DEF Sound

\* Paying a released entry lowers both counters and the vault's DLP by what it is owed.
LEMMA PaymentIsSound ==
  ASSUME NEW v, Sound(v), NEW i \in 1..Len(v.queue),
         i <= v.index, ~ v.queue[i].isClaimed,
         v.queue[i].assets <= v.queued, v.queue[i].assets <= v.claimable,
         v.queue[i].assets <= v.dlp
  PROVE  Sound([v EXCEPT !.queue[i].isClaimed = TRUE,
                         !.queued = @ - v.queue[i].assets,
                         !.claimable = @ - v.queue[i].assets,
                         !.dlp = @ - v.queue[i].assets])
         /\ v.queue[i] \in QueueEntry
<1> DEFINE e == v.queue[i]
           q == [v.queue EXCEPT ![i].isClaimed = TRUE]
           o == v.queued - e.assets
           c == v.claimable - e.assets
           d == v.dlp - e.assets
           n == Len(v.queue)
           w == [v EXCEPT !.queue = q, !.queued = o, !.claimable = c, !.dlp = d]
<1>1. /\ v \in Vault /\ v.expired <= v.locked /\ v.claimable <= v.dlp
      /\ v.queue \in Seq(QueueEntry) /\ n \in Nat /\ v.index \in 0..n
      /\ v.queued \in Nat /\ v.claimable \in Nat /\ v.dlp \in Nat
      /\ \A j \in 1..n : v.queue[j] \in QueueEntry /\ Due(v.queue)[j] \in Nat
  BY DueIsNat DEF Sound, WellFormed, Vault
<1>2. e \in QueueEntry /\ e.assets \in Nat /\ o \in Nat /\ c \in Nat /\ d \in Nat /\ c <= d
  <2>1. e \in QueueEntry /\ e.assets \in Nat
    BY <1>1 DEF QueueEntry
  <2> HIDE DEF e
  <2> QED BY <1>1, <2>1 DEF e
<1>3. /\ q \in Seq(QueueEntry) /\ Len(q) = n
      /\ q[i].isClaimed /\ \A j \in 1..n : j # i => q[j] = v.queue[j]
  <2> DEFINE p == [e EXCEPT !.isClaimed = TRUE]
  <2>1. p \in QueueEntry /\ p.isClaimed = TRUE
    <3> HIDE DEF e
    <3> QED BY <1>2 DEF QueueEntry
  <2>2. q = [v.queue EXCEPT ![i] = p]
    OBVIOUS
  <2> HIDE DEF p, q
  <2> QED BY <1>1, <2>1, <2>2
<1>4. /\ w \in Vault /\ w.queue = q /\ w.queued = o /\ w.claimable = c /\ w.dlp = d
      /\ w.index = v.index /\ w.expired = v.expired /\ w.locked = v.locked
  <2> HIDE DEF q, o, c, d
  <2> QED BY <1>1, <1>2, <1>3 DEF Vault
<1>5. Due(q)[i] = 0 /\ Due(v.queue)[i] = e.assets
      /\ \A j \in 1..n : j # i => Due(q)[j] = Due(v.queue)[j]
  <2> HIDE DEF q
  <2> QED BY <1>1, <1>3 DEF Due
<1>6. \A j \in 1..n : Due(q)[j] \in Nat
  <2> HIDE DEF q, n
  <2> QED BY <1>1, <1>5
<1>7. \A m \in i..n : SumTo(Due(q), m) = SumTo(Due(v.queue), m) - e.assets
  <2> TAKE m \in i..n
  <2> HIDE DEF q, n
  <2>1. m \in Nat /\ i \in 1..m
    BY <1>1 DEF n
  <2>2. \A j \in 1..m : /\ Due(v.queue)[j] \in Nat /\ Due(q)[j] \in Nat
                        /\ j # i => Due(v.queue)[j] = Due(q)[j]
    BY <1>1, <1>5, <1>6, <2>1
  <2>3. SumTo(Due(q), m) = SumTo(Due(v.queue), m) - Due(v.queue)[i] + Due(q)[i]
    BY <2>1, <2>2, SumToChanges
  <2>4. SumTo(Due(v.queue), m) \in Nat
    <3>1. \A j \in 0..m : SumTo(Due(v.queue), j) \in Nat
      BY <2>1, <2>2, SumToNat
    <3> QED BY <2>1, <3>1
  <2> HIDE DEF e
  <2> QED BY <1>2, <1>5, <2>3, <2>4
<1>8. Accounted(w)
  <2>1. o = SumTo(Due(q), n) /\ c = SumTo(Due(q), v.index)
    <3>1. n \in i..n /\ v.index \in i..n
      <4> HIDE DEF n
      <4> QED BY <1>1 DEF n
    <3> HIDE DEF q, e
    <3> QED BY <3>1, <1>7 DEF Sound, Accounted
  <2>2. \A j \in 1..n : q[j].isClaimed => j <= v.index
    <3> HIDE DEF q
    <3> QED BY <1>3 DEF Sound, Accounted
  <2> HIDE DEF w, q, o, c, n
  <2> QED BY <1>3, <1>4, <2>1, <2>2 DEF Accounted
<1>9. WellFormed(w) /\ w.claimable <= w.dlp
  <2> HIDE DEF w, q, c, d
  <2> QED BY <1>1, <1>2, <1>3, <1>4 DEF WellFormed
<1>10. Sound(w)
  <2> HIDE DEF w
  <2> QED BY <1>8, <1>9 DEF Sound
<1> QED BY <1>2, <1>10

---------------------------------------------------------------------------------
\* A fee is never more than what it is charged on.
LEMMA FeeIsPart ==
  ASSUME NEW amount \in Nat, NEW rate \in Nat, rate <= Multiplier
  PROVE  FeeOn(amount, rate) \in 0..amount
<1>1. Multiplier \in Nat /\ Multiplier > 0
  BY RatesAssumption
<1>2. amount * rate \in Nat /\ amount * rate <= amount * Multiplier
  BY <1>1
<1>3. (amount * rate) \div Multiplier \in 0..amount
  BY <1>1, <1>2
<1> QED BY <1>3 DEF FeeOn, MulDivDown

\* The conversions return naturals wherever they do not revert.
LEMMA QuotientsAreNat ==
  ASSUME NEW a \in Nat, NEW b \in Nat, NEW c \in Nat, c > 0
  PROVE  MulDivDown(a, b, c) \in Nat /\ MulDivUp(a, b, c) \in Nat
<1>1. a * b \in Nat /\ a * b + (c - 1) \in Nat
  OBVIOUS
<1>2. \A x \in Nat : x \div c \in Nat
  OBVIOUS
<1> QED BY <1>1, <1>2 DEF MulDivDown, MulDivUp

LEMMA ConversionsAreNat ==
  ASSUME NEW v, v \in Vault, Priced(v), NEW x \in Nat
  PROVE  /\ ToAssetsDown(v, x) \in Nat /\ ToAssetsUp(v, x) \in Nat
         /\ Convertible(v, x) => ToSharesDown(v, x) \in Nat /\ ToSharesUp(v, x) \in Nat
<1>1. v.supply \in Nat /\ TotalAssets(v) \in Int
  BY DEF Vault, TotalAssets
<1>2. CASE v.supply = 0
  BY <1>2 DEF ToAssetsDown, ToAssetsUp, ToSharesDown, ToSharesUp
<1>3. CASE v.supply > 0
  <2>1. TotalAssets(v) \in Nat
    BY <1>1, <1>3 DEF Priced
  <2>2. MulDivDown(x, TotalAssets(v), v.supply) \in Nat /\ MulDivUp(x, TotalAssets(v), v.supply) \in Nat
    BY <1>1, <1>3, <2>1, QuotientsAreNat
  <2>3. TotalAssets(v) > 0 => /\ MulDivDown(x, v.supply, TotalAssets(v)) \in Nat
                              /\ MulDivUp(x, v.supply, TotalAssets(v)) \in Nat
    BY <1>1, <2>1, QuotientsAreNat
  <2> QED BY <1>1, <1>3, <2>2, <2>3
        DEF Convertible, ToAssetsDown, ToAssetsUp, ToSharesDown, ToSharesUp
<1> QED BY <1>1, <1>2, <1>3

\* Rounding down gives no more than the exact quotient, rounding up no less.
LEMMA QuotientsAreFair ==
  ASSUME NEW a \in Nat, NEW b \in Nat, NEW c \in Nat, c > 0
  PROVE  MulDivDown(a, b, c) * c <= a * b /\ MulDivUp(a, b, c) * c >= a * b
<1> DEFINE n == a * b
<1>1. n \in Nat
  OBVIOUS
<1> HIDE DEF n
<1>2. (n \div c) * c <= n
  BY <1>1
<1>3. ((n + (c - 1)) \div c) * c >= n
  <2> DEFINE m == n + (c - 1)
  <2>1. m \in Nat /\ m - n = c - 1
    BY <1>1
  <2> HIDE DEF m
  <2>2. m = c * (m \div c) + (m % c) /\ m % c \in 0..(c - 1)
    BY <2>1
  <2>3. c * (m \div c) >= n
    BY <1>1, <2>1, <2>2
  <2> QED BY <2>1, <2>3 DEF m
<1> QED BY <1>2, <1>3 DEF MulDivDown, MulDivUp, n

\* The conversions never favour the caller over the holders: shares bought are not dear
\* enough, shares sold not cheap enough, to lower what a share is worth.
LEMMA ConversionsAreFair ==
  ASSUME NEW v, v \in Vault, Priced(v), v.supply > 0, NEW x \in Nat
  PROVE  /\ ToAssetsDown(v, x) * v.supply <= x * TotalAssets(v)
         /\ ToAssetsUp(v, x) * v.supply >= x * TotalAssets(v)
         /\ Convertible(v, x) => /\ ToSharesDown(v, x) * TotalAssets(v) <= x * v.supply
                                 /\ ToSharesUp(v, x) * TotalAssets(v) >= x * v.supply
<1>1. v.supply \in Nat /\ v.supply > 0 /\ TotalAssets(v) \in Nat
  <2>1. v.supply \in Nat /\ TotalAssets(v) \in Int
    BY DEF Vault, TotalAssets
  <2> QED BY <2>1 DEF Priced
<1>2. /\ MulDivDown(x, TotalAssets(v), v.supply) * v.supply <= x * TotalAssets(v)
      /\ MulDivUp(x, TotalAssets(v), v.supply) * v.supply >= x * TotalAssets(v)
  BY <1>1, QuotientsAreFair
<1>3. TotalAssets(v) > 0 => /\ MulDivDown(x, v.supply, TotalAssets(v)) * TotalAssets(v)
                                 <= x * v.supply
                            /\ MulDivUp(x, v.supply, TotalAssets(v)) * TotalAssets(v)
                                 >= x * v.supply
  BY <1>1, QuotientsAreFair
<1>4. /\ ToAssetsDown(v, x) * v.supply <= x * TotalAssets(v)
      /\ ToAssetsUp(v, x) * v.supply >= x * TotalAssets(v)
  BY <1>1, <1>2 DEF ToAssetsDown, ToAssetsUp
<1>5. CASE x = 0
  <2>1. ToSharesDown(v, x) = 0 /\ ToSharesUp(v, x) = 0
    BY <1>5 DEF ToSharesDown, ToSharesUp
  <2>2. 0 * TotalAssets(v) = 0 /\ x * v.supply = 0
    BY <1>1, <1>5
  <2> QED BY <1>4, <2>1, <2>2
<1>6. CASE x # 0
  <2>1. Convertible(v, x) => TotalAssets(v) > 0
    BY <1>1, <1>6 DEF Convertible
  <2>2. /\ ToSharesDown(v, x) = MulDivDown(x, v.supply, TotalAssets(v))
        /\ ToSharesUp(v, x) = MulDivUp(x, v.supply, TotalAssets(v))
    BY <1>1, <1>6 DEF ToSharesDown, ToSharesUp
  <2> QED BY <1>3, <1>4, <2>1, <2>2
<1> QED BY <1>5, <1>6

\* Moving DLP or shares between accounts.
LEMMA Credited ==
  ASSUME NEW f \in [Accounts -> Nat], NEW a \in Accounts, NEW x \in Nat
  PROVE  LET g == [f EXCEPT ![a] = @ + x]
         IN  /\ g \in [Accounts -> Nat]
             /\ \A b \in Accounts : b # a => g[b] = f[b]
OBVIOUS

LEMMA Debited ==
  ASSUME NEW f \in [Accounts -> Nat], NEW a \in Accounts, NEW x \in Nat, x <= f[a]
  PROVE  LET g == [f EXCEPT ![a] = @ - x]
         IN  /\ g \in [Accounts -> Nat]
             /\ \A b \in Accounts : b # a => g[b] = f[b]
<1>1. f[a] - x \in Nat
  OBVIOUS
<1> QED BY <1>1

LEMMA AccountsAreFinite == IsFiniteSet(Accounts)
<1>1. IsFiniteSet({Admin, Treasury, Pool})
  <2>1. IsFiniteSet({})
    BY FS_EmptySet
  <2>2. IsFiniteSet({} \cup {Admin})
    BY <2>1, FS_AddElement
  <2>3. IsFiniteSet(({} \cup {Admin}) \cup {Treasury})
    BY <2>2, FS_AddElement
  <2>4. IsFiniteSet((({} \cup {Admin}) \cup {Treasury}) \cup {Pool})
    BY <2>3, FS_AddElement
  <2>5. (({} \cup {Admin}) \cup {Treasury}) \cup {Pool} = {Admin, Treasury, Pool}
    OBVIOUS
  <2> QED BY <2>4, <2>5
<1> QED BY <1>1, AccountsAssumption, FS_Union DEF Accounts

Total(f) == SumOver(f, AccountList)

\* A balance is part of the total, and the total follows each balance.
LEMMA TotalsFollow ==
  ASSUME NEW f \in [Accounts -> Nat]
  PROVE  /\ Total(f) \in Nat
         /\ \A a \in Accounts : f[a] <= Total(f)
         /\ \A a \in Accounts, x \in Nat : Total([f EXCEPT ![a] = x]) = Total(f) - f[a] + x
         /\ (\A a \in Accounts : f[a] = 0) => Total(f) = 0
BY AccountsAreFinite, SumOverAccounts DEF Total, AccountList

LEMMA CreditedTotal ==
  ASSUME NEW f \in [Accounts -> Nat], NEW a \in Accounts, NEW x \in Nat
  PROVE  Total([f EXCEPT ![a] = @ + x]) = Total(f) + x
<1> DEFINE y == f[a] + x
<1>1. y \in Nat /\ f[a] \in Nat
  OBVIOUS
<1>2. Total([f EXCEPT ![a] = y]) = Total(f) - f[a] + y /\ Total(f) \in Nat
  <2> HIDE DEF y
  <2> QED BY <1>1, TotalsFollow
<1>3. Total(f) - f[a] + y = Total(f) + x
  BY <1>1, <1>2
<1> QED BY <1>2, <1>3

LEMMA DebitedTotal ==
  ASSUME NEW f \in [Accounts -> Nat], NEW a \in Accounts, NEW x \in Nat, x <= f[a]
  PROVE  Total([f EXCEPT ![a] = @ - x]) = Total(f) - x
<1> DEFINE y == f[a] - x
<1>1. y \in Nat /\ f[a] \in Nat
  OBVIOUS
<1>2. Total([f EXCEPT ![a] = y]) = Total(f) - f[a] + y /\ Total(f) \in Nat
  <2> HIDE DEF y
  <2> QED BY <1>1, TotalsFollow
<1>3. Total(f) - f[a] + y = Total(f) - x
  BY <1>1, <1>2
<1> QED BY <1>2, <1>3

\* A transfer keeps the total.
LEMMA MovedTotal ==
  ASSUME NEW f \in [Accounts -> Nat], NEW a \in Accounts, NEW b \in Accounts,
         NEW x \in Nat, x <= f[a]
  PROVE  /\ Moved(f, a, b, x) \in [Accounts -> Nat]
         /\ Total(Moved(f, a, b, x)) = Total(f)
         /\ a # b => Moved(f, a, b, x)[a] = f[a] - x
<1> DEFINE d == [f EXCEPT ![a] = @ - x]
           g == [d EXCEPT ![b] = @ + x]
<1>1. d \in [Accounts -> Nat] /\ d[a] = f[a] - x
  BY Debited
<1>2. Total(d) = Total(f) - x /\ Total(f) \in Nat
  BY DebitedTotal, TotalsFollow
<1>3. Moved(f, a, b, x) = g
  BY DEF Moved
<1> HIDE DEF d
<1>4. g \in [Accounts -> Nat] /\ (a # b => g[a] = d[a])
  BY <1>1, Credited
<1>5. Total(g) = Total(d) + x
  BY <1>1, CreditedTotal
<1> HIDE DEF g
<1>6. Total(g) = Total(f)
  BY <1>2, <1>5
<1> QED BY <1>1, <1>3, <1>4, <1>6

---------------------------------------------------------------------------------
(* The inductive invariant.  A fee rate above 100% would make an exit's fee    *)
(* exceed what it is charged on; a balance above totalSupply would let _burn   *)
(* underflow.  The sum of the balances rules the second out.                   *)

FeesAreParts == fee.deposit <= Multiplier /\ fee.withdraw <= Multiplier

IInv == TypeOK /\ QueueAccounting /\ ClaimsPayable /\ SharesAddUp /\ FeesAreParts

\* What the invariant says, in the vocabulary of the lemmas.
LEMMA IInvMeans ==
  IInv <=> /\ Sound(vault)
           /\ shares \in [Accounts -> Nat] /\ wallet \in [Accounts -> Nat]
           /\ fee \in [deposit : Nat, withdraw : Nat] /\ cap \in Nat
           /\ vault.supply = Total(shares)
           /\ FeesAreParts
BY DEF IInv, TypeOK, QueueAccounting, ClaimsPayable, SharesAddUp, Sound, Total

\* The same after a step.
LEMMA IInvAfter ==
  ASSUME Sound(vault'),
         shares' \in [Accounts -> Nat], wallet' \in [Accounts -> Nat],
         fee' \in [deposit : Nat, withdraw : Nat], cap' \in Nat,
         vault'.supply = Total(shares)',
         FeesAreParts'
  PROVE  IInv'
BY DEF IInv, TypeOK, QueueAccounting, ClaimsPayable, SharesAddUp, Sound, Total

\* compound() has harvested what the pool could give.
LEMMA CompoundPrefix ==
  ASSUME IInv, NEW h \in Harvests, CanCompound(vault, h)
  PROVE  /\ h \in Nat
         /\ Sound(Compounded(vault, h)) /\ Compounded(vault, h).supply = vault.supply
         /\ [wallet EXCEPT ![Pool] = @ - h] \in [Accounts -> Nat]
         /\ \A b \in Accounts : b # Pool => [wallet EXCEPT ![Pool] = @ - h][b] = wallet[b]
<1>1. h \in Nat /\ h <= wallet[Pool] /\ Pool \in Accounts
  BY AmountsAssumption DEF CanCompound, Accounts
<1>2. Sound(vault) /\ wallet \in [Accounts -> Nat]
  BY IInvMeans
<1>3. Sound(Compounded(vault, h)) /\ Compounded(vault, h).supply = vault.supply
  BY <1>1, <1>2, CompoundedIsSound
<1>4. /\ [wallet EXCEPT ![Pool] = @ - h] \in [Accounts -> Nat]
      /\ \A b \in Accounts : b # Pool => [wallet EXCEPT ![Pool] = @ - h][b] = wallet[b]
  BY <1>1, <1>2, Debited
<1> QED BY <1>1, <1>3, <1>4

LEMMA InitIsGood == Init => IInv
<1> SUFFICES ASSUME Init PROVE IInv
  OBVIOUS
<1>1. WellFormed(vault) /\ vault.queue = <<>> /\ vault.queued = 0 /\ vault.claimable = 0
      /\ vault.dlp = 0 /\ vault.index = 0 /\ vault.supply = 0
  BY DEF Init, WellFormed, Vault
<1>2. SumTo(Due(vault.queue), 0) = 0 /\ Len(vault.queue) = 0
  BY <1>1, SumToUnfolds
<1>3. Sound(vault)
  BY <1>1, <1>2 DEF Sound, Accounted
<1>4. shares \in [Accounts -> Nat] /\ Total(shares) = 0
  <2>1. shares \in [Accounts -> Nat] /\ \A a \in Accounts : shares[a] = 0
    BY DEF Init
  <2> QED BY <2>1, TotalsFollow
<1>5. /\ wallet \in [Accounts -> Nat] /\ fee \in [deposit : Nat, withdraw : Nat]
      /\ cap \in Nat /\ FeesAreParts
  BY FundsAssumption, RatesAssumption DEF Init, FeesAreParts
<1> QED BY <1>1, <1>3, <1>4, <1>5, IInvMeans

LEMMA CompoundIsGood ==
  ASSUME IInv, NEW h \in Harvests, Compound(h)
  PROVE  IInv'
<1>1. CanCompound(vault, h) /\ vault' = Compounded(vault, h)
      /\ wallet' = [wallet EXCEPT ![Pool] = @ - h] /\ UNCHANGED <<shares, fee, cap>>
  BY DEF Compound
<1>2. Sound(vault') /\ vault'.supply = vault.supply /\ wallet' \in [Accounts -> Nat]
  BY <1>1, CompoundPrefix
<1>3. /\ shares' \in [Accounts -> Nat] /\ fee' \in [deposit : Nat, withdraw : Nat]
      /\ cap' \in Nat /\ vault.supply = Total(shares)' /\ FeesAreParts'
  BY <1>1, IInvMeans DEF FeesAreParts, Total
<1> QED BY <1>2, <1>3, IInvAfter

\* The vault's side of a purchase of shares, at the end of deposit and mint.
LEMMA PurchaseIsSound ==
  ASSUME NEW v, Sound(v), NEW assets \in Nat, NEW minted \in Nat
  PROVE  LET w == StakeDLP([v EXCEPT !.dlp = @ + assets, !.supply = @ + minted])
         IN  Sound(w) /\ w.supply = v.supply + minted
<1> DEFINE s == v.supply + minted
           x == [v EXCEPT !.dlp = @ + assets, !.supply = s]
<1>1. s \in Nat
  BY DEF Sound, WellFormed, Vault
<1>2. Sound(x) /\ x.supply = s
  <2> HIDE DEF s
  <2> QED BY <1>1, ReceivingIsSound
<1>3. [v EXCEPT !.dlp = @ + assets, !.supply = @ + minted] = x
  OBVIOUS
<1> HIDE DEF x
<1>4. Sound(StakeDLP(x)) /\ StakeDLP(x).supply = x.supply
  BY <1>2, StakeDLPIsSound
<1> QED BY <1>2, <1>3, <1>4

\* The buyer's side of it: the pool has paid the harvest, the buyer the assets, and the
\* treasury received the fee.
LEMMA PurchaseIsPaid ==
  ASSUME IInv, NEW h \in Harvests, CanCompound(vault, h), NEW caller \in Users,
         NEW price \in Nat, price <= wallet[caller], NEW charged \in Nat
  PROVE  [wallet EXCEPT ![Pool] = @ - h, ![caller] = @ - price, ![Treasury] = @ + charged]
            \in [Accounts -> Nat]
<1> DEFINE p == [wallet EXCEPT ![Pool] = @ - h]
           d == [p EXCEPT ![caller] = @ - price]
           c == [d EXCEPT ![Treasury] = @ + charged]
<1>1. /\ caller \in Accounts /\ Treasury \in Accounts /\ Pool \in Accounts
      /\ caller # Pool /\ Treasury # Pool /\ caller # Treasury
  BY AccountsAssumption DEF Accounts
<1>2. p \in [Accounts -> Nat] /\ p[caller] = wallet[caller]
  BY <1>1, CompoundPrefix
<1>3. [wallet EXCEPT ![Pool] = @ - h, ![caller] = @ - price, ![Treasury] = @ + charged] = c
  <2>1. wallet \in [Accounts -> Nat]
    BY IInvMeans
  <2> QED BY <1>1, <2>1
<1> HIDE DEF p
<1>4. d \in [Accounts -> Nat]
  BY <1>1, <1>2, Debited
<1> HIDE DEF d
<1>5. c \in [Accounts -> Nat]
  BY <1>1, <1>4, Credited
<1> QED BY <1>3, <1>5

\* Shares minted to a receiver.
LEMMA MintedShares ==
  ASSUME IInv, NEW receiver \in Users, NEW minted \in Nat
  PROVE  /\ [shares EXCEPT ![receiver] = @ + minted] \in [Accounts -> Nat]
         /\ Total([shares EXCEPT ![receiver] = @ + minted]) = vault.supply + minted
<1>1. receiver \in Accounts
  BY DEF Accounts
<1>2. shares \in [Accounts -> Nat] /\ vault.supply = Total(shares)
  BY IInvMeans
<1>3. [shares EXCEPT ![receiver] = @ + minted] \in [Accounts -> Nat]
  BY <1>1, <1>2, Credited
<1> QED BY <1>1, <1>2, <1>3, CreditedTotal

LEMMA TotalAssetsIsInt ==
  ASSUME NEW v, v \in Vault
  PROVE  /\ v.dlp \in Nat /\ v.locked \in Nat /\ v.expired \in Nat
         /\ v.queued \in Nat /\ v.boosted \in Nat /\ v.supply \in Nat
         /\ TotalAssets(v) \in Int
<1>1. /\ v.dlp \in Nat /\ v.locked \in Nat /\ v.expired \in Nat
      /\ v.queued \in Nat /\ v.boosted \in Nat /\ v.supply \in Nat
  BY DEF Vault
<1> QED BY <1>1 DEF TotalAssets


\* What deposit and mint share: the caller pays for the shares minted, at a price that is
\* not below what they are worth, and what is charged for the treasury.
Purchase(v, caller, receiver, price, minted, charged, h) ==
  /\ v.supply > 0 => /\ TotalAssets(v) >= 0
                     /\ minted * TotalAssets(v) <= price * v.supply
  /\ price + charged <= wallet[caller]
  /\ vault' = StakeDLP([v EXCEPT !.dlp = @ + price, !.supply = @ + minted])
  /\ shares' = [shares EXCEPT ![receiver] = @ + minted]
  /\ wallet' = [wallet EXCEPT ![Pool] = @ - h, ![caller] = @ - (price + charged),
                              ![Treasury] = @ + charged]
  /\ UNCHANGED <<fee, cap>>

LEMMA DepositBuys ==
  ASSUME IInv, NEW caller \in Users, NEW receiver \in Users, NEW assets \in Amounts,
         NEW h \in Harvests, Deposit(caller, receiver, assets, h)
  PROVE  /\ CanCompound(vault, h)
         /\ \E price, minted, charged \in Nat :
               Purchase(Compounded(vault, h), caller, receiver, price, minted, charged, h)
<1> DEFINE v == Compounded(vault, h)
           feeAssets == FeeOn(assets, fee.deposit)
           net == assets - feeAssets
           minted == ToSharesDown(v, net)
<1>1. /\ CanCompound(vault, h) /\ assets <= wallet[caller] /\ TotalAssets(v) >= 0
      /\ Convertible(v, net)
      /\ vault' = StakeDLP([v EXCEPT !.dlp = @ + net, !.supply = @ + minted])
      /\ shares' = [shares EXCEPT ![receiver] = @ + minted]
      /\ wallet' = [wallet EXCEPT ![Pool] = @ - h, ![caller] = @ - assets,
                                  ![Treasury] = @ + feeAssets]
      /\ UNCHANGED <<fee, cap>>
  BY DEF Deposit
<1>2. v \in Vault
  BY <1>1, CompoundPrefix DEF Sound, WellFormed
<1>3. fee.deposit \in Nat /\ fee.deposit <= Multiplier
  BY IInvMeans DEF FeesAreParts
<1>4. feeAssets \in Nat /\ net \in Nat /\ net + feeAssets = assets
  <2>1. assets \in Nat
    BY AmountsAssumption
  <2>2. feeAssets \in 0..assets
    BY <1>3, <2>1, FeeIsPart
  <2> HIDE DEF feeAssets
  <2> QED BY <2>1, <2>2
<1> HIDE DEF v, feeAssets, net
<1>5. minted \in Nat
  BY <1>1, <1>2, <1>4, ConversionsAreNat DEF Priced
<1>6. v.supply > 0 => minted * TotalAssets(v) <= net * v.supply
  BY <1>1, <1>2, <1>4, ConversionsAreFair DEF Priced
<1> HIDE DEF minted
<1>7. Purchase(v, caller, receiver, net, minted, feeAssets, h)
  BY <1>1, <1>4, <1>6 DEF Purchase
<1> QED BY <1>1, <1>4, <1>5, <1>7 DEF v

LEMMA MintBuys ==
  ASSUME IInv, NEW caller \in Users, NEW receiver \in Users, NEW amount \in Amounts,
         NEW h \in Harvests, Mint(caller, receiver, amount, h)
  PROVE  /\ CanCompound(vault, h)
         /\ \E price, minted, charged \in Nat :
               Purchase(Compounded(vault, h), caller, receiver, price, minted, charged, h)
<1> DEFINE v == Compounded(vault, h)
           feeAssets == FeeOn(ToAssetsUp(v, amount), fee.deposit)
           minted == amount - ToSharesUp(v, feeAssets)
           price == ToAssetsUp(v, minted)
<1>1. /\ CanCompound(vault, h) /\ Priced(v) /\ Convertible(v, feeAssets) /\ minted > 0
      /\ feeAssets + price <= wallet[caller]
      /\ vault' = StakeDLP([v EXCEPT !.dlp = @ + price, !.supply = @ + minted])
      /\ shares' = [shares EXCEPT ![receiver] = @ + minted]
      /\ wallet' = [wallet EXCEPT ![Pool] = @ - h, ![caller] = @ - (feeAssets + price),
                                  ![Treasury] = @ + feeAssets]
      /\ UNCHANGED <<fee, cap>>
  BY DEF Mint
<1>2. v \in Vault
  BY <1>1, CompoundPrefix DEF Sound, WellFormed
<1>3. fee.deposit \in Nat /\ fee.deposit <= Multiplier
  BY IInvMeans DEF FeesAreParts
<1> HIDE DEF v
<1>4. amount \in Nat /\ feeAssets \in Nat
  <2>1. amount \in Nat
    BY AmountsAssumption
  <2> DEFINE basis == ToAssetsUp(v, amount)
  <2>2. basis \in Nat
    BY <1>1, <1>2, <2>1, ConversionsAreNat
  <2> HIDE DEF basis
  <2>3. FeeOn(basis, fee.deposit) \in 0..basis
    BY <1>3, <2>2, FeeIsPart
  <2> QED BY <2>1, <2>2, <2>3 DEF basis
<1> HIDE DEF feeAssets
<1>5. minted \in Nat
  <2>1. ToSharesUp(v, feeAssets) \in Nat
    BY <1>1, <1>2, <1>4, ConversionsAreNat
  <2> QED BY <1>1, <1>4, <2>1
<1> HIDE DEF minted
<1>6. price \in Nat
  BY <1>1, <1>2, <1>5, ConversionsAreNat
<1>7. v.supply > 0 => /\ TotalAssets(v) >= 0
                      /\ minted * TotalAssets(v) <= price * v.supply
  <2> SUFFICES ASSUME v.supply > 0
               PROVE  TotalAssets(v) >= 0 /\ minted * TotalAssets(v) <= price * v.supply
    OBVIOUS
  <2>1. TotalAssets(v) >= 0
    BY <1>1 DEF Priced
  <2>2. price * v.supply >= minted * TotalAssets(v)
    BY <1>1, <1>2, <1>5, ConversionsAreFair
  <2>3. price * v.supply \in Int /\ minted * TotalAssets(v) \in Int
    <3>1. v.supply \in Nat /\ TotalAssets(v) \in Int
      BY <1>2, TotalAssetsIsInt
    <3> HIDE DEF price
    <3> QED BY <1>5, <1>6, <3>1
  <2> HIDE DEF price
  <2> QED BY <2>1, <2>2, <2>3
<1> HIDE DEF price
<1>8. feeAssets + price = price + feeAssets
  BY <1>4, <1>6
<1>9. Purchase(v, caller, receiver, price, minted, feeAssets, h)
  BY <1>1, <1>7, <1>8 DEF Purchase
<1> QED BY <1>1, <1>4, <1>5, <1>6, <1>9 DEF v

LEMMA PurchaseIsGood ==
  ASSUME IInv, NEW caller \in Users, NEW receiver \in Users, NEW h \in Harvests,
         CanCompound(vault, h),
         NEW price \in Nat, NEW minted \in Nat, NEW charged \in Nat,
         Purchase(Compounded(vault, h), caller, receiver, price, minted, charged, h)
  PROVE  IInv'
<1> DEFINE v == Compounded(vault, h)
<1>1. /\ price + charged <= wallet[caller]
      /\ vault' = StakeDLP([v EXCEPT !.dlp = @ + price, !.supply = @ + minted])
      /\ shares' = [shares EXCEPT ![receiver] = @ + minted]
      /\ wallet' = [wallet EXCEPT ![Pool] = @ - h, ![caller] = @ - (price + charged),
                                  ![Treasury] = @ + charged]
      /\ UNCHANGED <<fee, cap>>
  BY DEF Purchase
<1>2. Sound(v) /\ v.supply = vault.supply
  BY CompoundPrefix
<1> HIDE DEF v
<1>3. Sound(vault') /\ vault'.supply = vault.supply + minted
  BY <1>1, <1>2, PurchaseIsSound
<1>4. shares' \in [Accounts -> Nat] /\ Total(shares') = vault.supply + minted
  BY <1>1, MintedShares
<1>5. wallet' \in [Accounts -> Nat]
  <2> DEFINE paid == price + charged
  <2>1. paid \in Nat /\ paid <= wallet[caller]
    BY <1>1
  <2>2. wallet' = [wallet EXCEPT ![Pool] = @ - h, ![caller] = @ - paid, ![Treasury] = @ + charged]
    BY <1>1
  <2> HIDE DEF paid
  <2> QED BY <2>1, <2>2, PurchaseIsPaid
<1>6. fee' \in [deposit : Nat, withdraw : Nat] /\ cap' \in Nat /\ FeesAreParts'
  BY <1>1, IInvMeans DEF FeesAreParts
<1>7. Total(shares)' = Total(shares')
  BY DEF Total
<1> QED BY <1>3, <1>4, <1>5, <1>6, <1>7, IInvAfter

LEMMA DepositIsGood ==
  ASSUME IInv, NEW caller \in Users, NEW receiver \in Users, NEW assets \in Amounts,
         NEW h \in Harvests, Deposit(caller, receiver, assets, h)
  PROVE  IInv'
BY DepositBuys, PurchaseIsGood

LEMMA MintIsGood ==
  ASSUME IInv, NEW caller \in Users, NEW receiver \in Users, NEW amount \in Amounts,
         NEW h \in Harvests, Mint(caller, receiver, amount, h)
  PROVE  IInv'
BY MintBuys, PurchaseIsGood

\* What some of the shares redeem for is covered by what all of them are worth.
LEMMA PartIsBacked ==
  ASSUME NEW v, v \in Vault, TotalAssets(v) >= 0, NEW x \in 0..v.supply
  PROVE  ToAssetsDown(v, x) \in 0..TotalAssets(v)
<1> DEFINE t == TotalAssets(v)
           s == v.supply
<1>1. s \in Nat /\ t \in Nat /\ x \in Nat /\ x <= s
  BY TotalAssetsIsInt
<1>2. CASE s = 0
  BY <1>1, <1>2 DEF ToAssetsDown
<1>3. CASE s # 0
  <2> HIDE DEF s, t
  <2>1. x * t \in Nat /\ s * t \in Nat /\ x * t <= s * t
    BY <1>1
  <2> DEFINE n == x * t
  <2> HIDE DEF n
  <2>2. n \in Nat /\ n <= s * t
    BY <2>1 DEF n
  <2>3. n \div s \in 0..t
    BY <1>1, <1>3, <2>2
  <2>4. ToAssetsDown(v, x) = n \div s
    BY <1>3 DEF ToAssetsDown, MulDivDown, n, s, t
  <2> QED BY <2>3, <2>4 DEF t
<1> QED BY <1>2, <1>3
\* What is promised for burned shares is covered by the assets, while the vault is backed,
\* and is not above what the shares are worth.
FairExit(v, paid, burned) ==
  /\ TotalAssets(v) >= 0 => paid <= TotalAssets(v)
  /\ v.supply > 0 => paid * v.supply <= burned * TotalAssets(v)
  /\ burned <= v.supply

\* withdraw and redeem end in a fair exit that the owner's shares cover.
LEMMA WithdrawExits ==
  ASSUME IInv, NEW owner \in Users, NEW receiver \in Users, NEW assets \in Amounts,
         NEW h \in Harvests, Withdraw(owner, receiver, assets, h)
  PROVE  /\ CanCompound(vault, h)
         /\ \E paid, burned, feeShares \in Nat :
               /\ feeShares <= shares[owner] /\ burned <= shares[owner] - feeShares
               /\ FairExit(Compounded(vault, h), paid, burned)
               /\ Exit(Compounded(vault, h), owner, receiver, paid, burned, feeShares, h)
<1> DEFINE v == Compounded(vault, h)
           feeShares == FeeOn(ToSharesUp(v, assets), fee.withdraw)
           net == assets - ToAssetsUp(v, feeShares)
           burned == ToSharesUp(v, net)
<1>1. /\ CanCompound(vault, h) /\ Priced(v) /\ Convertible(v, assets)
      /\ shares[owner] - feeShares >= 0 /\ net >= 0
      /\ net <= ToAssetsDown(v, shares[owner] - feeShares)
      /\ burned <= shares[owner] - feeShares
      /\ Exit(v, owner, receiver, net, burned, feeShares, h)
  BY DEF Withdraw
<1>2. v \in Vault /\ v.supply = vault.supply /\ v.supply \in Nat
  <2>1. v \in Vault /\ v.supply = vault.supply
    BY <1>1, CompoundPrefix DEF Sound, WellFormed
  <2> HIDE DEF v
  <2> QED BY <2>1, TotalAssetsIsInt
<1>3. shares[owner] \in Nat /\ shares[owner] <= vault.supply
  BY IInvMeans, TotalsFollow DEF Accounts
<1>4. fee.withdraw \in Nat /\ fee.withdraw <= Multiplier
  BY IInvMeans DEF FeesAreParts
<1>5. assets \in Nat
  BY AmountsAssumption
<1>6. feeShares \in Nat
  <2> HIDE DEF v
  <2> DEFINE basis == ToSharesUp(v, assets)
  <2>1. basis \in Nat
    BY <1>1, <1>2, <1>5, ConversionsAreNat
  <2> HIDE DEF basis
  <2>2. FeeOn(basis, fee.withdraw) \in 0..basis
    BY <1>4, <2>1, FeeIsPart
  <2> QED BY <2>1, <2>2 DEF basis
<1> HIDE DEF feeShares
<1>7. net \in Nat /\ net <= assets
  <2> HIDE DEF v
  <2>1. ToAssetsUp(v, feeShares) \in Nat
    BY <1>1, <1>2, <1>6, ConversionsAreNat
  <2> QED BY <1>1, <1>5, <2>1
<1> HIDE DEF net
<1>8. burned \in Nat
  <2> HIDE DEF v
  <2>1. Convertible(v, net)
    <3>1. TotalAssets(v) \in Int
      BY <1>2 DEF Vault, TotalAssets
    <3> QED BY <1>1, <1>5, <1>7, <3>1 DEF Convertible
  <2> QED BY <1>1, <1>2, <1>7, <2>1, ConversionsAreNat
<1> HIDE DEF burned
<1>9. feeShares <= shares[owner]
  BY <1>1, <1>3, <1>6
<1> HIDE DEF v
<1>11. TotalAssets(v) >= 0 => net <= TotalAssets(v)
  <2> DEFINE held == shares[owner] - feeShares
  <2>1. net <= ToAssetsDown(v, held)
    BY <1>1
  <2>2. held \in 0..v.supply
    BY <1>2, <1>3, <1>6, <1>9
  <2> HIDE DEF held
  <2>3. TotalAssets(v) >= 0 => ToAssetsDown(v, held) \in 0..TotalAssets(v)
    BY <1>2, <2>2, PartIsBacked
  <2>4. TotalAssets(v) \in Int
    BY <1>2, TotalAssetsIsInt
  <2> QED BY <1>7, <2>1, <2>3, <2>4
<1>12. v.supply > 0 => net * v.supply <= burned * TotalAssets(v)
  <2> SUFFICES ASSUME v.supply > 0 PROVE net * v.supply <= burned * TotalAssets(v)
    OBVIOUS
  <2>1. TotalAssets(v) \in Int
    BY <1>2, TotalAssetsIsInt
  <2>2. Convertible(v, net)
    BY <1>1, <1>5, <1>7, <2>1 DEF Convertible
  <2>3. burned * TotalAssets(v) >= net * v.supply
    BY <1>1, <1>2, <1>7, <2>2, ConversionsAreFair DEF burned
  <2>4. burned * TotalAssets(v) \in Int /\ net * v.supply \in Int
    BY <1>2, <1>7, <1>8, <2>1
  <2> QED BY <2>3, <2>4
<1>13. burned <= v.supply
  BY <1>1, <1>2, <1>3, <1>6, <1>8
<1>14. FairExit(v, net, burned)
  BY <1>11, <1>12, <1>13 DEF FairExit
<1>10. CanCompound(vault, h) /\ Exit(v, owner, receiver, net, burned, feeShares, h)
  BY <1>1
<1> QED BY <1>1, <1>6, <1>7, <1>8, <1>9, <1>10, <1>14 DEF v

LEMMA RedeemExits ==
  ASSUME IInv, NEW owner \in Users, NEW receiver \in Users, NEW amount \in Amounts,
         NEW h \in Harvests, Redeem(owner, receiver, amount, h)
  PROVE  /\ CanCompound(vault, h)
         /\ \E paid, burned, feeShares \in Nat :
               /\ feeShares <= shares[owner] /\ burned <= shares[owner] - feeShares
               /\ FairExit(Compounded(vault, h), paid, burned)
               /\ Exit(Compounded(vault, h), owner, receiver, paid, burned, feeShares, h)
<1> DEFINE v == Compounded(vault, h)
           feeShares == FeeOn(amount, fee.withdraw)
           burned == amount - feeShares
           assets == ToAssetsDown(v, burned)
<1>1. /\ CanCompound(vault, h) /\ Priced(v) /\ amount <= shares[owner]
      /\ Exit(v, owner, receiver, assets, burned, feeShares, h)
  BY DEF Redeem
<1>2. v \in Vault /\ v.supply = vault.supply /\ v.supply \in Nat
  <2>1. v \in Vault /\ v.supply = vault.supply
    BY <1>1, CompoundPrefix DEF Sound, WellFormed
  <2> HIDE DEF v
  <2> QED BY <2>1, TotalAssetsIsInt
<1>3. shares[owner] \in Nat /\ shares[owner] <= vault.supply
  BY IInvMeans, TotalsFollow DEF Accounts
<1>4. fee.withdraw \in Nat /\ fee.withdraw <= Multiplier
  BY IInvMeans DEF FeesAreParts
<1>5. amount \in Nat
  BY AmountsAssumption
<1>6. feeShares \in 0..amount
  BY <1>4, <1>5, FeeIsPart
<1> HIDE DEF feeShares
<1>7. burned \in Nat /\ feeShares <= shares[owner] /\ burned <= shares[owner] - feeShares
  BY <1>1, <1>3, <1>5, <1>6
<1>9. burned \in 0..v.supply
  <2> HIDE DEF v, burned
  <2> QED BY <1>2, <1>3, <1>6, <1>7
<1> HIDE DEF burned
<1>10. TotalAssets(v) >= 0 => assets \in 0..TotalAssets(v)
  <2> HIDE DEF v
  <2> QED BY <1>2, <1>9, PartIsBacked
<1>8. assets \in Nat
  <2> HIDE DEF v
  <2> QED BY <1>1, <1>2, <1>7, ConversionsAreNat
<1>14. v.supply > 0 => assets * v.supply <= burned * TotalAssets(v)
  <2> HIDE DEF v
  <2> QED BY <1>1, <1>2, <1>7, ConversionsAreFair
<1> HIDE DEF assets
<1>11. TotalAssets(v) >= 0 => assets <= TotalAssets(v)
  <2> HIDE DEF v
  <2>1. TotalAssets(v) \in Int
    BY <1>2, TotalAssetsIsInt
  <2> QED BY <1>10, <2>1
<1>12. CanCompound(vault, h) /\ Exit(v, owner, receiver, assets, burned, feeShares, h)
  BY <1>1
<1>13. feeShares \in Nat
  BY <1>5, <1>6
<1> HIDE DEF v
<1>15. burned <= v.supply
  BY <1>2, <1>9
<1>16. FairExit(v, assets, burned)
  BY <1>11, <1>14, <1>15 DEF FairExit
<1> QED BY <1>7, <1>8, <1>12, <1>13, <1>16 DEF v

\* What withdraw and redeem share: the fee and the burned shares are the owner's.
LEMMA ExitIsGood ==
  ASSUME IInv, NEW owner \in Users, NEW receiver \in Users, NEW h \in Harvests,
         CanCompound(vault, h),
         NEW assets \in Nat, NEW burned \in Nat, NEW feeShares \in Nat,
         feeShares <= shares[owner], burned <= shares[owner] - feeShares,
         Exit(Compounded(vault, h), owner, receiver, assets, burned, feeShares, h)
  PROVE  IInv'
<1> DEFINE v == Compounded(vault, h)
           q == Enqueue(v, assets, receiver)
           held == Moved(shares, owner, Treasury, feeShares)
           left == v.supply - burned
<1>1. /\ vault' = [q EXCEPT !.supply = @ - burned]
      /\ shares' = [held EXCEPT ![owner] = @ - burned]
      /\ wallet' = [wallet EXCEPT ![Pool] = @ - h]
      /\ UNCHANGED <<fee, cap>>
  BY DEF Exit
<1>2. /\ owner \in Accounts /\ receiver \in Accounts /\ Treasury \in Accounts
      /\ owner # Treasury
  BY AccountsAssumption DEF Accounts
<1>3. /\ Sound(v) /\ v.supply = vault.supply /\ wallet' \in [Accounts -> Nat]
  BY <1>1, CompoundPrefix
<1>4. /\ shares \in [Accounts -> Nat] /\ vault.supply = Total(shares)
      /\ fee \in [deposit : Nat, withdraw : Nat] /\ cap \in Nat /\ FeesAreParts
  BY IInvMeans
<1> HIDE DEF v
<1>5. Sound(q) /\ q.supply = v.supply
  BY <1>2, <1>3, EnqueueIsSound
<1> HIDE DEF q
<1>6. /\ held \in [Accounts -> Nat] /\ Total(held) = Total(shares)
      /\ held[owner] = shares[owner] - feeShares
  BY <1>2, <1>4, MovedTotal
<1> HIDE DEF held
<1>7. shares' \in [Accounts -> Nat] /\ Total(shares') = Total(held) - burned
  <2>1. burned <= held[owner]
    BY <1>6
  <2>2. [held EXCEPT ![owner] = @ - burned] \in [Accounts -> Nat]
    BY <1>2, <1>6, <2>1, Debited
  <2> QED BY <1>1, <1>2, <1>6, <2>1, <2>2, DebitedTotal
<1>8. left \in Nat
  <2>1. held[owner] \in Nat /\ held[owner] <= Total(held) /\ Total(held) \in Nat
    BY <1>2, <1>6, TotalsFollow
  <2>2. burned <= v.supply /\ v.supply \in Nat
    BY <1>3, <1>4, <1>6, <2>1
  <2> QED BY <2>2
<1>9. Sound(vault') /\ vault'.supply = left
  <2> DEFINE w == [q EXCEPT !.supply = left]
  <2>1. /\ q \in Vault /\ q.expired <= q.locked /\ q.claimable <= q.dlp
    BY <1>5 DEF Sound, WellFormed
  <2>2. vault' = w
    BY <1>1, <1>5
  <2>3. /\ w \in Vault /\ w.queue = q.queue /\ w.index = q.index /\ w.queued = q.queued
        /\ w.claimable = q.claimable /\ w.expired = q.expired /\ w.locked = q.locked
        /\ w.dlp = q.dlp /\ w.supply = left
    <3> HIDE DEF left
    <3> QED BY <1>8, <2>1 DEF Vault
  <2> HIDE DEF w
  <2>4. Sound(w)
    BY <1>5, <2>1, <2>3, SameQueueIsSound
  <2> QED BY <2>2, <2>3, <2>4
<1>10. vault'.supply = Total(shares')
  BY <1>3, <1>4, <1>6, <1>7, <1>9
<1>11. fee' \in [deposit : Nat, withdraw : Nat] /\ cap' \in Nat /\ FeesAreParts'
  BY <1>1, <1>4 DEF FeesAreParts
<1>12. Total(shares)' = Total(shares')
  BY DEF Total
<1> QED BY <1>3, <1>7, <1>9, <1>10, <1>11, <1>12, IInvAfter

LEMMA WithdrawIsGood ==
  ASSUME IInv, NEW owner \in Users, NEW receiver \in Users, NEW assets \in Amounts,
         NEW h \in Harvests, Withdraw(owner, receiver, assets, h)
  PROVE  IInv'
BY WithdrawExits, ExitIsGood

LEMMA RedeemIsGood ==
  ASSUME IInv, NEW owner \in Users, NEW receiver \in Users, NEW amount \in Amounts,
         NEW h \in Harvests, Redeem(owner, receiver, amount, h)
  PROVE  IInv'
BY RedeemExits, ExitIsGood

\* A step that leaves shares and their supply alone.
LEMMA SharesUntouched ==
  ASSUME IInv, Sound(vault'), vault'.supply = vault.supply, UNCHANGED <<shares, fee, cap>>,
         wallet' \in [Accounts -> Nat]
  PROVE  IInv'
<1>1. /\ shares' \in [Accounts -> Nat] /\ fee' \in [deposit : Nat, withdraw : Nat]
      /\ cap' \in Nat /\ vault.supply = Total(shares)' /\ FeesAreParts'
  BY IInvMeans DEF FeesAreParts, Total
<1> QED BY <1>1, IInvAfter

LEMMA ClaimIsGood ==
  ASSUME IInv, NEW i \in 1..Len(vault.queue), Claim(i)
  PROVE  IInv'
<1> DEFINE e == vault.queue[i]
           w == [vault EXCEPT !.queue[i].isClaimed = TRUE,
                              !.queued = @ - vault.queue[i].assets,
                              !.claimable = @ - vault.queue[i].assets,
                              !.dlp = @ - vault.queue[i].assets]
<1>1. /\ i <= vault.index /\ ~ vault.queue[i].isClaimed
      /\ vault.queue[i].assets <= vault.queued /\ vault.queue[i].assets <= vault.claimable
      /\ vault.queue[i].assets <= vault.dlp
      /\ vault' = w
      /\ wallet' = [wallet EXCEPT ![e.receiver] = @ + e.assets]
      /\ UNCHANGED <<shares, fee, cap>>
  BY DEF Claim, PayEntry
<1>2. Sound(vault) /\ wallet \in [Accounts -> Nat]
  BY IInvMeans
<1>3. Sound(w) /\ e \in QueueEntry
  BY <1>1, <1>2, PaymentIsSound
<1>4. w.supply = vault.supply
  BY <1>2 DEF Sound, WellFormed, Vault
<1> HIDE DEF w, e
<1>5. wallet' \in [Accounts -> Nat]
  BY <1>1, <1>2, <1>3, Credited DEF QueueEntry
<1> QED BY <1>1, <1>3, <1>4, <1>5, SharesUntouched

LEMMA BoostDLPIsGood ==
  ASSUME IInv, NEW amount \in Amounts, BoostDLP(amount)
  PROVE  IInv'
<1> DEFINE d == vault.dlp + amount
           b == vault.boosted + amount
           w == [vault EXCEPT !.dlp = d, !.boosted = b]
<1>1. /\ amount \in Nat /\ amount <= wallet[Admin] /\ Admin \in Accounts
      /\ vault' = StakeTokens(w, amount)
      /\ wallet' = [wallet EXCEPT ![Admin] = @ - amount]
      /\ UNCHANGED <<shares, fee, cap>>
  BY AmountsAssumption DEF BoostDLP, Accounts
<1>2. /\ Sound(vault) /\ wallet \in [Accounts -> Nat]
  BY IInvMeans
<1>3. /\ vault \in Vault /\ vault.expired <= vault.locked /\ d \in Nat /\ b \in Nat
      /\ vault.claimable <= d /\ amount <= d - vault.claimable
  <2>1. /\ vault \in Vault /\ vault.expired <= vault.locked /\ vault.claimable <= vault.dlp
        /\ vault.dlp \in Nat /\ vault.boosted \in Nat /\ vault.claimable \in Nat
    BY <1>2 DEF Sound, WellFormed, Vault
  <2> QED BY <1>1, <2>1
<1>4. /\ w \in Vault /\ w.queue = vault.queue /\ w.index = vault.index
      /\ w.queued = vault.queued /\ w.claimable = vault.claimable
      /\ w.expired = vault.expired /\ w.locked = vault.locked /\ w.dlp = d
      /\ w.supply = vault.supply
  <2> HIDE DEF d, b
  <2> QED BY <1>3 DEF Vault
<1> HIDE DEF w
<1>5. Sound(w)
  BY <1>2, <1>3, <1>4, SameQueueIsSound
<1>6. Sound(vault') /\ vault'.supply = w.supply
  BY <1>1, <1>3, <1>4, <1>5, StakeTokensIsSound
<1>7. wallet' \in [Accounts -> Nat]
  BY <1>1, <1>2, Debited
<1> QED BY <1>1, <1>4, <1>6, <1>7, SharesUntouched

LEMMA UnboostDLPIsGood ==
  ASSUME IInv, NEW amount \in Amounts, UnboostDLP(amount)
  PROVE  IInv'
<1> DEFINE q == Enqueue(vault, amount, Admin)
           b == q.boosted - amount
           w == [q EXCEPT !.boosted = b]
<1>1. /\ amount \in Nat /\ amount <= vault.boosted /\ Admin \in Accounts
      /\ vault' = w /\ UNCHANGED <<shares, wallet, fee, cap>>
  BY AmountsAssumption DEF UnboostDLP, Accounts
<1>2. /\ Sound(vault) /\ wallet \in [Accounts -> Nat]
  BY IInvMeans
<1>3. Sound(q) /\ q.supply = vault.supply /\ q.boosted = vault.boosted
  BY <1>1, <1>2, EnqueueIsSound
<1> HIDE DEF q
<1>4. /\ q \in Vault /\ q.expired <= q.locked /\ q.claimable <= q.dlp /\ b \in Nat
  <2>1. /\ q \in Vault /\ q.expired <= q.locked /\ q.claimable <= q.dlp /\ q.boosted \in Nat
    BY <1>3 DEF Sound, WellFormed, Vault
  <2> QED BY <1>1, <1>3, <2>1
<1>5. /\ w \in Vault /\ w.queue = q.queue /\ w.index = q.index /\ w.queued = q.queued
      /\ w.claimable = q.claimable /\ w.expired = q.expired /\ w.locked = q.locked
      /\ w.dlp = q.dlp /\ w.supply = q.supply
  <2> HIDE DEF b
  <2> QED BY <1>4 DEF Vault
<1> HIDE DEF w
<1>6. Sound(w)
  BY <1>3, <1>4, <1>5, SameQueueIsSound
<1> QED BY <1>1, <1>2, <1>3, <1>5, <1>6, SharesUntouched

\* The sweep takes what is not reserved, and nothing else.
LEMMA WithdrawDLPIsGood ==
  ASSUME IInv, WithdrawDLP
  PROVE  IInv'
<1> DEFINE v == ProcessWithdrawalQueue(vault)
           w == [v EXCEPT !.dlp = v.claimable]
<1>1. /\ vault' = w
      /\ wallet' = [wallet EXCEPT ![Admin] = @ + (v.dlp - v.claimable)]
      /\ UNCHANGED <<shares, fee, cap>>
  BY DEF WithdrawDLP
<1>2. /\ Sound(vault) /\ wallet \in [Accounts -> Nat] /\ Admin \in Accounts
  BY IInvMeans DEF Accounts
<1>3. Sound(v) /\ v.supply = vault.supply
  BY <1>2, ProcessWithdrawalQueueIsSound
<1> HIDE DEF v
<1>4. /\ v \in Vault /\ v.expired <= v.locked /\ v.claimable <= v.dlp
      /\ v.claimable \in Nat /\ v.dlp \in Nat
  BY <1>3 DEF Sound, WellFormed, Vault
<1>5. /\ w \in Vault /\ w.queue = v.queue /\ w.index = v.index /\ w.queued = v.queued
      /\ w.claimable = v.claimable /\ w.expired = v.expired /\ w.locked = v.locked
      /\ w.dlp = v.claimable /\ w.supply = v.supply
  BY <1>4 DEF Vault
<1> HIDE DEF w
<1>6. Sound(w)
  BY <1>3, <1>4, <1>5, SameQueueIsSound
<1>7. wallet' \in [Accounts -> Nat]
  <2>1. v.dlp - v.claimable \in Nat
    BY <1>4
  <2> QED BY <1>1, <1>2, <2>1, Credited
<1> QED BY <1>1, <1>3, <1>5, <1>6, <1>7, SharesUntouched

LEMMA SetFeeIsGood ==
  ASSUME IInv, NEW d \in FeeRates, NEW w \in FeeRates, SetFee(d, w)
  PROVE  IInv'
<1>1. /\ d \in Nat /\ w \in Nat /\ Multiplier \in Nat
      /\ d < Multiplier \div 2 /\ w < Multiplier \div 2
      /\ fee' = [deposit |-> d, withdraw |-> w] /\ UNCHANGED <<vault, shares, wallet, cap>>
  BY RatesAssumption DEF SetFee
<1>2. FeesAreParts'
  BY <1>1 DEF FeesAreParts
<1>3. fee' \in [deposit : Nat, withdraw : Nat]
  BY <1>1
<1>4. /\ Sound(vault) /\ wallet \in [Accounts -> Nat] /\ shares \in [Accounts -> Nat]
      /\ cap \in Nat /\ vault.supply = Total(shares)
  BY IInvMeans
<1>5. Total(shares)' = Total(shares) /\ Sound(vault')
  BY <1>1, <1>4 DEF Total
<1> QED BY <1>1, <1>2, <1>3, <1>4, <1>5, IInvAfter

LEMMA SetVaultCapIsGood ==
  ASSUME IInv, NEW c \in Caps, SetVaultCap(c)
  PROVE  IInv'
<1>1. c \in Nat /\ cap' = c /\ UNCHANGED <<vault, shares, wallet, fee>>
  BY AmountsAssumption DEF SetVaultCap
<1>2. /\ Sound(vault) /\ wallet \in [Accounts -> Nat] /\ shares \in [Accounts -> Nat]
      /\ fee \in [deposit : Nat, withdraw : Nat] /\ vault.supply = Total(shares)
      /\ FeesAreParts
  BY IInvMeans
<1>3. Total(shares)' = Total(shares) /\ Sound(vault') /\ FeesAreParts'
  BY <1>1, <1>2 DEF Total, FeesAreParts
<1> QED BY <1>1, <1>2, <1>3, IInvAfter

LEMMA TransferSharesIsGood ==
  ASSUME IInv, NEW from \in Users, NEW to \in Users, NEW amount \in Amounts,
         TransferShares(from, to, amount)
  PROVE  IInv'
<1>1. /\ amount \in Nat /\ from \in Accounts /\ to \in Accounts
      /\ amount <= shares[from] /\ shares' = Moved(shares, from, to, amount)
      /\ UNCHANGED <<vault, wallet, fee, cap>>
  BY AmountsAssumption DEF TransferShares, Accounts
<1>2. /\ Sound(vault) /\ wallet \in [Accounts -> Nat] /\ shares \in [Accounts -> Nat]
      /\ fee \in [deposit : Nat, withdraw : Nat] /\ cap \in Nat
      /\ vault.supply = Total(shares) /\ FeesAreParts
  BY IInvMeans
<1>3. shares' \in [Accounts -> Nat] /\ Total(shares') = Total(shares)
  BY <1>1, <1>2, MovedTotal
<1>4. Total(shares)' = Total(shares') /\ Sound(vault') /\ FeesAreParts'
  BY <1>1, <1>2 DEF Total, FeesAreParts
<1> QED BY <1>1, <1>2, <1>3, <1>4, IInvAfter

LEMMA LocksExpireIsGood ==
  ASSUME IInv, NEW amount \in Amounts, LocksExpire(amount)
  PROVE  IInv'
<1> DEFINE x == vault.expired + amount
           w == [vault EXCEPT !.expired = x]
<1>1. /\ amount \in Nat /\ x <= vault.locked /\ vault' = w
      /\ UNCHANGED <<shares, wallet, fee, cap>>
  BY AmountsAssumption DEF LocksExpire
<1>2. Sound(vault) /\ wallet \in [Accounts -> Nat]
  BY IInvMeans
<1>3. vault \in Vault /\ x \in Nat /\ vault.claimable <= vault.dlp
  BY <1>1, <1>2 DEF Sound, WellFormed, Vault
<1>4. /\ w \in Vault /\ w.queue = vault.queue /\ w.index = vault.index
      /\ w.queued = vault.queued /\ w.claimable = vault.claimable
      /\ w.expired = x /\ w.locked = vault.locked /\ w.dlp = vault.dlp
      /\ w.supply = vault.supply
  <2> HIDE DEF x
  <2> QED BY <1>3 DEF Vault
<1> HIDE DEF w
<1>5. Sound(w)
  BY <1>1, <1>2, <1>3, <1>4, SameQueueIsSound
<1> QED BY <1>1, <1>2, <1>4, <1>5, SharesUntouched

---------------------------------------------------------------------------------
LEMMA StepIsGood == IInv /\ [Next]_vars => IInv'
<1> SUFFICES ASSUME IInv, [Next]_vars PROVE IInv'
  OBVIOUS
<1>1. CASE UNCHANGED vars
  <2>1. /\ Sound(vault) /\ wallet \in [Accounts -> Nat] /\ UNCHANGED <<shares, fee, cap>>
    BY <1>1, IInvMeans DEF vars
  <2>2. vault' = vault /\ wallet' = wallet
    BY <1>1 DEF vars
  <2> QED BY <2>1, <2>2, SharesUntouched
<1>2. CASE \E h \in Harvests : Compound(h)
  BY <1>2, CompoundIsGood
<1>3. CASE \E u, r \in Users, a \in Amounts, h \in Harvests : Deposit(u, r, a, h)
  BY <1>3, DepositIsGood
<1>4. CASE \E u, r \in Users, a \in Amounts, h \in Harvests : Mint(u, r, a, h)
  BY <1>4, MintIsGood
<1>5. CASE \E u, r \in Users, a \in Amounts, h \in Harvests : Withdraw(u, r, a, h)
  BY <1>5, WithdrawIsGood
<1>6. CASE \E u, r \in Users, a \in Amounts, h \in Harvests : Redeem(u, r, a, h)
  BY <1>6, RedeemIsGood
<1>7. CASE \E i \in 1..Len(vault.queue) : Claim(i)
  BY <1>7, ClaimIsGood
<1>8. CASE \E a \in Amounts : BoostDLP(a)
  BY <1>8, BoostDLPIsGood
<1>9. CASE \E a \in Amounts : UnboostDLP(a)
  BY <1>9, UnboostDLPIsGood
<1>10. CASE WithdrawDLP
  BY <1>10, WithdrawDLPIsGood
<1>11. CASE \E d, w \in FeeRates : SetFee(d, w)
  BY <1>11, SetFeeIsGood
<1>12. CASE \E c \in Caps : SetVaultCap(c)
  BY <1>12, SetVaultCapIsGood
<1>13. CASE \E u, r \in Users, a \in Amounts : TransferShares(u, r, a)
  BY <1>13, TransferSharesIsGood
<1>14. CASE \E a \in Amounts : LocksExpire(a)
  BY <1>14, LocksExpireIsGood
<1> QED
  BY <1>1, <1>2, <1>3, <1>4, <1>5, <1>6, <1>7, <1>8, <1>9, <1>10, <1>11, <1>12, <1>13, <1>14
     DEF Next

THEOREM Invariance == Spec => []IInv
<1>1. Init => IInv
  BY InitIsGood
<1>2. IInv /\ [Next]_vars => IInv'
  BY StepIsGood
<1> QED BY <1>1, <1>2, PTL DEF Spec

\* Every balance and counter of the vault stays a natural: no subtraction of
\* DLPVault_Audit.sol that is not guarded by a revert can underflow.
THEOREM TypeCorrect == Spec => []TypeOK
<1>1. IInv => TypeOK
  BY DEF IInv
<1> QED BY <1>1, Invariance, PTL

\* queuedDLP and claimableDLP are the sums they stand for (withdraw, redeem, unboostDLP,
\* claim and _processWithdrawalQueue keep them so).
THEOREM CountersAreSums == Spec => []QueueAccounting
<1>1. IInv => QueueAccounting
  BY DEF IInv
<1> QED BY <1>1, Invariance, PTL

\* A released entry can always be claimed: its DLP is neither staked by _stakeDLP nor
\* swept by withdrawTokens.
THEOREM ReleasedIsPayable == Spec => []ClaimsPayable
<1>1. IInv => ClaimsPayable
  BY DEF IInv
<1> QED BY <1>1, Invariance, PTL

\* totalSupply is the sum of the balances, so _burn never takes more than there is.
THEOREM SupplyIsHeld == Spec => []SharesAddUp
<1>1. IInv => SharesAddUp
  BY DEF IInv
<1> QED BY <1>1, Invariance, PTL

---------------------------------------------------------------------------------
(* Backing.  Staking, releasing and paying move DLP between the terms of       *)
(* totalAssets and leave their sum alone.                                      *)

LEMMA StakingKeepsBacking ==
  ASSUME NEW v, v \in Vault, NEW amount \in Nat
  PROVE  TotalAssets(StakeTokens(v, amount)) = TotalAssets(v)
<1> DEFINE d == v.dlp - amount
           l == v.locked + amount
           w == [v EXCEPT !.dlp = d, !.locked = l]
<1>1. v.dlp \in Nat /\ v.locked \in Nat /\ v.queued \in Nat /\ v.boosted \in Nat
  BY TotalAssetsIsInt
<1>2. w.dlp = d /\ w.locked = l /\ w.queued = v.queued /\ w.boosted = v.boosted
  <2> HIDE DEF d, l
  <2> QED BY DEF Vault
<1> HIDE DEF w
<1>3. TotalAssets(w) = TotalAssets(v)
  BY <1>1, <1>2 DEF TotalAssets
<1>4. StakeTokens(v, amount) = IF amount < MinDLPBalance THEN v ELSE w
  BY DEF StakeTokens, w
<1> QED BY <1>3, <1>4

LEMMA StakeDLPKeepsBacking ==
  ASSUME NEW v, v \in Vault
  PROVE  TotalAssets(StakeDLP(v)) = TotalAssets(v)
<1>1. CASE v.dlp > v.queued
  <2>1. v.dlp - v.queued \in Nat
    BY <1>1, TotalAssetsIsInt
  <2> QED BY <1>1, <2>1, StakingKeepsBacking DEF StakeDLP
<1>2. CASE ~ (v.dlp > v.queued)
  BY <1>2 DEF StakeDLP
<1> QED BY <1>1, <1>2

\* Releasing entries does not touch what totalAssets is made of.
LEMMA ReleasingKeepsBacking ==
  ASSUME NEW v, v \in Vault
  PROVE  TotalAssets(ProcessWithdrawalQueue(v)) = TotalAssets(v)
<1> DEFINE k == CHOOSE n \in Releasable(v) : \A m \in Releasable(v) : m <= n
           c == v.claimable + OwedToNext(v, k)
           x == v.index + k
           w == [v EXCEPT !.claimable = c, !.index = x]
<1>1. ProcessWithdrawalQueue(v) = w
  BY DEF ProcessWithdrawalQueue
<1>2. w.dlp = v.dlp /\ w.locked = v.locked /\ w.queued = v.queued /\ w.boosted = v.boosted
  <2> HIDE DEF c, x
  <2> QED BY DEF Vault
<1> HIDE DEF w
<1> QED BY <1>1, <1>2 DEF TotalAssets

\* compound() can only add to what the shares are worth.
LEMMA CompoundingKeepsBacking ==
  ASSUME NEW v, Sound(v), NEW harvest \in Nat
  PROVE  /\ TotalAssets(v) \in Int /\ TotalAssets(Compounded(v, harvest)) \in Int
         /\ TotalAssets(Compounded(v, harvest)) >= TotalAssets(v)
<1>1. v \in Vault /\ TotalAssets(v) \in Int
  BY TotalAssetsIsInt DEF Sound, WellFormed
<1>2. CASE v.supply = 0
  BY <1>1, <1>2 DEF Compounded
<1>3. CASE v.supply # 0
  <2> DEFINE g == v.dlp + harvest
             a == [v EXCEPT !.dlp = g]
             d == a.dlp + a.expired
             l == a.locked - a.expired
             b == [a EXCEPT !.dlp = d, !.locked = l, !.expired = 0]
             c == ProcessWithdrawalQueue(b)
  <2>1. g \in Nat /\ v.supply \in Nat
    BY <1>1, TotalAssetsIsInt
  <2>2. /\ a \in Vault /\ a.dlp = g /\ a.locked = v.locked /\ a.queued = v.queued
        /\ a.boosted = v.boosted
    <3> HIDE DEF g
    <3> QED BY <1>1, <2>1 DEF Vault
  <2>3. Sound(a)
    <3> DEFINE r == [v EXCEPT !.dlp = @ + harvest, !.supply = v.supply]
    <3>1. Sound(r)
      BY <2>1, ReceivingIsSound
    <3>2. a = r
      BY <1>1 DEF Vault
    <3> HIDE DEF r, a
    <3> QED BY <3>1, <3>2
  <2>4. TotalAssets(a) = TotalAssets(v) + harvest
    <3> HIDE DEF a
    <3> QED BY <1>1, <2>2, TotalAssetsIsInt DEF TotalAssets
  <2> HIDE DEF a
  <2>5. b = WithdrawExpiredLocks(a)
    BY DEF WithdrawExpiredLocks
  <2>6. b.dlp = d /\ b.locked = l /\ b.queued = a.queued /\ b.boosted = a.boosted
    <3> HIDE DEF d, l
    <3> QED BY <2>2 DEF Vault
  <2> HIDE DEF b
  <2>7. Sound(b) /\ b \in Vault
    BY <2>3, <2>5, WithdrawExpiredLocksIsSound DEF Sound, WellFormed
  <2>8. TotalAssets(b) = TotalAssets(a)
    BY <2>2, <2>6, TotalAssetsIsInt DEF TotalAssets
  <2>9. TotalAssets(c) = TotalAssets(b) /\ c \in Vault
    BY <2>7, ReleasingKeepsBacking, ProcessWithdrawalQueueIsSound DEF Sound, WellFormed
  <2>10. Compounded(v, harvest) = StakeDLP(c)
    BY <1>3, <2>5 DEF Compounded, a, c
  <2> HIDE DEF c
  <2>11. TotalAssets(StakeDLP(c)) = TotalAssets(v) + harvest
    BY <2>4, <2>8, <2>9, StakeDLPKeepsBacking
  <2> QED BY <1>1, <2>10, <2>11
<1> QED BY <1>2, <1>3

LEMMA PurchaseKeepsBacking ==
  ASSUME NEW v, Sound(v), NEW assets \in Nat, NEW minted \in Nat
  PROVE  TotalAssets(StakeDLP([v EXCEPT !.dlp = @ + assets, !.supply = @ + minted]))
            = TotalAssets(v) + assets
<1> DEFINE d == v.dlp + assets
           s == v.supply + minted
           w == [v EXCEPT !.dlp = d, !.supply = s]
<1>1. v \in Vault
  BY DEF Sound, WellFormed
<1>2. d \in Nat /\ s \in Nat
  BY <1>1, TotalAssetsIsInt
<1>3. /\ w \in Vault /\ w.dlp = d /\ w.locked = v.locked
      /\ w.queued = v.queued /\ w.boosted = v.boosted
  <2> HIDE DEF d, s
  <2> QED BY <1>1, <1>2 DEF Vault
<1>4. [v EXCEPT !.dlp = @ + assets, !.supply = @ + minted] = w
  OBVIOUS
<1> HIDE DEF w
<1>5. TotalAssets(w) = TotalAssets(v) + assets
  BY <1>1, <1>3, TotalAssetsIsInt DEF TotalAssets
<1> QED BY <1>3, <1>4, <1>5, StakeDLPKeepsBacking

\* An exit promises its assets to the owner of the shares it burns.
LEMMA ExitTakesItsAssets ==
  ASSUME NEW v, v \in Vault, NEW assets \in Nat, NEW receiver, NEW burned
  PROVE  TotalAssets([Enqueue(v, assets, receiver) EXCEPT !.supply = @ - burned])
            = TotalAssets(v) - assets
<1> DEFINE o == v.queued + assets
           q == Append(v.queue, [assets |-> assets, receiver |-> receiver,
                                 isClaimed |-> FALSE])
           e == [v EXCEPT !.queued = o, !.queue = q]
           s == e.supply - burned
           w == [e EXCEPT !.supply = s]
<1>1. Enqueue(v, assets, receiver) = e
  BY DEF Enqueue
<1>2. w.dlp = v.dlp /\ w.locked = v.locked /\ w.queued = o /\ w.boosted = v.boosted
  <2>1. e.dlp = v.dlp /\ e.locked = v.locked /\ e.queued = o /\ e.boosted = v.boosted
    <3> HIDE DEF o, q
    <3> QED BY DEF Vault
  <2>2. /\ w.dlp = e.dlp /\ w.locked = e.locked /\ w.queued = e.queued
        /\ w.boosted = e.boosted
    <3> HIDE DEF s, o, q
    <3> QED BY DEF Vault
  <2> HIDE DEF e, w
  <2> QED BY <2>1, <2>2
<1>3. TotalAssets(w) = TotalAssets(v) - assets
  <2> HIDE DEF w
  <2> QED BY <1>2, TotalAssetsIsInt DEF TotalAssets
<1>4. [Enqueue(v, assets, receiver) EXCEPT !.supply = @ - burned] = w
  <2> HIDE DEF e
  <2> QED BY <1>1
<1> QED BY <1>3, <1>4

\* A payment leaves the vault together with the promise it keeps.
LEMMA PaymentKeepsBacking ==
  ASSUME NEW v, v \in Vault, NEW i, NEW a \in Nat
  PROVE  TotalAssets([v EXCEPT !.queue[i].isClaimed = TRUE, !.queued = @ - a,
                               !.claimable = @ - a, !.dlp = @ - a])
            = TotalAssets(v)
<1> DEFINE q == [v.queue EXCEPT ![i].isClaimed = TRUE]
           o == v.queued - a
           c == v.claimable - a
           d == v.dlp - a
           w == [v EXCEPT !.queue = q, !.queued = o, !.claimable = c, !.dlp = d]
<1>1. w.dlp = d /\ w.locked = v.locked /\ w.queued = o /\ w.boosted = v.boosted
  <2> HIDE DEF q, o, c, d
  <2> QED BY DEF Vault
<1>2. TotalAssets(w) = TotalAssets(v)
  <2> HIDE DEF w
  <2> QED BY <1>1, TotalAssetsIsInt DEF TotalAssets
<1> QED BY <1>2

LEMMA BoostKeepsBacking ==
  ASSUME NEW v, v \in Vault, NEW amount \in Nat
  PROVE  TotalAssets(StakeTokens([v EXCEPT !.dlp = @ + amount, !.boosted = @ + amount],
                                 amount))
            = TotalAssets(v)
<1> DEFINE d == v.dlp + amount
           b == v.boosted + amount
           w == [v EXCEPT !.dlp = d, !.boosted = b]
<1>1. d \in Nat /\ b \in Nat
  BY TotalAssetsIsInt
<1>2. /\ w \in Vault /\ w.dlp = d /\ w.locked = v.locked
      /\ w.queued = v.queued /\ w.boosted = b
  <2> HIDE DEF d, b
  <2> QED BY <1>1 DEF Vault
<1>3. [v EXCEPT !.dlp = @ + amount, !.boosted = @ + amount] = w
  OBVIOUS
<1> HIDE DEF w
<1>4. TotalAssets(w) = TotalAssets(v)
  BY <1>2, TotalAssetsIsInt DEF TotalAssets
<1> QED BY <1>2, <1>3, <1>4, StakingKeepsBacking

LEMMA UnboostKeepsBacking ==
  ASSUME NEW v, v \in Vault, NEW amount \in Nat
  PROVE  TotalAssets([Enqueue(v, amount, Admin) EXCEPT !.boosted = @ - amount])
            = TotalAssets(v)
<1> DEFINE o == v.queued + amount
           q == Append(v.queue, [assets |-> amount, receiver |-> Admin,
                                 isClaimed |-> FALSE])
           e == [v EXCEPT !.queued = o, !.queue = q]
           b == e.boosted - amount
           w == [e EXCEPT !.boosted = b]
<1>1. Enqueue(v, amount, Admin) = e
  BY DEF Enqueue
<1>2. w.dlp = v.dlp /\ w.locked = v.locked /\ w.queued = o
      /\ w.boosted = v.boosted - amount
  <2>1. e.dlp = v.dlp /\ e.locked = v.locked /\ e.queued = o /\ e.boosted = v.boosted
    <3> HIDE DEF o, q
    <3> QED BY DEF Vault
  <2>2. /\ w.dlp = e.dlp /\ w.locked = e.locked /\ w.queued = e.queued /\ w.boosted = b
    <3> HIDE DEF b, o, q
    <3> QED BY DEF Vault
  <2> HIDE DEF e, w
  <2> QED BY <2>1, <2>2 DEF b
<1>3. TotalAssets(w) = TotalAssets(v)
  <2> HIDE DEF w
  <2> QED BY <1>2, TotalAssetsIsInt DEF TotalAssets
<1>4. [Enqueue(v, amount, Admin) EXCEPT !.boosted = @ - amount] = w
  <2> HIDE DEF e
  <2> QED BY <1>1
<1> QED BY <1>3, <1>4

\* No step but a sweep makes totalAssets negative.
LEMMA BackingStep ==
  ASSUME IInv, Next, ~ WithdrawDLP, TotalAssets(vault) >= 0
  PROVE  TotalAssets(vault)' >= 0
<1>1. /\ Sound(vault) /\ vault \in Vault /\ TotalAssets(vault) \in Int
      /\ TotalAssets(vault)' = TotalAssets(vault')
  <2>1. Sound(vault) /\ vault \in Vault
    BY IInvMeans DEF Sound, WellFormed
  <2> QED BY <2>1, TotalAssetsIsInt DEF TotalAssets
<1>2. ASSUME NEW h \in Harvests, CanCompound(vault, h)
      PROVE  /\ Sound(Compounded(vault, h)) /\ Compounded(vault, h) \in Vault
             /\ TotalAssets(Compounded(vault, h)) \in Int
             /\ TotalAssets(Compounded(vault, h)) >= 0
  <2>1. h \in Nat /\ Sound(Compounded(vault, h))
    BY <1>2, CompoundPrefix
  <2>2. /\ TotalAssets(Compounded(vault, h)) \in Int
        /\ TotalAssets(Compounded(vault, h)) >= TotalAssets(vault)
    BY <1>1, <2>1, CompoundingKeepsBacking
  <2> QED BY <1>1, <2>1, <2>2 DEF Sound, WellFormed
<1>3. ASSUME NEW h \in Harvests, Compound(h) PROVE TotalAssets(vault') >= 0
  BY <1>2, <1>3 DEF Compound
<1>4. ASSUME NEW u \in Users, NEW r \in Users, NEW h \in Harvests, CanCompound(vault, h),
             NEW price \in Nat, NEW minted \in Nat, NEW charged \in Nat,
             Purchase(Compounded(vault, h), u, r, price, minted, charged, h)
      PROVE  TotalAssets(vault') >= 0
  <2> DEFINE v == Compounded(vault, h)
  <2>1. Sound(v) /\ TotalAssets(v) \in Int /\ TotalAssets(v) >= 0
    BY <1>2, <1>4
  <2>2. vault' = StakeDLP([v EXCEPT !.dlp = @ + price, !.supply = @ + minted])
    BY <1>4 DEF Purchase
  <2> HIDE DEF v
  <2>3. TotalAssets(vault') = TotalAssets(v) + price
    BY <2>1, <2>2, PurchaseKeepsBacking
  <2> QED BY <2>1, <2>3
<1>5. ASSUME NEW u \in Users, NEW r \in Users, NEW a \in Amounts, NEW h \in Harvests,
             Deposit(u, r, a, h) \/ Mint(u, r, a, h)
      PROVE  TotalAssets(vault') >= 0
  BY <1>4, <1>5, DepositBuys, MintBuys
<1>6. ASSUME NEW u \in Users, NEW r \in Users, NEW h \in Harvests, CanCompound(vault, h),
             NEW paid \in Nat, NEW burned \in Nat, NEW feeShares \in Nat,
             FairExit(Compounded(vault, h), paid, burned),
             Exit(Compounded(vault, h), u, r, paid, burned, feeShares, h)
      PROVE  TotalAssets(vault') >= 0
  <2> DEFINE v == Compounded(vault, h)
  <2>1. v \in Vault /\ TotalAssets(v) \in Int /\ paid <= TotalAssets(v)
    BY <1>2, <1>6 DEF FairExit
  <2>2. vault' = [Enqueue(v, paid, r) EXCEPT !.supply = @ - burned]
    BY <1>6 DEF Exit
  <2> HIDE DEF v
  <2>3. TotalAssets(vault') = TotalAssets(v) - paid
    BY <2>1, <2>2, ExitTakesItsAssets
  <2> QED BY <2>1, <2>3
<1>7. ASSUME NEW u \in Users, NEW r \in Users, NEW a \in Amounts, NEW h \in Harvests,
             Withdraw(u, r, a, h) \/ Redeem(u, r, a, h)
      PROVE  TotalAssets(vault') >= 0
  BY <1>6, <1>7, WithdrawExits, RedeemExits
<1>8. ASSUME NEW i \in 1..Len(vault.queue), Claim(i) PROVE TotalAssets(vault') >= 0
  <2>1. vault.queue[i].assets \in Nat
    BY <1>1, DueIsNat DEF Sound, QueueEntry
  <2>2. vault' = [vault EXCEPT !.queue[i].isClaimed = TRUE,
                               !.queued = @ - vault.queue[i].assets,
                               !.claimable = @ - vault.queue[i].assets,
                               !.dlp = @ - vault.queue[i].assets]
    BY <1>8 DEF Claim, PayEntry
  <2> QED BY <1>1, <2>1, <2>2, PaymentKeepsBacking
<1>9. ASSUME NEW a \in Amounts, BoostDLP(a) \/ UnboostDLP(a)
      PROVE  TotalAssets(vault') >= 0
  <2>1. a \in Nat
    BY AmountsAssumption
  <2> QED BY <1>1, <1>9, <2>1, BoostKeepsBacking, UnboostKeepsBacking DEF BoostDLP, UnboostDLP
<1>10. ASSUME NEW a \in Amounts, LocksExpire(a) PROVE TotalAssets(vault') >= 0
  <2> DEFINE x == vault.expired + a
             w == [vault EXCEPT !.expired = x]
  <2>1. vault' = w
    BY <1>10 DEF LocksExpire
  <2>2. /\ w.dlp = vault.dlp /\ w.locked = vault.locked /\ w.queued = vault.queued
        /\ w.boosted = vault.boosted
    <3> HIDE DEF x
    <3> QED BY <1>1 DEF Vault
  <2> HIDE DEF w
  <2> QED BY <1>1, <2>1, <2>2 DEF TotalAssets
<1>11. ASSUME UNCHANGED vault PROVE TotalAssets(vault') >= 0
  BY <1>1, <1>11
<1>12. (\E d, w \in FeeRates : SetFee(d, w)) => UNCHANGED vault
  BY DEF SetFee
<1>13. (\E c \in Caps : SetVaultCap(c)) => UNCHANGED vault
  BY DEF SetVaultCap
<1>14. (\E u, r \in Users, a \in Amounts : TransferShares(u, r, a)) => UNCHANGED vault
  BY DEF TransferShares
<1>15. TotalAssets(vault') >= 0
  BY <1>3, <1>5, <1>7, <1>8, <1>9, <1>10, <1>11, <1>12, <1>13, <1>14 DEF Next
<1> QED BY <1>1, <1>15

\* Only withdrawTokens(DLP) can leave the vault with fewer assets than it owes, the state
\* in which totalAssets and everything that prices shares reverts.
THEOREM BackingIsKept == Spec => OnlySweepBreaksBacking
<1>1. IInv /\ [Next]_vars
        => [TotalAssets(vault) >= 0 /\ TotalAssets(vault)' < 0 => WithdrawDLP]_vars
  <2> SUFFICES ASSUME IInv, Next, ~ WithdrawDLP, TotalAssets(vault) >= 0
               PROVE  ~ (TotalAssets(vault)' < 0)
    OBVIOUS
  <2>1. TotalAssets(vault)' >= 0
    BY BackingStep
  <2>2. TotalAssets(vault)' \in Int
    <3>1. vault' \in Vault
      BY StepIsGood DEF IInv, TypeOK, WellFormed
    <3>2. TotalAssets(vault') \in Int
      BY <3>1, TotalAssetsIsInt
    <3> QED BY <3>2 DEF TotalAssets
  <2> QED BY <2>1, <2>2
<1> QED BY <1>1, Invariance, PTL DEF Spec, OnlySweepBreaksBacking

---------------------------------------------------------------------------------
(* The queue.  Every step but a claim releases the next few entries, perhaps   *)
(* none, and then appends at most one.                                         *)

\* A vault with another's queue and counters has released the same entries.
LEMMA ReleasedAlike ==
  ASSUME NEW v, NEW a, NEW b, NEW w, NEW k,
         a.queue = v.queue, a.index = v.index, a.queued = v.queued, a.claimable = v.claimable,
         w.queue = b.queue, w.index = b.index, w.queued = b.queued, w.claimable = b.claimable,
         Released(a, b, k)
  PROVE  Released(v, w, k)
BY DEF Released, OwedToNext

LEMMA NoneReleased ==
  ASSUME NEW v, Sound(v), NEW w, w.queue = v.queue, w.index = v.index, w.queued = v.queued,
         w.claimable = v.claimable
  PROVE  Released(v, w, 0)
<1>1. Len(v.queue) \in Nat /\ v.index \in 0..Len(v.queue) /\ v.claimable \in Nat
  BY DueIsNat DEF Sound, WellFormed, Vault
<1>2. \A i \in 1..Len(v.queue) : AssetsOf(v.queue)[i] \in Nat
  BY DueIsNat DEF Sound, AssetsOf, QueueEntry
<1>3. SumTo(AssetsOf(v.queue), v.index) \in Nat
  BY <1>1, <1>2, SumToNat
<1>4. OwedToNext(v, 0) = 0
  BY <1>1, <1>3 DEF OwedToNext
<1>5. 0 \in 0..(Len(v.queue) - v.index) /\ 0 <= ProcessLimit
  BY <1>1, LimitsAssumption
<1> QED BY <1>1, <1>4, <1>5 DEF Released

LEMMA StakeTokensKeepsQueue ==
  ASSUME NEW v, v \in Vault, NEW amount
  PROVE  LET w == StakeTokens(v, amount)
         IN  w.queue = v.queue /\ w.index = v.index /\ w.queued = v.queued
             /\ w.claimable = v.claimable
<1> DEFINE d == v.dlp - amount
           l == v.locked + amount
           w == [v EXCEPT !.dlp = d, !.locked = l]
<1>1. w.queue = v.queue /\ w.index = v.index /\ w.queued = v.queued /\ w.claimable = v.claimable
  <2> HIDE DEF d, l
  <2> QED BY DEF Vault
<1>2. StakeTokens(v, amount) = IF amount < MinDLPBalance THEN v ELSE w
  BY DEF StakeTokens
<1> HIDE DEF w
<1> QED BY <1>1, <1>2

LEMMA StakeDLPKeepsQueue ==
  ASSUME NEW v, v \in Vault
  PROVE  LET w == StakeDLP(v)
         IN  w.queue = v.queue /\ w.index = v.index /\ w.queued = v.queued
             /\ w.claimable = v.claimable
BY StakeTokensKeepsQueue DEF StakeDLP

\* compound() releases what it can.
LEMMA CompoundedReleases ==
  ASSUME NEW v, Sound(v), NEW harvest \in Nat
  PROVE  \E k \in Nat : Released(v, Compounded(v, harvest), k)
<1>1. CASE v.supply = 0
  <2>1. Compounded(v, harvest) = v
    BY <1>1 DEF Compounded
  <2> QED BY <2>1, NoneReleased
<1>2. CASE v.supply # 0
  <2> DEFINE g == v.dlp + harvest
             a == [v EXCEPT !.dlp = g]
             d == a.dlp + a.expired
             l == a.locked - a.expired
             b == [a EXCEPT !.dlp = d, !.locked = l, !.expired = 0]
             c == ProcessWithdrawalQueue(b)
  <2>1. v \in Vault /\ v.supply \in Nat /\ v.dlp \in Nat
    BY TotalAssetsIsInt DEF Sound, WellFormed
  <2>2. a.queue = v.queue /\ a.index = v.index /\ a.queued = v.queued /\ a.claimable = v.claimable
    <3> HIDE DEF g
    <3> QED BY <2>1 DEF Vault
  <2>3. Sound(a)
    <3> DEFINE r == [v EXCEPT !.dlp = @ + harvest, !.supply = v.supply]
    <3>1. Sound(r)
      BY <2>1, ReceivingIsSound
    <3>2. a = r
      BY <2>1 DEF Vault
    <3> HIDE DEF r, a
    <3> QED BY <3>1, <3>2
  <2>4. a \in Vault
    <3> HIDE DEF a
    <3> QED BY <2>3 DEF Sound, WellFormed
  <2> HIDE DEF a
  <2>5. b = WithdrawExpiredLocks(a)
    BY DEF WithdrawExpiredLocks
  <2>6. b.queue = a.queue /\ b.index = a.index /\ b.queued = a.queued /\ b.claimable = a.claimable
    <3> HIDE DEF d, l
    <3> QED BY <2>4 DEF Vault
  <2> HIDE DEF b
  <2>7. Sound(b)
    BY <2>3, <2>5, WithdrawExpiredLocksIsSound
  <2>8. c \in Vault /\ \E k \in Nat : Released(b, c, k)
    BY <2>7, ProcessWithdrawalQueueIsSound DEF Sound, WellFormed
  <2>9. Compounded(v, harvest) = StakeDLP(c)
    BY <1>2, <2>5 DEF Compounded, a, c
  <2> HIDE DEF c
  <2>10. LET w == StakeDLP(c)
         IN  w.queue = c.queue /\ w.index = c.index /\ w.queued = c.queued
             /\ w.claimable = c.claimable
    BY <2>8, StakeDLPKeepsQueue
  <2>11. b.queue = v.queue /\ b.index = v.index /\ b.queued = v.queued /\ b.claimable = v.claimable
    BY <2>2, <2>6
  <2>12. \A k \in Nat : Released(b, c, k) => Released(v, StakeDLP(c), k)
    BY <2>10, <2>11, ReleasedAlike
  <2> QED BY <2>8, <2>9, <2>12
<1> QED BY <1>1, <1>2

Holders == Users \cup {Admin}

\* One entry of a holder is appended.
Queued(m, w, assets, receiver) ==
  /\ w.index = m.index /\ w.claimable = m.claimable
  /\ w.queue = Append(m.queue, [assets |-> assets, receiver |-> receiver, isClaimed |-> FALSE])
  /\ w.queued = m.queued + assets

\* Entries are released, and perhaps one is appended.
Moves(v, w) ==
  \E k \in Nat : \/ Released(v, w, k)
                 \/ \E m : \E assets \in Nat, receiver \in Holders :
                       Released(v, m, k) /\ Queued(m, w, assets, receiver)

LEMMA EnqueueQueues ==
  ASSUME NEW v, v \in Vault, NEW assets, NEW receiver
  PROVE  Queued(v, Enqueue(v, assets, receiver), assets, receiver)
<1> DEFINE o == v.queued + assets
           q == Append(v.queue, [assets |-> assets, receiver |-> receiver,
                                 isClaimed |-> FALSE])
           e == [v EXCEPT !.queued = o, !.queue = q]
<1>1. e.queue = q /\ e.index = v.index /\ e.queued = o /\ e.claimable = v.claimable
  <2> HIDE DEF o, q
  <2> QED BY DEF Vault
<1>2. Enqueue(v, assets, receiver) = e
  BY DEF Enqueue
<1> HIDE DEF e
<1> QED BY <1>1, <1>2 DEF Queued

LEMMA PurchaseMoves ==
  ASSUME NEW v, Sound(v), NEW a, Sound(a), \E k \in Nat : Released(v, a, k),
         NEW assets \in Nat, NEW minted \in Nat
  PROVE  Moves(v, StakeDLP([a EXCEPT !.dlp = @ + assets, !.supply = @ + minted]))
<1> DEFINE d == a.dlp + assets
           s == a.supply + minted
           b == [a EXCEPT !.dlp = d, !.supply = s]
           w == StakeDLP(b)
<1>1. a \in Vault /\ d \in Nat /\ s \in Nat
  BY TotalAssetsIsInt DEF Sound, WellFormed
<1>2. /\ b \in Vault /\ b.queue = a.queue /\ b.index = a.index /\ b.queued = a.queued
      /\ b.claimable = a.claimable
  <2> HIDE DEF d, s
  <2> QED BY <1>1 DEF Vault
<1>3. [a EXCEPT !.dlp = @ + assets, !.supply = @ + minted] = b
  OBVIOUS
<1> HIDE DEF b
<1>4. w.queue = b.queue /\ w.index = b.index /\ w.queued = b.queued /\ w.claimable = b.claimable
  BY <1>2, StakeDLPKeepsQueue
<1> HIDE DEF w
<1>5. \A k \in Nat : Released(v, a, k) => Released(v, w, k)
  BY <1>2, <1>4, ReleasedAlike
<1>6. Moves(v, w)
  BY <1>5 DEF Moves
<1> QED BY <1>3, <1>6 DEF w

LEMMA ExitMoves ==
  ASSUME NEW v, NEW a, a \in Vault, \E k \in Nat : Released(v, a, k),
         NEW assets \in Nat, NEW receiver \in Holders, NEW burned
  PROVE  Moves(v, [Enqueue(a, assets, receiver) EXCEPT !.supply = @ - burned])
<1> DEFINE e == Enqueue(a, assets, receiver)
           s == e.supply - burned
           w == [e EXCEPT !.supply = s]
<1>1. Queued(a, e, assets, receiver)
  BY EnqueueQueues
<1>2. w.queue = e.queue /\ w.index = e.index /\ w.queued = e.queued /\ w.claimable = e.claimable
  <2> DEFINE o == a.queued + assets
             q == Append(a.queue, [assets |-> assets, receiver |-> receiver,
                                   isClaimed |-> FALSE])
  <2>1. e = [a EXCEPT !.queued = o, !.queue = q]
    BY DEF Enqueue
  <2> HIDE DEF s, o, q, e
  <2> QED BY <2>1 DEF Vault
<1>3. w = [e EXCEPT !.supply = @ - burned]
  OBVIOUS
<1> HIDE DEF w, e
<1>4. Queued(a, w, assets, receiver)
  BY <1>1, <1>2 DEF Queued
<1> QED BY <1>3, <1>4 DEF Moves, e

\* Every step but a claim.
LEMMA StepMoves ==
  ASSUME IInv, [Next]_vars, ~ \E i \in 1..Len(vault.queue) : Claim(i)
  PROVE  Moves(vault, vault')
<1>1. Sound(vault) /\ vault \in Vault
  BY IInvMeans DEF Sound, WellFormed
<1>2. ASSUME vault'.queue = vault.queue, vault'.index = vault.index,
             vault'.queued = vault.queued, vault'.claimable = vault.claimable
      PROVE  Moves(vault, vault')
  <2>1. Released(vault, vault', 0)
    BY <1>1, <1>2, NoneReleased
  <2> QED BY <2>1 DEF Moves
<1>3. ASSUME NEW h \in Harvests, CanCompound(vault, h)
      PROVE  /\ Sound(Compounded(vault, h)) /\ Compounded(vault, h) \in Vault
             /\ \E k \in Nat : Released(vault, Compounded(vault, h), k)
  <2>1. h \in Nat /\ Sound(Compounded(vault, h))
    BY <1>3, CompoundPrefix
  <2> QED BY <1>1, <2>1, CompoundedReleases DEF Sound, WellFormed
<1>4. ASSUME NEW h \in Harvests, Compound(h) PROVE Moves(vault, vault')
  BY <1>3, <1>4 DEF Compound, Moves
<1>5. ASSUME NEW u \in Users, NEW r \in Users, NEW a \in Amounts, NEW h \in Harvests,
             Deposit(u, r, a, h) \/ Mint(u, r, a, h)
      PROVE  Moves(vault, vault')
  <2> PICK price, minted, charged \in Nat :
         /\ CanCompound(vault, h)
         /\ Purchase(Compounded(vault, h), u, r, price, minted, charged, h)
    BY <1>5, DepositBuys, MintBuys
  <2>1. vault' = StakeDLP([Compounded(vault, h) EXCEPT !.dlp = @ + price, !.supply = @ + minted])
    BY DEF Purchase
  <2> QED BY <1>1, <1>3, <2>1, PurchaseMoves
<1>7. ASSUME NEW u \in Users, NEW r \in Users, NEW a \in Amounts, NEW h \in Harvests,
             Withdraw(u, r, a, h) \/ Redeem(u, r, a, h)
      PROVE  Moves(vault, vault')
  <2> PICK paid, burned, feeShares \in Nat :
         /\ CanCompound(vault, h)
         /\ Exit(Compounded(vault, h), u, r, paid, burned, feeShares, h)
    BY <1>7, WithdrawExits, RedeemExits
  <2>1. vault' = [Enqueue(Compounded(vault, h), paid, r) EXCEPT !.supply = @ - burned]
    BY DEF Exit
  <2> QED BY <1>3, <2>1, ExitMoves DEF Holders
<1>8. ASSUME NEW a \in Amounts, BoostDLP(a) PROVE Moves(vault, vault')
  <2> DEFINE d == vault.dlp + a
             b == vault.boosted + a
             w == [vault EXCEPT !.dlp = d, !.boosted = b]
  <2>1. d \in Nat /\ b \in Nat
    BY <1>1, TotalAssetsIsInt, AmountsAssumption
  <2>2. /\ w \in Vault /\ w.queue = vault.queue /\ w.index = vault.index
        /\ w.queued = vault.queued /\ w.claimable = vault.claimable
    <3> HIDE DEF d, b
    <3> QED BY <1>1, <2>1 DEF Vault
  <2>3. vault' = StakeTokens(w, a)
    BY <1>8 DEF BoostDLP
  <2> HIDE DEF w
  <2> QED BY <1>2, <2>2, <2>3, StakeTokensKeepsQueue
<1>9. ASSUME NEW a \in Amounts, UnboostDLP(a) PROVE Moves(vault, vault')
  <2> DEFINE e == Enqueue(vault, a, Admin)
             b == e.boosted - a
             w == [e EXCEPT !.boosted = b]
             o == vault.queued + a
             q == Append(vault.queue, [assets |-> a, receiver |-> Admin, isClaimed |-> FALSE])
  <2>1. vault' = w
    BY <1>9 DEF UnboostDLP
  <2>2. w.queue = e.queue /\ w.index = e.index /\ w.queued = e.queued /\ w.claimable = e.claimable
    <3>1. e = [vault EXCEPT !.queued = o, !.queue = q]
      BY DEF Enqueue
    <3> HIDE DEF b, e, o, q
    <3> QED BY <3>1 DEF Vault
  <2>3. Queued(vault, e, a, Admin)
    BY <1>1, EnqueueQueues
  <2> HIDE DEF w, e
  <2>4. Queued(vault, w, a, Admin)
    BY <2>2, <2>3 DEF Queued
  <2>5. a \in Nat /\ Admin \in Holders
    BY AmountsAssumption DEF Holders
  <2>6. Released(vault, vault, 0)
    BY <1>1, NoneReleased
  <2> QED BY <2>1, <2>4, <2>5, <2>6 DEF Moves
<1>10. ASSUME WithdrawDLP PROVE Moves(vault, vault')
  <2> DEFINE v == ProcessWithdrawalQueue(vault)
             w == [v EXCEPT !.dlp = v.claimable]
  <2>1. v \in Vault /\ \E k \in Nat : Released(vault, v, k)
    BY <1>1, ProcessWithdrawalQueueIsSound DEF Sound, WellFormed
  <2> HIDE DEF v
  <2>2. w.queue = v.queue /\ w.index = v.index /\ w.queued = v.queued /\ w.claimable = v.claimable
    BY <2>1 DEF Vault
  <2>3. vault' = w
    BY <1>10 DEF WithdrawDLP, v
  <2> HIDE DEF w
  <2>4. \A k \in Nat : Released(vault, v, k) => Released(vault, w, k)
    BY <2>2, ReleasedAlike
  <2> QED BY <2>1, <2>3, <2>4 DEF Moves
<1>11. ASSUME NEW a \in Amounts, LocksExpire(a) PROVE Moves(vault, vault')
  <2> DEFINE x == vault.expired + a
             w == [vault EXCEPT !.expired = x]
  <2>1. vault' = w
    BY <1>11 DEF LocksExpire
  <2>2. /\ w.queue = vault.queue /\ w.index = vault.index
        /\ w.queued = vault.queued /\ w.claimable = vault.claimable
    <3> HIDE DEF x
    <3> QED BY <1>1 DEF Vault
  <2> HIDE DEF w
  <2> QED BY <1>2, <2>1, <2>2
<1>12. ASSUME UNCHANGED vault PROVE Moves(vault, vault')
  BY <1>2, <1>12
<1>13. \/ \E d, w \in FeeRates : SetFee(d, w)
       \/ \E c \in Caps : SetVaultCap(c)
       \/ \E u, r \in Users, a \in Amounts : TransferShares(u, r, a)
       \/ UNCHANGED vars
       => UNCHANGED vault
  BY DEF SetFee, SetVaultCap, TransferShares, vars
<1> QED
  BY <1>4, <1>5, <1>7, <1>8, <1>9, <1>10, <1>11, <1>12, <1>13 DEF Next

---------------------------------------------------------------------------------
(* Payments.                                                                   *)

\* What a claim does to the queue: the one entry is marked, the others stay.
LEMMA ClaimMarks ==
  ASSUME IInv, NEW i \in 1..Len(vault.queue), Claim(i)
  PROVE  LET e == vault.queue[i]
         IN  /\ e \in QueueEntry /\ ~ e.isClaimed /\ i <= vault.index
             /\ vault'.queue = [vault.queue EXCEPT ![i] = [e EXCEPT !.isClaimed = TRUE]]
             /\ Len(vault'.queue) = Len(vault.queue)
             /\ vault'.queue[i] = [e EXCEPT !.isClaimed = TRUE]
             /\ vault'.queue[i] # e
             /\ \A j \in 1..Len(vault.queue) : j # i => vault'.queue[j] = vault.queue[j]
             /\ vault'.index = vault.index
             /\ vault'.queued = vault.queued - e.assets
             /\ vault'.claimable = vault.claimable - e.assets
             /\ vault'.dlp = vault.dlp - e.assets
             /\ wallet' = [wallet EXCEPT ![e.receiver] = @ + e.assets]
<1> DEFINE e == vault.queue[i]
           p == [e EXCEPT !.isClaimed = TRUE]
           q == [vault.queue EXCEPT ![i] = p]
           o == vault.queued - e.assets
           c == vault.claimable - e.assets
           d == vault.dlp - e.assets
           w == [vault EXCEPT !.queue = q, !.queued = o, !.claimable = c, !.dlp = d]
<1>1. /\ i <= vault.index /\ ~ e.isClaimed /\ vault' = w
      /\ wallet' = [wallet EXCEPT ![e.receiver] = @ + e.assets]
  BY DEF Claim, PayEntry
<1>2. /\ vault \in Vault /\ vault.queue \in Seq(QueueEntry) /\ e \in QueueEntry
      /\ Len(vault.queue) \in Nat
  <2>1. Sound(vault)
    BY IInvMeans
  <2> QED BY <2>1, DueIsNat DEF Sound, WellFormed, Vault
<1>3. /\ w.queue = q /\ w.queued = o /\ w.claimable = c /\ w.dlp = d /\ w.index = vault.index
  <2> HIDE DEF q, o, c, d
  <2> QED BY <1>2 DEF Vault
<1>4. p \in QueueEntry /\ p # e
  <2>1. p.isClaimed = TRUE /\ p \in QueueEntry
    <3> HIDE DEF e
    <3> QED BY <1>2 DEF QueueEntry
  <2> HIDE DEF p
  <2> QED BY <1>1, <2>1
<1>5. /\ Len(q) = Len(vault.queue) /\ q[i] = p
      /\ \A j \in 1..Len(vault.queue) : j # i => q[j] = vault.queue[j]
  <2> HIDE DEF p
  <2> QED BY <1>2, <1>4
<1> HIDE DEF w
<1>6. e = vault.queue[i] /\ p = [e EXCEPT !.isClaimed = TRUE]
      /\ q = [vault.queue EXCEPT ![i] = p]
      /\ o = vault.queued - e.assets /\ c = vault.claimable - e.assets
      /\ d = vault.dlp - e.assets
  OBVIOUS
<1> HIDE DEF e, p, q, o, c, d
<1> QED BY <1>1, <1>2, <1>3, <1>4, <1>5, <1>6

\* What is released or appended leaves the entries that are there alone.
LEMMA MovesKeepEntries ==
  ASSUME NEW v, v \in Vault, NEW w, Moves(v, w)
  PROVE  \A i \in 1..Len(v.queue) : w.queue[i] = v.queue[i]
<1> PICK k \in Nat : \/ Released(v, w, k)
                     \/ \E m : \E assets \in Nat, receiver \in Holders :
                           Released(v, m, k) /\ Queued(m, w, assets, receiver)
  BY DEF Moves
<1>1. CASE Released(v, w, k)
  BY <1>1 DEF Released
<1>2. ASSUME NEW m, NEW assets \in Nat, NEW receiver \in Holders,
             Released(v, m, k), Queued(m, w, assets, receiver)
      PROVE  \A i \in 1..Len(v.queue) : w.queue[i] = v.queue[i]
  <2> DEFINE e == [assets |-> assets, receiver |-> receiver, isClaimed |-> FALSE]
  <2>1. w.queue = Append(v.queue, e)
    BY <1>2 DEF Released, Queued
  <2>2. v.queue \in Seq(QueueEntry) /\ Len(v.queue) \in Nat
    BY DEF Vault
  <2> HIDE DEF e
  <2> QED BY <2>1, <2>2
<1> QED BY <1>1, <1>2

\* Money raises only the wallets of the admin, the treasury and the pool, but for a claim.
LEMMA OnlyClaimsPay ==
  ASSUME IInv, [Next]_vars, ~ \E i \in 1..Len(vault.queue) : Claim(i), NEW u \in Users
  PROVE  wallet'[u] <= wallet[u]
<1>1. /\ wallet \in [Accounts -> Nat] /\ u \in Accounts /\ wallet[u] \in Nat
      /\ u # Admin /\ u # Treasury /\ u # Pool
      /\ Admin \in Accounts /\ Treasury \in Accounts /\ Pool \in Accounts
  <2>1. wallet \in [Accounts -> Nat]
    BY IInvMeans
  <2> QED BY <2>1, AccountsAssumption DEF Accounts
<1>2. ASSUME NEW a \in Users, NEW r \in Users, NEW x \in Amounts, NEW h \in Harvests,
             Deposit(a, r, x, h) \/ Mint(a, r, x, h)
      PROVE  wallet'[u] <= wallet[u]
  <2> PICK price, minted, charged \in Nat :
         Purchase(Compounded(vault, h), a, r, price, minted, charged, h)
    BY <1>2, DepositBuys, MintBuys
  <2> DEFINE paid == price + charged
  <2>1. paid \in Nat
        /\ wallet' = [wallet EXCEPT ![Pool] = @ - h, ![a] = @ - paid, ![Treasury] = @ + charged]
    BY DEF Purchase
  <2>2. a # Pool /\ a # Treasury /\ a \in Accounts
    BY AccountsAssumption DEF Accounts
  <2> HIDE DEF paid
  <2>3. wallet'[u] = IF u = a THEN wallet[u] - paid ELSE wallet[u]
    BY <1>1, <2>1, <2>2
  <2> QED BY <1>1, <2>1, <2>3
<1>3. ASSUME NEW a \in Users, NEW r \in Users, NEW x \in Amounts, NEW h \in Harvests,
             Withdraw(a, r, x, h) \/ Redeem(a, r, x, h)
      PROVE  wallet'[u] <= wallet[u]
  <2> PICK paid, burned, feeShares \in Nat :
         Exit(Compounded(vault, h), a, r, paid, burned, feeShares, h)
    BY <1>3, WithdrawExits, RedeemExits
  <2>1. wallet' = [wallet EXCEPT ![Pool] = @ - h]
    BY DEF Exit
  <2> QED BY <1>1, <2>1
<1>4. ASSUME NEW h \in Harvests, Compound(h) PROVE wallet'[u] <= wallet[u]
  BY <1>1, <1>4 DEF Compound
<1>5. ASSUME NEW a \in Amounts, BoostDLP(a) PROVE wallet'[u] <= wallet[u]
  BY <1>1, <1>5 DEF BoostDLP
<1>6. ASSUME WithdrawDLP PROVE wallet'[u] <= wallet[u]
  BY <1>1, <1>6 DEF WithdrawDLP
<1>7. \/ \E a \in Amounts : UnboostDLP(a)
      \/ \E d, w \in FeeRates : SetFee(d, w)
      \/ \E c \in Caps : SetVaultCap(c)
      \/ \E a, r \in Users, x \in Amounts : TransferShares(a, r, x)
      \/ \E a \in Amounts : LocksExpire(a)
      \/ UNCHANGED vars
      => wallet' = wallet
  BY DEF UnboostDLP, SetFee, SetVaultCap, TransferShares, LocksExpire, vars
<1> QED BY <1>1, <1>2, <1>3, <1>4, <1>5, <1>6, <1>7 DEF Next

\* DLP reaches a user only as the payment of an entry, of its assets and to its receiver,
\* once; no step rewrites an entry in any other way, however entries are queued, released
\* and claimed in between.
THEOREM PaymentsAreMatched == Spec => PaymentsMatchEntries
<1> DEFINE Paid(i) ==
             LET before == vault.queue[i]
                 after == vault'.queue[i]
             IN  \/ after = before
                 \/ /\ ~before.isClaimed
                    /\ after = [before EXCEPT !.isClaimed = TRUE]
                    /\ wallet' = [wallet EXCEPT ![before.receiver] = @ + before.assets]
                    /\ vault'.dlp = vault.dlp - before.assets
           Reached(u) == wallet'[u] > wallet[u] =>
                           \E i \in 1..Len(vault.queue) : vault'.queue[i] # vault.queue[i]
<1>1. ASSUME IInv, [Next]_vars, NEW j \in 1..Len(vault.queue), Claim(j)
      PROVE  /\ \A i \in 1..Len(vault.queue) : Paid(i)
             /\ \A u \in Users : Reached(u)
  BY <1>1, ClaimMarks
<1>2. ASSUME IInv, [Next]_vars, ~ \E i \in 1..Len(vault.queue) : Claim(i)
      PROVE  /\ \A i \in 1..Len(vault.queue) : Paid(i)
             /\ \A u \in Users : Reached(u)
  <2>1. vault \in Vault
    BY <1>2 DEF IInv, TypeOK, WellFormed
  <2>2. \A i \in 1..Len(vault.queue) : vault'.queue[i] = vault.queue[i]
    BY <1>2, <2>1, StepMoves, MovesKeepEntries
  <2>3. ASSUME NEW u \in Users PROVE ~ (wallet'[u] > wallet[u])
    <3>1. wallet'[u] <= wallet[u]
      BY <1>2, OnlyClaimsPay
    <3>2. wallet[u] \in Nat /\ wallet'[u] \in Nat
      <4>1. IInv'
        BY <1>2, StepIsGood
      <4>2. wallet \in [Accounts -> Nat] /\ wallet' \in [Accounts -> Nat] /\ u \in Accounts
        BY <1>2, <4>1 DEF IInv, TypeOK, Accounts
      <4> QED BY <4>2
    <3> QED BY <3>1, <3>2
  <2> QED BY <2>2, <2>3
<1>3. IInv /\ [Next]_vars => /\ \A i \in 1..Len(vault.queue) : Paid(i)
                             /\ \A u \in Users : Reached(u)
  BY <1>1, <1>2
<1> QED BY <1>3, Invariance, PTL DEF Spec, PaymentsMatchEntries

---------------------------------------------------------------------------------
(* The price of a share.                                                       *)

\* Shares bought at a fair price do not lower it: t, tv are the assets before and after
\* compounding, s the supply.
LEMMA BuyingKeepsPrice ==
  ASSUME NEW t \in Int, NEW tv \in Int, NEW s \in Nat, NEW minted \in Nat, NEW price \in Nat,
         t <= tv, minted * tv <= price * s
  PROVE  (tv + price) * s >= t * (s + minted)
<1>1. t * (s + minted) <= tv * (s + minted)
  <2> DEFINE n == s + minted
  <2>1. n \in Nat
    OBVIOUS
  <2> HIDE DEF n
  <2>2. t * n <= tv * n
    BY <2>1
  <2> QED BY <2>2 DEF n
<1>2. tv * (s + minted) = tv * s + minted * tv
  OBVIOUS
<1>3. (tv + price) * s = tv * s + price * s
  OBVIOUS
<1> DEFINE a == tv * s
           b == minted * tv
           c == price * s
           d == t * (s + minted)
<1>4. a \in Int /\ b \in Int /\ c \in Int /\ d \in Int
  OBVIOUS
<1>5. d <= a + b /\ (tv + price) * s = a + c /\ b <= c
  BY <1>1, <1>2, <1>3
<1> HIDE DEF a, b, c, d
<1>6. a + c >= d
  BY <1>4, <1>5
<1> QED BY <1>5, <1>6 DEF d

\* Nor do shares that are burned for no more than they are worth.
LEMMA LeavingKeepsPrice ==
  ASSUME NEW t \in Int, NEW tv \in Int, NEW s \in Nat, NEW burned \in 0..s, NEW paid \in Nat,
         t <= tv, paid * s <= burned * tv
  PROVE  (tv - paid) * s >= t * (s - burned)
<1>1. t * (s - burned) <= tv * (s - burned)
  <2> DEFINE n == s - burned
  <2>1. n \in Nat
    OBVIOUS
  <2> HIDE DEF n
  <2>2. t * n <= tv * n
    BY <2>1
  <2> QED BY <2>2 DEF n
<1>2. tv * (s - burned) = tv * s - burned * tv
  OBVIOUS
<1>3. (tv - paid) * s = tv * s - paid * s
  OBVIOUS
<1> DEFINE a == tv * s
           b == burned * tv
           c == paid * s
           d == t * (s - burned)
<1>4. a \in Int /\ b \in Int /\ c \in Int /\ d \in Int
  OBVIOUS
<1>5. d <= a - b /\ (tv - paid) * s = a - c /\ c <= b
  BY <1>1, <1>2, <1>3
<1> HIDE DEF a, b, c, d
<1>6. a - c >= d
  BY <1>4, <1>5
<1> QED BY <1>5, <1>6 DEF d

\* Assets that do not fall behind shares whose number stays.
LEMMA SameSupplyKeepsPrice ==
  ASSUME NEW t \in Int, NEW u \in Int, NEW s \in Nat, t <= u
  PROVE  u * s >= t * s
OBVIOUS

KeepsPrice == TotalAssets(vault') * vault.supply >= TotalAssets(vault) * vault'.supply

LEMMA PriceStep ==
  ASSUME IInv, Next, ~ WithdrawDLP, vault.supply > 0
  PROVE  KeepsPrice
<1> DEFINE t == TotalAssets(vault)
           s == vault.supply
<1>1. /\ Sound(vault) /\ vault \in Vault /\ t \in Int /\ s \in Nat
  <2>1. Sound(vault) /\ vault \in Vault
    BY IInvMeans DEF Sound, WellFormed
  <2> QED BY <2>1, TotalAssetsIsInt
<1>2. ASSUME NEW h \in Harvests, CanCompound(vault, h)
      PROVE  LET v == Compounded(vault, h)
             IN  Sound(v) /\ v \in Vault /\ v.supply = s
                 /\ TotalAssets(v) \in Int /\ t <= TotalAssets(v)
  <2>1. h \in Nat /\ Sound(Compounded(vault, h)) /\ Compounded(vault, h).supply = s
    BY <1>2, CompoundPrefix
  <2>2. TotalAssets(Compounded(vault, h)) \in Int /\ t <= TotalAssets(Compounded(vault, h))
    BY <1>1, <2>1, CompoundingKeepsBacking
  <2> QED BY <2>1, <2>2 DEF Sound, WellFormed
<1>3. ASSUME vault'.supply = s, TotalAssets(vault') \in Int, t <= TotalAssets(vault')
      PROVE  KeepsPrice
  <2> DEFINE u == TotalAssets(vault')
  <2>1. u \in Int /\ t <= u
    BY <1>3
  <2> HIDE DEF u, t, s
  <2>2. u * s >= t * s
    BY <1>1, <2>1, SameSupplyKeepsPrice
  <2> QED BY <1>3, <2>2 DEF KeepsPrice, u, t, s
<1>4. ASSUME NEW h \in Harvests, Compound(h) PROVE KeepsPrice
  BY <1>2, <1>3, <1>4 DEF Compound
<1>5. ASSUME NEW u \in Users, NEW r \in Users, NEW a \in Amounts, NEW h \in Harvests,
             Deposit(u, r, a, h) \/ Mint(u, r, a, h)
      PROVE  KeepsPrice
  <2> DEFINE v == Compounded(vault, h)
             tv == TotalAssets(v)
  <2> PICK price, minted, charged \in Nat :
         /\ CanCompound(vault, h)
         /\ Purchase(v, u, r, price, minted, charged, h)
    BY <1>5, DepositBuys, MintBuys
  <2>1. Sound(v) /\ v.supply = s /\ tv \in Int /\ t <= tv
    BY <1>2
  <2>2. /\ vault' = StakeDLP([v EXCEPT !.dlp = @ + price, !.supply = @ + minted])
        /\ minted * tv <= price * s
    BY <2>1 DEF Purchase
  <2> HIDE DEF v
  <2>3. TotalAssets(vault') = tv + price /\ vault'.supply = s + minted
    BY <2>1, <2>2, PurchaseKeepsBacking, PurchaseIsSound
  <2> HIDE DEF tv, t, s
  <2>4. (tv + price) * s >= t * (s + minted)
    BY <1>1, <2>1, <2>2, BuyingKeepsPrice
  <2> QED BY <2>3, <2>4 DEF KeepsPrice, t, s
<1>6. ASSUME NEW u \in Users, NEW r \in Users, NEW a \in Amounts, NEW h \in Harvests,
             Withdraw(u, r, a, h) \/ Redeem(u, r, a, h)
      PROVE  KeepsPrice
  <2> DEFINE v == Compounded(vault, h)
             tv == TotalAssets(v)
  <2> PICK paid, burned, feeShares \in Nat :
         /\ CanCompound(vault, h)
         /\ FairExit(v, paid, burned)
         /\ Exit(v, u, r, paid, burned, feeShares, h)
    BY <1>6, WithdrawExits, RedeemExits
  <2>1. Sound(v) /\ v \in Vault /\ v.supply = s /\ tv \in Int /\ t <= tv
    BY <1>2
  <2>2. /\ vault' = [Enqueue(v, paid, r) EXCEPT !.supply = @ - burned]
        /\ paid * s <= burned * tv /\ burned <= s
    BY <2>1 DEF Exit, FairExit
  <2> HIDE DEF v
  <2>3. TotalAssets(vault') = tv - paid
    BY <2>1, <2>2, ExitTakesItsAssets
  <2>4. vault'.supply = s - burned
    <3> DEFINE o == v.queued + paid
               q == Append(v.queue, [assets |-> paid, receiver |-> r, isClaimed |-> FALSE])
               e == [v EXCEPT !.queued = o, !.queue = q]
    <3>1. e.supply = s /\ e = Enqueue(v, paid, r) /\ "supply" \in DOMAIN e
      <4>1. e.supply = s /\ "supply" \in DOMAIN e
        <5> HIDE DEF o, q, s
        <5> QED BY <2>1 DEF Vault
      <4> QED BY <4>1 DEF Enqueue
    <3> HIDE DEF e
    <3> QED BY <2>2, <3>1
  <2> HIDE DEF tv, t, s
  <2>5. (tv - paid) * s >= t * (s - burned)
    <3>1. burned \in 0..s
      BY <1>1, <2>2
    <3> QED BY <1>1, <2>1, <2>2, <3>1, LeavingKeepsPrice
  <2> QED BY <2>3, <2>4, <2>5 DEF KeepsPrice, t, s
<1>7. ASSUME NEW i \in 1..Len(vault.queue), Claim(i) PROVE KeepsPrice
  <2>1. vault.queue[i].assets \in Nat
    BY <1>1, DueIsNat DEF Sound, QueueEntry
  <2>2. vault' = [vault EXCEPT !.queue[i].isClaimed = TRUE,
                               !.queued = @ - vault.queue[i].assets,
                               !.claimable = @ - vault.queue[i].assets,
                               !.dlp = @ - vault.queue[i].assets]
    BY <1>7 DEF Claim, PayEntry
  <2>3. TotalAssets(vault') = t
    BY <1>1, <2>1, <2>2, PaymentKeepsBacking
  <2>4. vault'.supply = s
    BY <1>1, <2>2 DEF Vault
  <2> QED BY <1>1, <1>3, <2>3, <2>4
<1>8. ASSUME NEW a \in Amounts, BoostDLP(a) PROVE KeepsPrice
  <2>1. a \in Nat
    BY AmountsAssumption
  <2>2. TotalAssets(vault') = t
    BY <1>1, <1>8, <2>1, BoostKeepsBacking DEF BoostDLP
  <2>3. vault'.supply = s
    <3> DEFINE d == vault.dlp + a
               b == vault.boosted + a
               w == [vault EXCEPT !.dlp = d, !.boosted = b]
    <3>1. w.supply = s /\ w \in Vault
      <4>1. d \in Nat /\ b \in Nat
        BY <1>1, <2>1, TotalAssetsIsInt
      <4> HIDE DEF d, b
      <4> QED BY <1>1, <4>1 DEF Vault
    <3>2. vault' = StakeTokens(w, a)
      BY <1>8 DEF BoostDLP
    <3> HIDE DEF w
    <3> DEFINE y == w.dlp - a
               l == w.locked + a
               x == [w EXCEPT !.dlp = y, !.locked = l]
    <3>3. StakeTokens(w, a) = IF a < MinDLPBalance THEN w ELSE x
      BY DEF StakeTokens
    <3>4. x.supply = w.supply
      <4> HIDE DEF y, l
      <4> QED BY <3>1 DEF Vault
    <3> HIDE DEF x
    <3> QED BY <3>1, <3>2, <3>3, <3>4
  <2> QED BY <1>1, <1>3, <2>2, <2>3
<1>9. ASSUME NEW a \in Amounts, UnboostDLP(a) PROVE KeepsPrice
  <2>1. a \in Nat
    BY AmountsAssumption
  <2>2. TotalAssets(vault') = t
    BY <1>1, <1>9, <2>1, UnboostKeepsBacking DEF UnboostDLP
  <2>3. vault'.supply = s
    <3> DEFINE o == vault.queued + a
               q == Append(vault.queue, [assets |-> a, receiver |-> Admin, isClaimed |-> FALSE])
               e == [vault EXCEPT !.queued = o, !.queue = q]
               b == e.boosted - a
    <3>1. vault' = [e EXCEPT !.boosted = b]
      BY <1>9 DEF UnboostDLP, Enqueue
    <3> HIDE DEF b, o, q
    <3> QED BY <1>1, <3>1 DEF Vault
  <2> QED BY <1>1, <1>3, <2>2, <2>3
<1>10. ASSUME NEW a \in Amounts, LocksExpire(a) PROVE KeepsPrice
  <2> DEFINE x == vault.expired + a
             w == [vault EXCEPT !.expired = x]
  <2>1. vault' = w
    BY <1>10 DEF LocksExpire
  <2>2. /\ w.dlp = vault.dlp /\ w.locked = vault.locked /\ w.queued = vault.queued
        /\ w.boosted = vault.boosted /\ w.supply = vault.supply
    <3> HIDE DEF x
    <3> QED BY <1>1 DEF Vault
  <2> HIDE DEF w
  <2>3. TotalAssets(vault') = t /\ vault'.supply = s
    BY <2>1, <2>2 DEF TotalAssets
  <2> QED BY <1>1, <1>3, <2>3
<1>11. \/ \E d, w \in FeeRates : SetFee(d, w)
       \/ \E c \in Caps : SetVaultCap(c)
       \/ \E u, r \in Users, a \in Amounts : TransferShares(u, r, a)
       => UNCHANGED vault
  BY DEF SetFee, SetVaultCap, TransferShares
<1>12. ASSUME UNCHANGED vault PROVE KeepsPrice
  BY <1>1, <1>3, <1>12
<1> QED BY <1>4, <1>5, <1>6, <1>7, <1>8, <1>9, <1>10, <1>11, <1>12 DEF Next

\* What one share is worth never falls but by a sweep: every rounding of deposit, mint,
\* withdraw and redeem, and every fee, leaves the remaining holders no worse off, and the
\* release, payment, boosting and locking of DLP do not touch the price.
THEOREM SharesKeepTheirPrice == Spec => SharePriceNeverFalls
<1>1. IInv /\ [Next]_vars
        => [ /\ vault.supply > 0 /\ vault'.supply > 0
             /\ ~ WithdrawDLP
             => TotalAssets(vault)' * vault.supply >= TotalAssets(vault) * vault'.supply]_vars
  <2>1. TotalAssets(vault)' = TotalAssets(vault')
    BY DEF TotalAssets
  <2> QED BY <2>1, PriceStep DEF KeepsPrice
<1> QED BY <1>1, Invariance, PTL DEF Spec, SharePriceNeverFalls

---------------------------------------------------------------------------------
(* The vault implements WithdrawalTickets.  What is released is the first k    *)
(* waiting tickets, because entries are claimed only after they are released;  *)
(* what is appended is one waiting ticket.                                     *)

TicketVars == <<TicketView, vault.queued, vault.claimable>>

LEMMA LastIsAppended ==
  ASSUME NEW T, NEW t \in Seq(T), NEW n \in Nat, Len(t) = n + 1
  PROVE  SubSeq(t, n + 1, Len(t)) = <<t[n + 1]>>
<1> DEFINE u == SubSeq(t, n + 1, n + 1)
<1>1. u = [i \in 1..1 |-> t[n + i]] /\ u \in Seq(T)
  OBVIOUS
<1>2. Len(u) = 1 /\ u[1] = t[n + 1]
  BY <1>1
<1> HIDE DEF u
<1>3. u = <<t[n + 1]>>
  BY <1>1, <1>2
<1> QED BY <1>3, Zenon DEF u

LEMMA SamePrefixSum == \A f, n : Tickets!SumTo(f, n) = SumTo(f, n)
BY DEF Tickets!SumTo, SumTo

\* The tickets that correspond to a queue with the first `index' entries released.
ViewOf(queue, index) ==
  [i \in 1..Len(queue) |->
     [assets   |-> queue[i].assets,
      receiver |-> queue[i].receiver,
      state    |-> IF queue[i].isClaimed THEN "paid"
                   ELSE IF i <= index THEN "payable" ELSE "waiting"]]

LEMMA TicketViewIs ==
  /\ TicketView = ViewOf(vault.queue, vault.index)
  /\ TicketView' = ViewOf(vault'.queue, vault'.index)
BY DEF TicketView, ViewOf

\* Any record with the fields of a ticket.
Slot == [assets : Nat, receiver : Accounts, state : {"waiting", "payable", "paid"}]

LEMMA ViewIsSequence ==
  ASSUME NEW q \in Seq(QueueEntry), NEW x
  PROVE  /\ ViewOf(q, x) \in Seq(Slot) /\ Len(ViewOf(q, x)) = Len(q)
         /\ \A i \in 1..Len(q) : ViewOf(q, x)[i] \in Slot
<1>1. ASSUME NEW i \in 1..Len(q)
      PROVE  [assets   |-> q[i].assets,
              receiver |-> q[i].receiver,
              state    |-> IF q[i].isClaimed THEN "paid"
                           ELSE IF i <= x THEN "payable" ELSE "waiting"] \in Slot
  <2>1. q[i] \in QueueEntry
    OBVIOUS
  <2> QED BY <2>1 DEF QueueEntry, Slot
<1>2. ViewOf(q, x) \in [1..Len(q) -> Slot]
  BY <1>1 DEF ViewOf
<1>3. Len(q) \in Nat
  OBVIOUS
<1> QED BY <1>2, <1>3

\* The first k waiting tickets are the k entries after the released ones.
LEMMA FirstWaitingAre ==
  ASSUME Sound(vault), NEW k \in 0..(Len(vault.queue) - vault.index)
  PROVE  Tickets!FirstWaiting(k) = (vault.index + 1)..(vault.index + k)
<1> DEFINE n == Len(vault.queue)
           x == vault.index
<1>1. n \in Nat /\ x \in 0..n /\ k \in Nat /\ x + k <= n
  BY DueIsNat DEF Sound
<1>2. \A i \in 1..n : TicketView[i].state = "waiting" <=> i > x
  <2>1. ASSUME NEW i \in 1..n PROVE TicketView[i].state = "waiting" <=> i > x
    <3>1. vault.queue[i].isClaimed => i <= x
      BY DEF Sound, Accounted
    <3>2. TicketView[i].state = IF vault.queue[i].isClaimed THEN "paid"
                                ELSE IF i <= x THEN "payable" ELSE "waiting"
      BY DEF TicketView
    <3> QED BY <1>1, <3>1, <3>2
  <2> QED BY <2>1
<1>3. Len(TicketView) = n
  BY <1>1 DEF TicketView
<1>4. Tickets!Waiting = (x + 1)..n
  <2> HIDE DEF n, x
  <2>1. Tickets!Waiting = {i \in 1..n : TicketView[i].state = "waiting"}
    BY <1>3 DEF Tickets!Waiting
  <2> QED BY <1>1, <1>2, <2>1
<1>5. Tickets!FirstWaiting(k) = {i \in (x + 1)..n : \A j \in 1..(i - k) : j \notin (x + 1)..n}
  BY <1>4 DEF Tickets!FirstWaiting
<1> HIDE DEF n, x
<1>6. ASSUME NEW i \in (x + 1)..n
      PROVE  (\A j \in 1..(i - k) : j \notin (x + 1)..n) <=> i <= x + k
  <2>1. CASE i <= x + k
    BY <1>1, <2>1
  <2>2. CASE i > x + k
    <3>1. i - k \in 1..(i - k) /\ i - k \in (x + 1)..n
      BY <1>1, <2>2
    <3> QED BY <2>2, <3>1, <1>1
  <2> QED BY <1>1, <2>1, <2>2
<1>7. Tickets!FirstWaiting(k) = (x + 1)..(x + k)
  <2>1. Tickets!FirstWaiting(k) = {i \in (x + 1)..n : i <= x + k}
    BY <1>5, <1>6
  <2>2. {i \in (x + 1)..n : i <= x + k} = (x + 1)..(x + k)
    BY <1>1
  <2> QED BY <2>1, <2>2
<1> QED BY <1>7 DEF x

\* They are worth what _processWithdrawalQueue reserves for them.
LEMMA FirstWaitingAreWorth ==
  ASSUME Sound(vault), NEW k \in 0..(Len(vault.queue) - vault.index)
  PROVE  Tickets!WorthOf(Tickets!FirstWaiting(k)) = OwedToNext(vault, k)
<1> DEFINE n == Len(vault.queue)
           x == vault.index
           a == AssetsOf(vault.queue)
           F == (x + 1)..(x + k)
           g == [i \in 1..n |-> IF i \in F THEN a[i] ELSE 0]
           z == [i \in 1..n |-> 0]
<1>1. /\ n \in Nat /\ x \in 0..n /\ k \in Nat /\ x + k \in 0..n /\ x \in 0..(x + k)
      /\ \A i \in 1..n : a[i] \in Nat
  <2>1. n \in Nat /\ x \in 0..n /\ \A i \in 1..n : vault.queue[i] \in QueueEntry
    BY DueIsNat DEF Sound
  <2>2. \A i \in 1..n : a[i] \in Nat
    BY <2>1 DEF AssetsOf, QueueEntry
  <2> QED BY <2>1, <2>2
<1>2. Tickets!WorthOf(F) = SumTo(g, n)
  <2>1. Len(TicketView) = n
    BY <1>1 DEF TicketView
  <2>2. \A i \in 1..n : TicketView[i].assets = a[i]
    BY DEF TicketView, AssetsOf
  <2>3. [i \in 1..Len(TicketView) |-> IF i \in F THEN TicketView[i].assets ELSE 0] = g
    <3> HIDE DEF n, x, a, F
    <3> QED BY <2>1, <2>2
  <2> HIDE DEF g, F
  <2> QED BY <2>1, <2>3, SamePrefixSum DEF Tickets!WorthOf
<1>3. OwedToNext(vault, k) = SumTo(a, x + k) - SumTo(a, x)
  BY DEF OwedToNext
<1>4. Tickets!FirstWaiting(k) = F
  BY FirstWaitingAre
<1> HIDE DEF n, x, a
<1>5. \A i \in 1..n : /\ g[i] \in Nat /\ z[i] = 0
                      /\ (i <= x \/ i > x + k) => g[i] = 0
                      /\ (i > x /\ i <= x + k) => g[i] = a[i]
  BY <1>1
<1> HIDE DEF g, z, F
<1>6. \A m \in 0..n : SumTo(z, m) = 0
  <2> DEFINE T == {m \in Nat : m <= n => SumTo(z, m) = 0}
  <2>1. 0 \in T
    BY SumToUnfolds
  <2>2. ASSUME NEW m \in T PROVE m + 1 \in T
    <3>1. SumTo(z, m + 1) = SumTo(z, m) + z[m + 1]
      BY SumToUnfolds
    <3>2. m + 1 <= n => m + 1 \in 1..n /\ m <= n
      BY <1>1
    <3> QED BY <1>1, <1>5, <3>1, <3>2
  <2> HIDE DEF T
  <2>3. T = Nat
    <3>1. T \subseteq Nat
      BY DEF T
    <3> QED BY <2>1, <2>2, <3>1, NatIndSet
  <2> QED BY <1>1, <2>3 DEF T
<1>7. SumTo(g, x) = 0
  <2>1. \A i \in 1..x : z[i] \in Nat /\ z[i] = g[i]
    BY <1>1, <1>5
  <2>2. SumTo(z, x) = SumTo(g, x)
    <3>1. x \in Nat
      BY <1>1
    <3> QED BY <2>1, <3>1, SumToAgrees
  <2> QED BY <1>1, <1>6, <2>2
<1>8. SumTo(g, n) - SumTo(g, x + k) = 0
  <2>1. \A i \in 1..n : g[i] \in Nat /\ z[i] \in Nat
    BY <1>5
  <2>2. \A i \in ((x + k) + 1)..n : g[i] = z[i]
    <3>1. \A i \in ((x + k) + 1)..n : i \in 1..n /\ i > x + k
      BY <1>1
    <3> QED BY <1>5, <3>1
  <2>3. SumTo(g, n) - SumTo(g, x + k) = SumTo(z, n) - SumTo(z, x + k)
    BY <1>1, <2>1, <2>2, SumToAgreesBetween
  <2>4. n \in 0..n
    BY <1>1
  <2> QED BY <1>1, <1>6, <2>3, <2>4
<1>9. SumTo(g, x + k) - SumTo(g, x) = SumTo(a, x + k) - SumTo(a, x)
  <2>1. \A i \in 1..(x + k) : g[i] \in Nat /\ a[i] \in Nat
    BY <1>1, <1>5
  <2>2. \A i \in (x + 1)..(x + k) : g[i] = a[i]
    BY <1>1, <1>5
  <2>3. x + k \in Nat
    BY <1>1
  <2> QED BY <1>1, <2>1, <2>2, <2>3, SumToAgreesBetween
<1>10. SumTo(g, n) \in Nat /\ SumTo(g, x + k) \in Nat
  <2>1. \A m \in 0..n : SumTo(g, m) \in Nat
    BY <1>1, <1>5, SumToNat
  <2>2. n \in 0..n
    BY <1>1
  <2> QED BY <1>1, <2>1, <2>2
<1> QED BY <1>2, <1>3, <1>4, <1>7, <1>8, <1>9, <1>10

\* Releasing k entries turns the first k waiting tickets payable.
LEMMA ReleasedView ==
  ASSUME Sound(vault), NEW k \in Nat, NEW m, Released(vault, m, k)
  PROVE  ViewOf(m.queue, m.index)
           = [i \in 1..Len(TicketView) |->
                IF i \in Tickets!FirstWaiting(k) THEN [TicketView[i] EXCEPT !.state = "payable"]
                ELSE TicketView[i]]
<1> DEFINE n == Len(vault.queue)
           x == vault.index
<1>1. /\ k \in 0..(n - x) /\ m.queue = vault.queue /\ m.index = x + k
  BY DEF Released
<1>2. n \in Nat /\ x \in 0..n
  BY DueIsNat DEF Sound
<1>3. Tickets!FirstWaiting(k) = (x + 1)..(x + k)
  BY <1>1, FirstWaitingAre
<1>4. Len(TicketView) = n
  BY <1>2 DEF TicketView
<1>5. ASSUME NEW i \in 1..n
      PROVE  ViewOf(m.queue, m.index)[i]
               = IF i \in (x + 1)..(x + k) THEN [TicketView[i] EXCEPT !.state = "payable"]
                 ELSE TicketView[i]
  <2> DEFINE e == vault.queue[i]
  <2>1. e.isClaimed => i <= x
    BY DEF Sound, Accounted
  <2>2. TicketView[i] = [assets   |-> e.assets,
                         receiver |-> e.receiver,
                         state    |-> IF e.isClaimed THEN "paid"
                                      ELSE IF i <= x THEN "payable" ELSE "waiting"]
    BY DEF TicketView
  <2>3. ViewOf(m.queue, m.index)[i]
          = [assets   |-> e.assets,
             receiver |-> e.receiver,
             state    |-> IF e.isClaimed THEN "paid"
                          ELSE IF i <= x + k THEN "payable" ELSE "waiting"]
    BY <1>1 DEF ViewOf
  <2> HIDE DEF e, n, x
  <2>4. CASE i \in (x + 1)..(x + k)
    <3>1. ~ e.isClaimed /\ i <= x + k
      BY <1>2, <2>1, <2>4
    <3> QED BY <2>2, <2>3, <2>4, <3>1
  <2>5. CASE i \notin (x + 1)..(x + k)
    <3>1. (i <= x + k) <=> (i <= x)
      BY <1>1, <1>2, <2>5
    <3> QED BY <2>2, <2>3, <2>5, <3>1
  <2> QED BY <2>4, <2>5
<1>6. ViewOf(m.queue, m.index) = [i \in 1..n |-> ViewOf(m.queue, m.index)[i]]
  BY <1>1 DEF ViewOf
<1> HIDE DEF n, x
<1> QED BY <1>3, <1>4, <1>5, <1>6

\* Every step but a claim advances the tickets.
LEMMA MovesAdvance ==
  ASSUME Sound(vault), Moves(vault, vault')
  PROVE  Tickets!TicketsNext
<1> PICK k \in Nat : \/ Released(vault, vault', k)
                     \/ \E m : \E assets \in Nat, receiver \in Holders :
                           Released(vault, m, k) /\ Queued(m, vault', assets, receiver)
  BY DEF Moves
<1>1. /\ vault.queue \in Seq(QueueEntry) /\ Len(vault.queue) \in Nat
      /\ vault.index \in Nat
  BY DEF Sound, WellFormed, Vault
<1>2. TicketView \in Seq(Slot) /\ Len(TicketView) = Len(vault.queue)
  BY <1>1, TicketViewIs, ViewIsSequence
<1> DEFINE V == [i \in 1..Len(TicketView) |->
                   IF i \in Tickets!FirstWaiting(k) THEN [TicketView[i] EXCEPT !.state = "payable"]
                   ELSE TicketView[i]]
<1>3. CASE Released(vault, vault', k)
  <2>1. /\ k \in 0..(Len(vault.queue) - vault.index) /\ k \in 0..ProcessLimit
        /\ vault'.queue = vault.queue /\ vault'.queued = vault.queued
        /\ vault'.claimable = vault.claimable + OwedToNext(vault, k)
    BY <1>3, LimitsAssumption DEF Released
  <2>2. TicketView' = V
    BY <1>3, ReleasedView, TicketViewIs
  <2>3. TicketView' \in Seq(Slot) /\ Len(TicketView') = Len(TicketView)
    BY <1>1, <1>2, <2>1, TicketViewIs, ViewIsSequence
  <2>4. Tickets!Issued = <<>>
    BY <1>2, <2>3 DEF Tickets!Issued
  <2>5. TicketView' = V \o <<>>
    BY <2>2, <2>3
  <2>6. Tickets!WorthOf(Tickets!FirstWaiting(k)) = OwedToNext(vault, k)
    BY <2>1, FirstWaitingAreWorth
  <2>7. vault'.queued = vault.queued + 0
    <3>1. vault.queued \in Nat
      BY DEF Sound, WellFormed, Vault
    <3> QED BY <2>1, <3>1
  <2> HIDE DEF V
  <2>8. Tickets!Advance(k, <<>>)
    BY <2>1, <2>5, <2>6, <2>7 DEF Tickets!Advance, V
  <2> QED BY <2>1, <2>4, <2>8 DEF Tickets!TicketsNext
<1>4. ASSUME NEW m, NEW assets \in Nat, NEW receiver \in Holders,
             Released(vault, m, k), Queued(m, vault', assets, receiver)
      PROVE  Tickets!TicketsNext
  <2> DEFINE e == [assets |-> assets, receiver |-> receiver, isClaimed |-> FALSE]
             t == [assets |-> assets, receiver |-> receiver, state |-> "waiting"]
             n == Len(vault.queue)
  <2>1. /\ k \in 0..(n - vault.index) /\ k \in 0..ProcessLimit
        /\ m.queue = vault.queue /\ m.index = vault.index + k
        /\ m.claimable = vault.claimable + OwedToNext(vault, k)
        /\ vault'.queue = Append(vault.queue, e) /\ vault'.index = m.index
        /\ vault'.queued = vault.queued + assets /\ vault'.claimable = m.claimable
    BY <1>4, LimitsAssumption DEF Released, Queued
  <2>2. ViewOf(m.queue, m.index) = V
    BY <1>4, ReleasedView
  <2>3. e \in QueueEntry /\ receiver \in Accounts
    BY DEF QueueEntry, Holders, Accounts
  <2>4. vault'.queue \in Seq(QueueEntry) /\ Len(vault'.queue) = n + 1
        /\ vault'.queue[n + 1] = e /\ \A i \in 1..n : vault'.queue[i] = vault.queue[i]
    <3> HIDE DEF e
    <3> QED BY <1>1, <2>1, <2>3
  <2>5. V \in Seq(Slot) /\ Len(V) = n
    <3>1. ViewOf(m.queue, m.index) \in Seq(Slot) /\ Len(ViewOf(m.queue, m.index)) = n
      BY <1>1, <2>1, ViewIsSequence
    <3> HIDE DEF V
    <3> QED BY <2>2, <3>1
  <2>6. TicketView' \in Seq(Slot) /\ Len(TicketView') = n + 1
    BY <2>4, TicketViewIs, ViewIsSequence
  <2>7. \A i \in 1..n : TicketView'[i] = V[i]
    <3>1. ASSUME NEW i \in 1..n PROVE ViewOf(vault'.queue, vault'.index)[i] = ViewOf(m.queue, m.index)[i]
      <4>1. i \in 1..Len(vault'.queue) /\ i \in 1..Len(m.queue) /\ vault'.queue[i] = m.queue[i]
        BY <1>1, <2>1, <2>4
      <4> QED BY <2>1, <4>1 DEF ViewOf
    <3> QED BY <2>2, <3>1, TicketViewIs
  <2>8. TicketView'[n + 1] = t
    <3>1. n + 1 \in 1..Len(vault'.queue) /\ ~ (n + 1 <= vault'.index)
      BY <1>1, <2>1, <2>4
    <3>2. vault'.queue[n + 1].assets = assets /\ vault'.queue[n + 1].receiver = receiver
          /\ vault'.queue[n + 1].isClaimed = FALSE
      BY <2>4
    <3>3. ViewOf(vault'.queue, vault'.index)[n + 1] = t
      BY <3>1, <3>2 DEF ViewOf
    <3> QED BY <3>3, TicketViewIs
  <2>9. t \in Slot /\ t \in Tickets!Ticket /\ t.state = "waiting" /\ t.assets = assets
    BY <2>3 DEF Slot, Tickets!Ticket, Holders
  <2> HIDE DEF V, t, e
  <2>10. TicketView' = Append(V, t) /\ TicketView' = V \o <<t>>
    BY <1>1, <2>5, <2>6, <2>7, <2>8, <2>9
  <2>11. Tickets!Issued = <<t>>
    <3>1. SubSeq(TicketView', n + 1, Len(TicketView')) = <<t>>
      BY <1>1, <2>6, <2>8, LastIsAppended
    <3>2. Len(TicketView) = n
      BY <1>2
    <3> QED BY <3>1, <3>2 DEF Tickets!Issued
  <2>12. Tickets!WorthOf(Tickets!FirstWaiting(k)) = OwedToNext(vault, k)
    BY <2>1, FirstWaitingAreWorth
  <2>13. <<t>> # <<>> /\ <<t>>[1] = t /\ Len(<<t>>) = 1
    OBVIOUS
  <2>14. Tickets!Advance(k, <<t>>)
    BY <2>1, <2>9, <2>10, <2>12, <2>13 DEF Tickets!Advance, V
  <2>15. \A i \in 1..Len(<<t>>) : <<t>>[i] \in Tickets!Ticket /\ <<t>>[i].state = "waiting"
    BY <2>9
  <2> QED BY <2>1, <2>11, <2>14, <2>15 DEF Tickets!TicketsNext
<1> QED BY <1>3, <1>4

\* A claim pays one payable ticket.
LEMMA ClaimPays ==
  ASSUME IInv, NEW i \in 1..Len(vault.queue), Claim(i)
  PROVE  Tickets!TicketsNext
<1> DEFINE e == vault.queue[i]
           n == Len(vault.queue)
<1>1. /\ e \in QueueEntry /\ ~ e.isClaimed /\ i <= vault.index
      /\ Len(vault'.queue) = n
      /\ vault'.queue[i] = [e EXCEPT !.isClaimed = TRUE]
      /\ \A j \in 1..n : j # i => vault'.queue[j] = vault.queue[j]
      /\ vault'.index = vault.index
      /\ vault'.queued = vault.queued - e.assets
      /\ vault'.claimable = vault.claimable - e.assets
  BY ClaimMarks
<1>2. n \in Nat
  BY IInvMeans, DueIsNat DEF Sound
<1>3. TicketView[i] = [assets |-> e.assets, receiver |-> e.receiver, state |-> "payable"]
  BY <1>1 DEF TicketView
<1>4. vault'.queue[i].assets = e.assets /\ vault'.queue[i].receiver = e.receiver
      /\ vault'.queue[i].isClaimed = TRUE
  <2> HIDE DEF e
  <2> QED BY <1>1 DEF QueueEntry
<1>5. ViewOf(vault'.queue, vault'.index)[i]
        = [assets |-> e.assets, receiver |-> e.receiver, state |-> "paid"]
  <2>1. i \in 1..Len(vault'.queue)
    BY <1>1
  <2> QED BY <1>4, <2>1 DEF ViewOf
<1>6. \A j \in 1..n : j # i => ViewOf(vault'.queue, vault'.index)[j] = TicketView[j]
  <2>1. ASSUME NEW j \in 1..n, j # i PROVE ViewOf(vault'.queue, vault'.index)[j] = TicketView[j]
    <3>1. j \in 1..Len(vault'.queue) /\ vault'.queue[j] = vault.queue[j]
      BY <1>1, <2>1
    <3> QED BY <1>1, <3>1 DEF ViewOf, TicketView
  <2> QED BY <2>1
<1>7. /\ DOMAIN TicketView = 1..n /\ TicketView = [j \in 1..n |-> TicketView[j]]
      /\ TicketView' = [j \in 1..n |-> ViewOf(vault'.queue, vault'.index)[j]]
      /\ Len(TicketView) = n
  <2>1. TicketView' = [j \in 1..n |-> ViewOf(vault'.queue, vault'.index)[j]]
    BY <1>1, TicketViewIs DEF ViewOf
  <2> QED BY <1>2, <2>1 DEF TicketView
<1> HIDE DEF e, n
<1>8. TicketView' = [TicketView EXCEPT ![i].state = "paid"]
  <2>1. [TicketView[i] EXCEPT !.state = "paid"]
          = [assets |-> e.assets, receiver |-> e.receiver, state |-> "paid"]
    BY <1>3
  <2>2. i \in 1..n
    BY DEF n
  <2> QED BY <1>5, <1>6, <1>7, <2>1, <2>2
<1>9. TicketView[i].state = "payable" /\ TicketView[i].assets = e.assets
  BY <1>3
<1>10. Tickets!Pay(i)
  BY <1>1, <1>8, <1>9 DEF Tickets!Pay
<1>11. i \in 1..Len(TicketView)
  BY <1>7 DEF n
<1> QED BY <1>10, <1>11 DEF Tickets!TicketsNext

\* The vault's queue implements WithdrawalTickets: exits become payable strictly in the
\* order they were queued, at most MAX_QUEUE_PROCESS_LIMIT in one call, each is paid once,
\* none is lost or rewritten, and queuedDLP and claimableDLP move with them.
THEOREM QueueIsImplemented == Spec => QueueIsTicketed
<1>1. Init => Tickets!TicketsInit
  <2> SUFFICES ASSUME Init PROVE Tickets!TicketsInit
    OBVIOUS
  <2>1. vault.queue = <<>> /\ vault.queued = 0 /\ vault.claimable = 0
    BY DEF Init
  <2>2. Len(vault.queue) = 0
    BY <2>1
  <2>3. TicketView = <<>>
    BY <2>2 DEF TicketView
  <2> QED BY <2>1, <2>3 DEF Tickets!TicketsInit
<1>2. IInv /\ [Next]_vars => [Tickets!TicketsNext]_TicketVars
  <2> SUFFICES ASSUME IInv, [Next]_vars PROVE Tickets!TicketsNext
    OBVIOUS
  <2>1. Sound(vault)
    BY IInvMeans
  <2> QED BY <2>1, ClaimPays, StepMoves, MovesAdvance
<1> QED BY <1>1, <1>2, Invariance, PTL
        DEF Spec, QueueIsTicketed, Tickets!TicketsSpec, Tickets!ticketVars, TicketVars
=================================================================================
