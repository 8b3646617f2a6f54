------------------------------- MODULE SumsProofs -------------------------------
(***************************************************************************)
(* The algebra of running sums: unfolding, typing, monotonicity, agreement *)
(* and change of one summand.  Everything rests on NatIndSet, induction    *)
(* over a set of naturals, which follows from the well-foundedness of < .  *)
(***************************************************************************)
EXTENDS Sums, WellFoundedInduction, FiniteSetTheorems, TLAPS

\* Induction in set form: a set of naturals that holds 0 and is closed under
\* successor is Nat.
LEMMA NatIndSet ==
  ASSUME NEW T, T \subseteq Nat, 0 \in T, \A n \in T : n + 1 \in T
  PROVE  T = Nat
<1> DEFINE U == Nat \ T
           R == OpToRel(<, Nat)
<1>1. SUFFICES ASSUME U # {} PROVE FALSE
  OBVIOUS
<1>2. U \subseteq Nat
  OBVIOUS
<1>3. \E x \in U : \A y \in U : <<y, x>> \notin R
  <2>1. IsWellFoundedOn(R, Nat)
    BY NatLessThanWellFounded
  <2> HIDE DEF U, R
  <2> QED BY <2>1, <1>1, <1>2, WFMin
<1>4. PICK x \in U : \A y \in U : ~ (y < x)
  BY <1>3 DEF OpToRel
<1>5. x \in Nat /\ x # 0 /\ x - 1 \in Nat /\ x - 1 < x
  OBVIOUS
<1>6. x - 1 \in T
  BY <1>4, <1>5
<1>7. x \in T
  BY <1>5, <1>6
<1> QED BY <1>7

---------------------------------------------------------------------------------
\* g is the table of the running sums of f on 0 .. n.
Table(f, g, n) == g = [k \in 0..n |-> IF k = 0 THEN 0 ELSE g[k - 1] + f[k]]

\* Every finite table exists.
LEMMA TableExists ==
  ASSUME NEW f, NEW n \in Nat
  PROVE  \E g : Table(f, g, n)
<1> DEFINE T == {m \in Nat : \E g : Table(f, g, m)}
<1>1. 0 \in T
  <2> DEFINE g == [k \in 0..0 |-> 0]
  <2>1. g = [k \in 0..0 |-> IF k = 0 THEN 0 ELSE g[k - 1] + f[k]]
    OBVIOUS
  <2> QED BY <2>1 DEF Table
<1>2. ASSUME NEW m \in T PROVE m + 1 \in T
  <2>1. PICK g : Table(f, g, m)
    OBVIOUS
  <2> DEFINE h == [k \in 0..(m + 1) |-> IF k = m + 1 THEN g[m] + f[k] ELSE g[k]]
  <2>2. \A k \in 0..m : g[k] = IF k = 0 THEN 0 ELSE g[k - 1] + f[k]
    BY <2>1 DEF Table
  <2>3. \A k \in 0..(m + 1) : h[k] = IF k = 0 THEN 0 ELSE h[k - 1] + f[k]
    <3>1. SUFFICES ASSUME NEW k \in 0..(m + 1)
                   PROVE h[k] = IF k = 0 THEN 0 ELSE h[k - 1] + f[k]
      OBVIOUS
    <3>2. CASE k = m + 1
      BY <3>2
    <3>3. CASE k # m + 1 /\ k # 0
      <4>1. k \in 0..m /\ k - 1 \in 0..m /\ k - 1 # m + 1 /\ k - 1 \in 0..(m + 1)
        BY <3>3
      <4>2. h[k] = g[k] /\ h[k - 1] = g[k - 1]
        BY <4>1, <3>3
      <4> QED BY <2>2, <4>1, <4>2, <3>3
    <3>4. CASE k = 0
      <4>1. k \in 0..m /\ k # m + 1
        BY <3>4
      <4>2. h[k] = g[k]
        BY <4>1
      <4> QED BY <2>2, <4>1, <4>2, <3>4
    <3> QED BY <3>2, <3>3, <3>4
  <2>4. Table(f, h, m + 1)
    BY <2>3 DEF Table
  <2>5. m + 1 \in Nat
    OBVIOUS
  <2> QED BY <2>4, <2>5
<1>3. T = Nat
  BY <1>1, <1>2, NatIndSet
<1> QED BY <1>3

\* Two tables agree where both are defined.
LEMMA TablesAgree ==
  ASSUME NEW f, NEW g, NEW h, NEW n \in Nat, NEW m \in Nat, n <= m,
         Table(f, g, n), Table(f, h, m)
  PROVE  \A k \in 0..n : g[k] = h[k]
<1> DEFINE T == {k \in Nat : k <= n => g[k] = h[k]}
<1>1. \A k \in 0..n : g[k] = IF k = 0 THEN 0 ELSE g[k - 1] + f[k]
  BY DEF Table
<1>2. \A k \in 0..m : h[k] = IF k = 0 THEN 0 ELSE h[k - 1] + f[k]
  BY DEF Table
<1>3. 0 \in T
  BY <1>1, <1>2
<1>4. ASSUME NEW k \in T PROVE k + 1 \in T
  <2>1. CASE k + 1 <= n
    <3>1. k + 1 \in 0..n /\ k + 1 \in 0..m /\ k + 1 # 0 /\ (k + 1) - 1 = k /\ k <= n
      BY <2>1
    <3>2. g[k + 1] = g[k] + f[k + 1]
      BY <1>1, <3>1
    <3>3. h[k + 1] = h[k] + f[k + 1]
      BY <1>2, <3>1
    <3>4. g[k] = h[k]
      BY <3>1
    <3> QED BY <3>2, <3>3, <3>4
  <2>2. CASE ~ (k + 1 <= n)
    BY <2>2
  <2> QED BY <2>1, <2>2
<1>5. T = Nat
  BY <1>3, <1>4, NatIndSet
<1> QED BY <1>5

\* The recursive definition of SumTo unfolds.
LEMMA SumToUnfolds ==
  ASSUME NEW f
  PROVE  /\ SumTo(f, 0) = 0
         /\ \A n \in Nat : SumTo(f, n + 1) = SumTo(f, n) + f[n + 1]
<1> DEFINE Tab(n) == CHOOSE g : Table(f, g, n)
           G == [n \in Nat |-> Tab(n)[n]]
           Body(S) == [k \in Nat |-> IF k = 0 THEN 0 ELSE S[k - 1] + f[k]]
<1>1. \A n \in Nat : Table(f, Tab(n), n)
  BY TableExists
<1> HIDE DEF Tab
<1>2. \A n \in Nat : G[n] = IF n = 0 THEN 0 ELSE G[n - 1] + f[n]
  <2>1. SUFFICES ASSUME NEW n \in Nat
                 PROVE G[n] = IF n = 0 THEN 0 ELSE G[n - 1] + f[n]
    OBVIOUS
  <2>2. \A k \in 0..n : Tab(n)[k] = IF k = 0 THEN 0 ELSE Tab(n)[k - 1] + f[k]
    BY <1>1 DEF Table
  <2>3. CASE n = 0
    BY <2>2, <2>3
  <2>4. CASE n # 0
    <3>1. n - 1 \in Nat /\ n - 1 <= n /\ n - 1 \in 0..(n - 1) /\ n \in 0..n
      BY <2>4
    <3>2. Tab(n - 1)[n - 1] = Tab(n)[n - 1]
      BY <1>1, <3>1, TablesAgree
    <3> QED BY <2>2, <2>4, <3>1, <3>2
  <2> QED BY <2>3, <2>4
<1>3. G = Body(G)
  BY <1>2
<1> DEFINE F == CHOOSE S : S = Body(S)
<1>4. F = Body(F)
  <2> HIDE DEF G, Body
  <2> QED BY <1>3
<1>5. \A n \in Nat : SumTo(f, n) = F[n]
  BY DEF SumTo
<1> HIDE DEF F
<1>6. \A k \in Nat : F[k] = IF k = 0 THEN 0 ELSE F[k - 1] + f[k]
  BY <1>4
<1>7. ASSUME NEW n \in Nat PROVE SumTo(f, n + 1) = SumTo(f, n) + f[n + 1]
  <2>1. n + 1 \in Nat /\ n + 1 # 0 /\ (n + 1) - 1 = n
    OBVIOUS
  <2> QED BY <1>5, <1>6, <2>1
<1> QED BY <1>5, <1>6, <1>7

---------------------------------------------------------------------------------
\* A sum of naturals is a natural, and so is every sum on the way to it.
LEMMA SumToNat ==
  ASSUME NEW f, NEW n \in Nat, \A i \in 1..n : f[i] \in Nat
  PROVE  \A m \in 0..n : SumTo(f, m) \in Nat
<1> DEFINE T == {m \in Nat : m <= n => SumTo(f, m) \in Nat}
<1>1. 0 \in T
  BY SumToUnfolds
<1>2. ASSUME NEW m \in T PROVE m + 1 \in T
  <2>1. CASE m + 1 <= n
    <3>1. m + 1 \in 1..n /\ SumTo(f, m) \in Nat /\ f[m + 1] \in Nat
      BY <2>1
    <3>2. SumTo(f, m + 1) = SumTo(f, m) + f[m + 1]
      BY SumToUnfolds
    <3> QED BY <3>1, <3>2
  <2>2. CASE ~ (m + 1 <= n)
    BY <2>2
  <2> QED BY <2>1, <2>2
<1>3. T = Nat
  BY <1>1, <1>2, NatIndSet
<1> QED BY <1>3

\* A longer sum of naturals is no smaller.
LEMMA SumToMonotone ==
  ASSUME NEW f, NEW n \in Nat, \A i \in 1..n : f[i] \in Nat, NEW m \in 0..n
  PROVE  SumTo(f, m) <= SumTo(f, n)
<1> DEFINE T == {k \in Nat : m <= k /\ k <= n => SumTo(f, m) <= SumTo(f, k)}
<1>1. \A k \in 0..n : SumTo(f, k) \in Nat
  BY SumToNat
<1>2. 0 \in T
  BY <1>1
<1>3. ASSUME NEW k \in T PROVE k + 1 \in T
  <2>1. CASE m <= k /\ k + 1 <= n
    <3>1. k + 1 \in 1..n /\ k \in 0..n /\ SumTo(f, m) <= SumTo(f, k)
      BY <2>1
    <3>2. SumTo(f, k + 1) = SumTo(f, k) + f[k + 1]
      BY SumToUnfolds
    <3>3. SumTo(f, m) <= SumTo(f, k + 1)
      <4> HIDE DEF T
      <4> QED BY <1>1, <3>1, <3>2
    <3> QED BY <3>3
  <2>2. CASE m = k + 1
    BY <1>1, <2>2
  <2>3. CASE ~ (m <= k + 1 /\ k + 1 <= n)
    BY <2>3
  <2> QED BY <2>1, <2>2, <2>3
<1>4. T = Nat
  BY <1>2, <1>3, NatIndSet
<1> QED BY <1>4

\* Two arrays that agree strictly after m grow by the same sum from m to n.
LEMMA SumToAgreesBetween ==
  ASSUME NEW f, NEW g, NEW n \in Nat, NEW m \in 0..n,
         \A i \in 1..n : f[i] \in Nat /\ g[i] \in Nat,
         \A i \in (m + 1)..n : f[i] = g[i]
  PROVE  SumTo(f, n) - SumTo(f, m) = SumTo(g, n) - SumTo(g, m)
<1> DEFINE T == {k \in Nat : m <= k /\ k <= n =>
                    SumTo(f, k) - SumTo(f, m) = SumTo(g, k) - SumTo(g, m)}
<1>1. \A k \in 0..n : SumTo(f, k) \in Nat /\ SumTo(g, k) \in Nat
  BY SumToNat
<1>2. 0 \in T
  BY <1>1
<1>3. ASSUME NEW k \in T PROVE k + 1 \in T
  <2>1. CASE m <= k /\ k + 1 <= n
    <3>1. /\ k + 1 \in (m + 1)..n /\ k + 1 \in 1..n /\ k \in 0..n
          /\ SumTo(f, k) - SumTo(f, m) = SumTo(g, k) - SumTo(g, m)
      BY <2>1
    <3>2. /\ SumTo(f, k + 1) = SumTo(f, k) + f[k + 1]
          /\ SumTo(g, k + 1) = SumTo(g, k) + g[k + 1]
      BY SumToUnfolds
    <3>3. f[k + 1] = g[k + 1] /\ f[k + 1] \in Nat /\ g[k + 1] \in Nat
      BY <3>1
    <3>4. SumTo(f, k + 1) - SumTo(f, m) = SumTo(g, k + 1) - SumTo(g, m)
      <4> HIDE DEF T
      <4> QED BY <1>1, <3>1, <3>2, <3>3
    <3> QED BY <3>4
  <2>2. CASE m = k + 1
    BY <1>1, <2>2
  <2>3. CASE ~ (m <= k + 1 /\ k + 1 <= n)
    BY <2>3
  <2> QED BY <2>1, <2>2, <2>3
<1>4. T = Nat
  BY <1>2, <1>3, NatIndSet
<1> QED BY <1>4

\* Two arrays that agree up to n have the same sum.
LEMMA SumToAgrees ==
  ASSUME NEW f, NEW g, NEW n \in Nat,
         \A i \in 1..n : f[i] \in Nat /\ f[i] = g[i]
  PROVE  SumTo(f, n) = SumTo(g, n)
<1>1. SumTo(f, n) - SumTo(f, 0) = SumTo(g, n) - SumTo(g, 0)
  BY SumToAgreesBetween
<1>2. SumTo(f, 0) = 0 /\ SumTo(g, 0) = 0
  BY SumToUnfolds
<1>3. SumTo(f, n) \in Nat /\ SumTo(g, n) \in Nat
  BY SumToNat
<1> QED BY <1>1, <1>2, <1>3

\* Changing one summand changes the sum by the difference.
LEMMA SumToChanges ==
  ASSUME NEW f, NEW g, NEW n \in Nat, NEW i \in 1..n,
         \A j \in 1..n : f[j] \in Nat /\ g[j] \in Nat,
         \A j \in 1..n : j # i => f[j] = g[j]
  PROVE  SumTo(g, n) = SumTo(f, n) - f[i] + g[i]
<1>1. i - 1 \in Nat /\ i \in 0..n /\ i - 1 \in 0..n /\ (i - 1) + 1 = i
  OBVIOUS
<1>2. SumTo(f, i - 1) = SumTo(g, i - 1)
  <2>1. \A j \in 1..(i - 1) : f[j] \in Nat /\ f[j] = g[j]
    OBVIOUS
  <2> QED BY <1>1, <2>1, SumToAgrees
<1>3. /\ SumTo(f, (i - 1) + 1) = SumTo(f, i - 1) + f[(i - 1) + 1]
      /\ SumTo(g, (i - 1) + 1) = SumTo(g, i - 1) + g[(i - 1) + 1]
  BY <1>1, SumToUnfolds
<1>4. SumTo(f, n) - SumTo(f, i) = SumTo(g, n) - SumTo(g, i)
  <2>1. \A j \in (i + 1)..n : f[j] = g[j]
    OBVIOUS
  <2> QED BY <1>1, <2>1, SumToAgreesBetween
<1>5. \A k \in 0..n : SumTo(f, k) \in Nat /\ SumTo(g, k) \in Nat
  BY SumToNat
<1>6. f[i] \in Nat /\ g[i] \in Nat
  OBVIOUS
<1> QED BY <1>1, <1>2, <1>3, <1>4, <1>5, <1>6

---------------------------------------------------------------------------------
\* A finite set has an enumeration, which lists every element once.
LEMMA EnumerationExists ==
  ASSUME NEW S, IsFiniteSet(S)
  PROVE  LET list == EnumerationOf(S)
         IN  /\ Cardinality(S) \in Nat
             /\ list \in [1..Cardinality(S) -> S]
             /\ Len(list) = Cardinality(S)
             /\ \A x \in S : \E i \in 1..Cardinality(S) : list[i] = x
             /\ \A i, j \in 1..Cardinality(S) : list[i] = list[j] => i = j
<1> DEFINE n == Cardinality(S)
           list == EnumerationOf(S)
           Lists(l) == \A x \in S : \E i \in 1..n : l[i] = x
<1>1. n \in Nat /\ ExistsBijection(1..n, S)
  BY FS_CardinalityType
<1>2. PICK l \in Bijection(1..n, S) : TRUE
  BY <1>1 DEF ExistsBijection
<1>3. l \in [1..n -> S] /\ Lists(l)
  BY <1>2 DEF Bijection, Surjection
<1>4. list \in [1..n -> S] /\ Lists(list)
  BY <1>3 DEF EnumerationOf
<1>5. list \in Surjection(1..n, S)
  BY <1>4 DEF Surjection
<1>6. IsFiniteSet(1..n) /\ Cardinality(1..n) = n
  BY <1>1, FS_Interval
<1>7. list \in Injection(1..n, S)
  <2> HIDE DEF list, n
  <2>1. Cardinality(1..n) = Cardinality(S)
    BY <1>6 DEF n
  <2> QED BY <2>1, <1>5, <1>6, FS_SurjSameCardinalityImpliesInj
<1>8. \A i, j \in 1..n : list[i] = list[j] => i = j
  <2> HIDE DEF list, n
  <2> QED BY <1>7, <1>4 DEF Injection, IsInjective
<1>9. Len(list) = n
  <2> HIDE DEF list, n
  <2> QED BY <1>1, <1>4
<1> QED BY <1>1, <1>4, <1>8, <1>9

\* The sum over an account map bounds each balance, and follows a change of one.
LEMMA SumOverAccounts ==
  ASSUME NEW S, IsFiniteSet(S), NEW f \in [S -> Nat]
  PROVE  LET list == EnumerationOf(S)
         IN  /\ SumOver(f, list) \in Nat
             /\ \A a \in S : f[a] <= SumOver(f, list)
             /\ \A a \in S, x \in Nat :
                   SumOver([f EXCEPT ![a] = x], list) = SumOver(f, list) - f[a] + x
             /\ (\A a \in S : f[a] = 0) => SumOver(f, list) = 0
<1> DEFINE n == Cardinality(S)
           list == EnumerationOf(S)
           Row(h) == [i \in 1..n |-> h[list[i]]]
<1>1. /\ n \in Nat /\ list \in [1..n -> S] /\ Len(list) = n
      /\ \A x \in S : \E i \in 1..n : list[i] = x
      /\ \A i, j \in 1..n : list[i] = list[j] => i = j
  BY EnumerationExists
<1> HIDE DEF n, list
<1>2. \A h : SumOver(h, list) = SumTo(Row(h), n)
  BY <1>1 DEF SumOver
<1>3. \A h \in [S -> Nat] : \A i \in 1..n : Row(h)[i] \in Nat
  BY <1>1
<1>4. \A h \in [S -> Nat] : \A m \in 0..n : SumTo(Row(h), m) \in Nat
  <2> TAKE h \in [S -> Nat]
  <2> HIDE DEF Row
  <2> QED BY <1>1, <1>3, SumToNat
<1>5. SumOver(f, list) \in Nat
  <2>1. n \in 0..n
    BY <1>1
  <2> HIDE DEF Row
  <2> QED BY <2>1, <1>2, <1>4
<1>6. ASSUME NEW a \in S PROVE f[a] <= SumOver(f, list)
  <2>1. PICK i \in 1..n : list[i] = a
    BY <1>1
  <2>2. i \in Nat /\ i - 1 \in Nat /\ i \in 0..n /\ i - 1 \in 0..n /\ (i - 1) + 1 = i
    BY <1>1
  <2>3. Row(f)[i] = f[a]
    BY <2>1
  <2> HIDE DEF Row
  <2>4. SumTo(Row(f), i) <= SumTo(Row(f), n)
    BY <1>1, <1>3, <2>2, SumToMonotone
  <2>5. SumTo(Row(f), (i - 1) + 1) = SumTo(Row(f), i - 1) + Row(f)[(i - 1) + 1]
    BY <2>2, SumToUnfolds
  <2>6. SumTo(Row(f), i - 1) \in Nat /\ SumTo(Row(f), i) \in Nat /\ SumTo(Row(f), n) \in Nat
    BY <1>1, <1>4, <2>2
  <2>7. f[a] \in Nat
    OBVIOUS
  <2> QED BY <1>2, <2>2, <2>3, <2>4, <2>5, <2>6, <2>7
<1>7. ASSUME NEW a \in S, NEW x \in Nat
      PROVE  SumOver([f EXCEPT ![a] = x], list) = SumOver(f, list) - f[a] + x
  <2> DEFINE g == [f EXCEPT ![a] = x]
  <2>1. PICK i \in 1..n : list[i] = a
    BY <1>1
  <2>2. g \in [S -> Nat] /\ g[a] = x
    OBVIOUS
  <2>3. Row(f)[i] = f[a] /\ Row(g)[i] = x
    BY <2>1, <2>2
  <2>4. \A j \in 1..n : j # i => Row(f)[j] = Row(g)[j]
    BY <1>1, <2>1
  <2>5. \A j \in 1..n : Row(f)[j] \in Nat /\ Row(g)[j] \in Nat
    <3> HIDE DEF g, Row
    <3> QED BY <1>3, <2>2
  <2>6. SumTo(Row(g), n) = SumTo(Row(f), n) - Row(f)[i] + Row(g)[i]
    <3> HIDE DEF g, Row
    <3> QED BY <1>1, <2>4, <2>5, SumToChanges
  <2> HIDE DEF g, Row
  <2>7. SumOver(g, list) = SumOver(f, list) - f[a] + x
    BY <1>2, <2>3, <2>6
  <2> QED BY <2>7 DEF g
<1>8. ASSUME \A a \in S : f[a] = 0 PROVE SumOver(f, list) = 0
  <2> DEFINE zero == [i \in 1..n |-> 0]
             T == {m \in Nat : m <= n => SumTo(Row(f), m) = 0}
  <2>1. \A i \in 1..n : Row(f)[i] = 0
    BY <1>1, <1>8
  <2> HIDE DEF Row
  <2>2. 0 \in T
    BY SumToUnfolds
  <2>3. ASSUME NEW m \in T PROVE m + 1 \in T
    <3>1. CASE m + 1 <= n
      <4>1. m + 1 \in 1..n /\ SumTo(Row(f), m) = 0
        BY <1>1, <3>1
      <4>2. SumTo(Row(f), m + 1) = SumTo(Row(f), m) + Row(f)[m + 1]
        BY SumToUnfolds
      <4> QED BY <2>1, <4>1, <4>2
    <3>2. CASE ~ (m + 1 <= n)
      BY <3>2
    <3> QED BY <3>1, <3>2
  <2>4. T = Nat
    BY <2>2, <2>3, NatIndSet
  <2> QED BY <1>1, <1>2, <2>4
<1> QED BY <1>5, <1>6, <1>7, <1>8 DEF list

\* A linear inequality between the entries of arrays holds between their sums.
LEMMA SumToCombines ==
  ASSUME NEW a \in Nat, NEW b \in Nat, NEW c \in Nat, NEW d \in Nat, NEW n \in Nat,
         NEW f, NEW g, NEW h, NEW s,
         \A i \in 1 .. n : /\ f[i] \in Nat /\ g[i] \in Nat /\ h[i] \in Nat /\ s[i] \in Nat
                           /\ a * f[i] + b * g[i] <= c * h[i] + d * s[i]
  PROVE  a * SumTo(f, n) + b * SumTo(g, n) <= c * SumTo(h, n) + d * SumTo(s, n)
<1> DEFINE Holds(m) == a * SumTo(f, m) + b * SumTo(g, m) <= c * SumTo(h, m) + d * SumTo(s, m)
           T == {m \in Nat : m <= n => Holds(m)}
<1>1. \A m \in 0 .. n : /\ SumTo(f, m) \in Nat /\ SumTo(g, m) \in Nat
                        /\ SumTo(h, m) \in Nat /\ SumTo(s, m) \in Nat
  <2>1. \A m \in 0 .. n : SumTo(f, m) \in Nat
    BY SumToNat
  <2>2. \A m \in 0 .. n : SumTo(g, m) \in Nat
    BY SumToNat
  <2>3. \A m \in 0 .. n : SumTo(h, m) \in Nat
    BY SumToNat
  <2>4. \A m \in 0 .. n : SumTo(s, m) \in Nat
    BY SumToNat
  <2> QED
    BY <2>1, <2>2, <2>3, <2>4
<1>2. 0 \in T
  <2>1. SumTo(f, 0) = 0 /\ SumTo(g, 0) = 0 /\ SumTo(h, 0) = 0 /\ SumTo(s, 0) = 0
    BY SumToUnfolds
  <2> QED
    BY <2>1
<1>3. ASSUME NEW m \in T PROVE m + 1 \in T
  <2>1. CASE m + 1 <= n
    <3>1. m \in 0 .. n /\ m + 1 \in 1 .. n /\ Holds(m)
      BY <2>1
    <3>2. /\ SumTo(f, m + 1) = SumTo(f, m) + f[m + 1]
          /\ SumTo(g, m + 1) = SumTo(g, m) + g[m + 1]
          /\ SumTo(h, m + 1) = SumTo(h, m) + h[m + 1]
          /\ SumTo(s, m + 1) = SumTo(s, m) + s[m + 1]
      BY SumToUnfolds
    <3> DEFINE f1 == SumTo(f, m)
               g1 == SumTo(g, m)
               h1 == SumTo(h, m)
               s1 == SumTo(s, m)
               f2 == f[m + 1]
               g2 == g[m + 1]
               h2 == h[m + 1]
               s2 == s[m + 1]
    <3>3. /\ f1 \in Nat /\ g1 \in Nat /\ h1 \in Nat /\ s1 \in Nat
          /\ f2 \in Nat /\ g2 \in Nat /\ h2 \in Nat /\ s2 \in Nat
          /\ a * f1 + b * g1 <= c * h1 + d * s1
          /\ a * f2 + b * g2 <= c * h2 + d * s2
      BY <1>1, <3>1
    <3> HIDE DEF f1, g1, h1, s1, f2, g2, h2, s2
    <3>4. a * (f1 + f2) + b * (g1 + g2) <= c * (h1 + h2) + d * (s1 + s2)
      <4>1. /\ a * (f1 + f2) = a * f1 + a * f2 /\ b * (g1 + g2) = b * g1 + b * g2
            /\ c * (h1 + h2) = c * h1 + c * h2 /\ d * (s1 + s2) = d * s1 + d * s2
            /\ a * f1 \in Nat /\ a * f2 \in Nat /\ b * g1 \in Nat /\ b * g2 \in Nat
            /\ c * h1 \in Nat /\ c * h2 \in Nat /\ d * s1 \in Nat /\ d * s2 \in Nat
        BY <3>3
      <4> QED
        BY <3>3, <4>1
    <3>5. Holds(m + 1)
      BY <3>2, <3>4 DEF f1, g1, h1, s1, f2, g2, h2, s2
    <3> QED
      BY <3>5
  <2>2. CASE ~(m + 1 <= n)
    BY <2>2
  <2> QED
    BY <2>1, <2>2
<1>4. T = Nat
  BY <1>2, <1>3, NatIndSet
<1> QED
  BY <1>4

\* The same over the elements of a set.
LEMMA SumOverCombines ==
  ASSUME NEW S, IsFiniteSet(S),
         NEW a \in Nat, NEW b \in Nat, NEW c \in Nat, NEW d \in Nat,
         NEW f \in [S -> Nat], NEW g \in [S -> Nat], NEW h \in [S -> Nat], NEW s \in [S -> Nat],
         \A x \in S : a * f[x] + b * g[x] <= c * h[x] + d * s[x]
  PROVE  LET Sum(r) == SumOver(r, EnumerationOf(S))
         IN  a * Sum(f) + b * Sum(g) <= c * Sum(h) + d * Sum(s)
<1> DEFINE list == EnumerationOf(S)
           n == Len(list)
           Row(r) == [i \in 1 .. n |-> r[list[i]]]
<1>1. n \in Nat /\ \A i \in 1 .. n : list[i] \in S
  <2>1. Cardinality(S) \in Nat /\ n = Cardinality(S) /\ list \in [1 .. n -> S]
    BY EnumerationExists
  <2> HIDE DEF list, n
  <2> QED
    BY <2>1
<1> HIDE DEF list, n
<1>2. \A r : SumOver(r, EnumerationOf(S)) = SumTo(Row(r), n)
  BY DEF SumOver, list, n
<1>3. \A i \in 1 .. n :
        /\ Row(f)[i] \in Nat /\ Row(g)[i] \in Nat /\ Row(h)[i] \in Nat /\ Row(s)[i] \in Nat
        /\ a * Row(f)[i] + b * Row(g)[i] <= c * Row(h)[i] + d * Row(s)[i]
  BY <1>1
<1> HIDE DEF Row
<1>4. a * SumTo(Row(f), n) + b * SumTo(Row(g), n) <= c * SumTo(Row(h), n) + d * SumTo(Row(s), n)
  BY <1>1, <1>3, SumToCombines
<1> QED
  BY <1>2, <1>4

\* No entry exceeds the sum.
LEMMA SumToBounds ==
  ASSUME NEW f, NEW n \in Nat, \A i \in 1 .. n : f[i] \in Nat, NEW i \in 1 .. n
  PROVE  f[i] <= SumTo(f, n)
<1>1. i - 1 \in Nat /\ i - 1 \in 0 .. n /\ i \in 0 .. n /\ (i - 1) + 1 = i /\ f[i] \in Nat
  OBVIOUS
<1>2. SumTo(f, (i - 1) + 1) = SumTo(f, i - 1) + f[(i - 1) + 1]
  BY <1>1, SumToUnfolds
<1>3. \A m \in 0 .. n : SumTo(f, m) \in Nat
  BY SumToNat
<1>4. SumTo(f, i - 1) \in Nat /\ SumTo(f, n) \in Nat
  BY <1>1, <1>3
<1>5. SumTo(f, i) <= SumTo(f, n)
  BY <1>1, SumToMonotone
<1>6. SumTo(f, i) = SumTo(f, i - 1) + f[i]
  BY <1>1, <1>2
<1> QED
  BY <1>1, <1>4, <1>5, <1>6

\* Sums of no larger terms are no larger.
LEMMA SumsAreOrdered ==
  ASSUME NEW n \in Nat, NEW f, NEW g,
         \A i \in 1 .. n : f[i] \in Nat /\ g[i] \in Nat /\ f[i] <= g[i]
  PROVE  SumTo(f, n) \in Nat /\ SumTo(g, n) \in Nat /\ SumTo(f, n) <= SumTo(g, n)
<1>1. n \in 0 .. n
  OBVIOUS
<1>2. SumTo(f, n) \in Nat /\ SumTo(g, n) \in Nat
  BY <1>1, SumToNat
<1>3. \A i \in 1 .. n : 1 * f[i] + 0 * f[i] <= 1 * g[i] + 0 * g[i]
  OBVIOUS
<1>4. 1 * SumTo(f, n) + 0 * SumTo(f, n) <= 1 * SumTo(g, n) + 0 * SumTo(g, n)
  BY <1>3, SumToCombines
<1> QED
  BY <1>2, <1>4

\* Nothing adds up to nothing.
LEMMA SumOfNothing ==
  ASSUME NEW n \in Nat, NEW f, \A i \in 1 .. n : f[i] = 0
  PROVE  SumTo(f, n) = 0
<1>1. n \in 0 .. n /\ \A i \in 1 .. n : f[i] \in Nat /\ 1 * f[i] + 0 * f[i] <= 0 * f[i] + 0 * f[i]
  OBVIOUS
<1>2. SumTo(f, n) \in Nat
  BY <1>1, SumToNat
<1>3. 1 * SumTo(f, n) + 0 * SumTo(f, n) <= 0 * SumTo(f, n) + 0 * SumTo(f, n)
  BY <1>1, SumToCombines
<1> QED
  BY <1>2, <1>3

---------------------------------------------------------------------------------
\* A non-empty bounded set of naturals has a greatest element.
LEMMA GreatestExists ==
  ASSUME NEW n \in Nat, NEW S, S \subseteq 0..n, S # {}
  PROVE  \E x \in S : \A y \in S : y <= x
<1> DEFINE T == {m \in Nat : \E y \in S : m <= y}
<1>1. SUFFICES ASSUME ~ \E x \in S : \A y \in S : y <= x PROVE FALSE
  OBVIOUS
<1>2. 0 \in T
  <2>1. PICK x \in S : TRUE
    OBVIOUS
  <2>2. x \in Nat
    OBVIOUS
  <2>3. 0 <= x
    BY <2>2
  <2> QED BY <2>3
<1>3. ASSUME NEW m \in T PROVE m + 1 \in T
  <2>1. PICK y \in S : m <= y
    OBVIOUS
  <2>2. PICK z \in S : ~ (z <= y)
    BY <1>1
  <2>3. m + 1 <= z
    BY <2>1, <2>2
  <2> QED BY <2>3
<1>4. T = Nat
  BY <1>2, <1>3, NatIndSet
<1>5. n + 1 \in T
  BY <1>4
<1> QED BY <1>5
=================================================================================
