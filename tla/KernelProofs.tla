---------------------------- MODULE KernelProofs ----------------------------
(***************************************************************************)
(* Theorems about Kernel, for any number of kernels, modules and policies. *)
(*                                                                         *)
(* Swap-and-pop is dealt with once, for indexed lists; then each function  *)
(* of a kernel on its own storage is shown to preserve Sound; the actions  *)
(* apply one such function to one kernel.                                  *)
(***************************************************************************)
EXTENDS Kernel, TLAPS

-----------------------------------------------------------------------------
(* Indexed lists.                                                          *)

\* A fresh list is consistent: nobody is in it and every index is 0.
LEMMA EmptyListSound ==
  /\ EmptyList \in IndexedList
  /\ IsIndexed(EmptyList)
  /\ Range(EmptyList.list) = {}
<1>1. <<>> \in Seq(Policies) /\ Len(<<>>) = 0 /\ DOMAIN <<>> = {}
  OBVIOUS
<1>2. Range(EmptyList.list) = {}
  BY <1>1 DEF EmptyList, Range
<1>3. EmptyList \in IndexedList
  BY <1>1 DEF EmptyList, IndexedList
<1> QED
  BY <1>1, <1>2, <1>3 DEF EmptyList, IsIndexed

\* In a consistent list the members are those found where their index says,
\* which is how isPolicyActive (Kernel.sol:229) recognises them.
LEMMA MemberByIndex ==
  ASSUME NEW l \in IndexedList, IsIndexed(l), NEW p \in Policies
  PROVE  p \in Range(l.list) <=> Len(l.list) > 0 /\ l.list[l.index[p] + 1] = p
<1>1. l.list \in Seq(Policies) /\ l.index \in [Policies -> Nat]
  BY DEF IndexedList
<1>2. DOMAIN l.list = 1 .. Len(l.list) /\ Len(l.list) \in Nat
  BY <1>1
<1>3. ASSUME p \in Range(l.list)
      PROVE  Len(l.list) > 0 /\ l.list[l.index[p] + 1] = p
  <2>1. PICK i \in 1 .. Len(l.list) : l.list[i] = p
    BY <1>2, <1>3 DEF Range
  <2>2. l.index[p] = i - 1
    BY <2>1 DEF IsIndexed
  <2> QED
    BY <1>2, <2>1, <2>2
<1>4. ASSUME Len(l.list) > 0, l.list[l.index[p] + 1] = p, p \notin Range(l.list)
      PROVE  FALSE
  <2>1. l.index[p] = 0
    BY <1>4 DEF IsIndexed
  <2>2. 1 \in DOMAIN l.list /\ l.list[1] = p
    BY <1>2, <1>4, <2>1
  <2> QED
    BY <1>4, <2>2 DEF Range
<1> QED
  BY <1>3, <1>4

\* Push adds its policy to a consistent list and keeps it consistent.
LEMMA PushSound ==
  ASSUME NEW l \in IndexedList, IsIndexed(l),
         NEW p \in Policies, p \notin Range(l.list)
  PROVE  /\ Push(l, p) \in IndexedList
         /\ IsIndexed(Push(l, p))
         /\ Range(Push(l, p).list) = Range(l.list) \cup {p}
<1> DEFINE n == Len(l.list)
           new == Append(l.list, p)
           idx == [l.index EXCEPT ![p] = n]
<1>1. l.list \in Seq(Policies) /\ l.index \in [Policies -> Nat]
  BY DEF IndexedList
<1>2. n \in Nat /\ DOMAIN l.list = 1 .. n
  BY <1>1
<1>3. /\ new \in Seq(Policies)
      /\ Len(new) = n + 1
      /\ DOMAIN new = 1 .. (n + 1)
      /\ \A i \in 1 .. n : new[i] = l.list[i]
      /\ new[n + 1] = p
  BY <1>1, <1>2
<1>4. \A i \in 1 .. n : l.list[i] # p /\ l.list[i] \in Policies
  BY <1>1, <1>2 DEF Range
<1>5. /\ Push(l, p).list = new
      /\ Push(l, p).index = idx
      /\ Push(l, p) = [list |-> new, index |-> idx]
  BY DEF Push
<1>6. Range(new) = Range(l.list) \cup {p}
  <2>1. \A q : q \in Range(new) => q \in Range(l.list) \cup {p}
    <3>1. SUFFICES ASSUME NEW i \in 1 .. (n + 1), new[i] \notin Range(l.list), new[i] # p
                   PROVE  FALSE
      BY <1>3 DEF Range
    <3>2. i \in 1 .. n
      BY <1>2, <1>3, <3>1
    <3> QED
      BY <1>2, <1>3, <3>1, <3>2 DEF Range
  <2>2. p \in Range(new)
    BY <1>2, <1>3 DEF Range
  <2>3. \A q \in Range(l.list) : q \in Range(new)
    <3>1. SUFFICES ASSUME NEW i \in 1 .. n PROVE l.list[i] \in Range(new)
      BY <1>2 DEF Range
    <3>2. i \in 1 .. (n + 1) /\ new[i] = l.list[i]
      BY <1>2, <1>3
    <3> QED
      BY <1>3, <3>2 DEF Range
  <2> QED
    BY <2>1, <2>2, <2>3
<1>7. Push(l, p) \in IndexedList
  BY <1>1, <1>2, <1>3, <1>5 DEF IndexedList
<1>8. \A i \in 1 .. (n + 1) : idx[new[i]] = i - 1
  <2>1. TAKE i \in 1 .. (n + 1)
  <2>2. CASE i = n + 1
    BY <1>1, <1>2, <1>3, <2>2
  <2>3. CASE i \in 1 .. n
    BY <1>1, <1>3, <1>4, <2>3 DEF IsIndexed
  <2> QED
    BY <1>2, <2>2, <2>3
<1>9. \A q \in Policies \ Range(new) : idx[q] = 0
  BY <1>1, <1>6 DEF IsIndexed
<1>10. IsIndexed(Push(l, p))
  BY <1>3, <1>5, <1>8, <1>9 DEF IsIndexed
<1> QED
  BY <1>5, <1>6, <1>7, <1>10

\* SwapAndPop removes its policy, and no other, and keeps the list consistent
\* (Kernel.sol:329-335 and 401-410).
LEMMA SwapAndPopSound ==
  ASSUME NEW l \in IndexedList, IsIndexed(l),
         NEW p \in Policies, p \in Range(l.list)
  PROVE  /\ SwapAndPop(l, p) \in IndexedList
         /\ IsIndexed(SwapAndPop(l, p))
         /\ Range(SwapAndPop(l, p).list) = Range(l.list) \ {p}
<1> DEFINE n == Len(l.list)
           last == l.list[n]
           gap == l.index[p] + 1
           new == [i \in 1 .. (n - 1) |-> IF i = gap THEN last ELSE l.list[i]]
           idx == [[l.index EXCEPT ![last] = l.index[p]] EXCEPT ![p] = 0]
<1>1. l.list \in Seq(Policies) /\ l.index \in [Policies -> Nat]
  BY DEF IndexedList
<1>2. n \in Nat /\ DOMAIN l.list = 1 .. n
  BY <1>1
<1>3. \A i \in 1 .. n : l.index[l.list[i]] = i - 1 /\ l.list[i] \in Policies
  BY <1>1, <1>2 DEF IsIndexed
<1>4. \A i, j \in 1 .. n : l.list[i] = l.list[j] => i = j
  BY <1>2, <1>3
<1>5. gap \in 1 .. n /\ l.list[gap] = p
  <2>1. PICK i \in 1 .. n : l.list[i] = p
    BY <1>2 DEF Range
  <2>2. l.index[p] = i - 1
    BY <1>3, <2>1
  <2> QED
    BY <1>2, <2>1, <2>2
<1>6. n >= 1 /\ n - 1 \in Nat /\ n \in 1 .. n
  BY <1>2, <1>5
<1>7. last \in Policies /\ (last = p <=> gap = n)
  BY <1>3, <1>4, <1>5, <1>6
<1>8. /\ \A i \in 1 .. (n - 1) : i \in 1 .. n /\ new[i] \in Policies
      /\ new \in Seq(Policies)
      /\ Len(new) = n - 1
      /\ DOMAIN new = 1 .. (n - 1)
  <2>1. \A i \in 1 .. (n - 1) : i \in 1 .. n /\ new[i] \in Policies
    BY <1>3, <1>6, <1>7
  <2>2. new \in [1 .. (n - 1) -> Policies]
    BY <2>1
  <2>3. new \in Seq(Policies)
    BY <1>6, <2>2
  <2>4. Len(new) = n - 1
    BY <1>6, <2>2, <2>3
  <2> QED
    BY <2>1, <2>3, <2>4
<1>9. SwapAndPop(l, p) = [list |-> new, index |-> idx]
  BY DEF SwapAndPop
<1>10. idx \in [Policies -> Nat]
  BY <1>1, <1>7
<1>11. SwapAndPop(l, p) \in IndexedList
  BY <1>8, <1>9, <1>10 DEF IndexedList
<1>12. Range(new) = Range(l.list) \ {p}
  <2>1. ASSUME NEW i \in 1 .. (n - 1) PROVE new[i] \in Range(l.list) \ {p}
    <3>1. CASE i = gap
      BY <1>2, <1>6, <1>7, <3>1 DEF Range
    <3>2. CASE i # gap
      BY <1>2, <1>4, <1>5, <1>8, <3>2 DEF Range
    <3> QED
      BY <3>1, <3>2
  <2>2. ASSUME NEW q \in Range(l.list) \ {p} PROVE q \in Range(new)
    <3>1. PICK i \in 1 .. n : l.list[i] = q
      BY <1>2 DEF Range
    <3>2. i # gap
      BY <1>5, <3>1
    <3>3. CASE i = n
      <4>1. gap \in 1 .. (n - 1)
        BY <1>2, <1>5, <3>2, <3>3
      <4>2. new[gap] = q
        BY <3>1, <3>3, <4>1
      <4> QED
        BY <1>8, <4>1, <4>2 DEF Range
    <3>4. CASE i # n
      <4>1. i \in 1 .. (n - 1)
        BY <1>2, <3>4
      <4>2. new[i] = q
        BY <3>1, <3>2, <4>1
      <4> QED
        BY <1>8, <4>1, <4>2 DEF Range
    <3> QED
      BY <3>3, <3>4
  <2> QED
    BY <1>8, <2>1, <2>2 DEF Range
<1>13. \A i \in 1 .. (n - 1) : idx[new[i]] = i - 1
  <2>1. TAKE i \in 1 .. (n - 1)
  <2>2. CASE i = gap
    <3>1. last # p
      BY <1>2, <1>7, <2>2
    <3> QED
      BY <1>1, <1>5, <1>7, <2>2, <3>1
  <2>3. CASE i # gap
    <3>1. new[i] = l.list[i] /\ i \in 1 .. n /\ i # n
      BY <1>8, <2>3, <1>6
    <3>2. new[i] # p /\ new[i] # last
      BY <1>4, <1>5, <1>6, <2>3, <3>1
    <3> QED
      BY <1>1, <1>3, <1>8, <3>1, <3>2
  <2> QED
    BY <2>2, <2>3
<1>14. \A q \in Policies \ Range(new) : idx[q] = 0
  <2>1. TAKE q \in Policies \ Range(new)
  <2>2. CASE q = p
    BY <1>1, <1>7, <2>2
  <2>3. CASE q # p
    <3>1. q \notin Range(l.list)
      BY <1>12, <2>3
    <3>2. q # last
      BY <1>2, <1>6, <3>1 DEF Range
    <3> QED
      BY <1>1, <1>7, <2>3, <3>1, <3>2 DEF IsIndexed
  <2> QED
    BY <2>2, <2>3
<1>15. IsIndexed(SwapAndPop(l, p))
  <2>1. SwapAndPop(l, p).list = new /\ SwapAndPop(l, p).index = idx
    BY <1>9
  <2> HIDE DEF new, idx
  <2> QED
    BY <1>8, <1>13, <1>14, <2>1 DEF IsIndexed
<1> QED
  BY <1>9, <1>11, <1>12, <1>15

-----------------------------------------------------------------------------
(* A kernel's storage.                                                     *)

\* The keycode of a module in a registry is its own, both directions agree
\* and allKeycodes has every installed keycode once.
ModulesSound(r) ==
  /\ \A kc \in Keycodes :
       r.getModuleForKeycode[kc] # Null => KeycodeOf[r.getModuleForKeycode[kc]] = kc
  /\ \A m \in Modules, kc \in Keycodes :
       (r.getKeycodeForModule[m] = kc) <=> (r.getModuleForKeycode[kc] = m)
  /\ \A kc \in Keycodes :
       (kc \in Range(r.allKeycodes)) <=> (r.getModuleForKeycode[kc] # Null)
  /\ IsInjective(r.allKeycodes)

\* Indices, dependents and permissions agree with the active policies.
PoliciesSound(r) ==
  /\ IsIndexed(r.activePolicies)
  /\ \A kc \in Keycodes : IsIndexed(r.moduleDependents[kc])
  /\ \A kc \in Keycodes :
       Dependents(r, kc) = {p \in ActivePolicies(r) : kc \in DependsOn[p]}
  /\ \A p \in Policies :
       r.modulePermissions[p] = IF p \in ActivePolicies(r) THEN Requests[p] ELSE {}

Sound(r) == r \in Registry /\ ModulesSound(r) /\ PoliciesSound(r)

\* isPolicyActive is membership in activePolicies.
LEMMA ActiveIsMember ==
  ASSUME NEW r, Sound(r), NEW p \in Policies
  PROVE  IsPolicyActive(r, p) <=> p \in ActivePolicies(r)
<1>1. r.activePolicies \in IndexedList /\ IsIndexed(r.activePolicies)
  BY DEF Sound, Registry, PoliciesSound
<1> QED
  BY <1>1, MemberByIndex DEF IsPolicyActive, ActivePolicies

LEMMA EmptyRegistrySound == Sound(EmptyRegistry)
<1> DEFINE r == EmptyRegistry
<1>1. <<>> \in Seq(Keycodes) /\ DOMAIN <<>> = {} /\ Range(<<>>) = {} /\ IsInjective(<<>>)
  BY DEF Range, IsInjective
<1>2. /\ r.allKeycodes = <<>>
      /\ r.getModuleForKeycode = [kc \in Keycodes |-> Null]
      /\ r.getKeycodeForModule = [m \in Modules |-> Null]
      /\ r.moduleDependents = [kc \in Keycodes |-> EmptyList]
      /\ r.modulePermissions = [p \in Policies |-> {}]
      /\ r.activePolicies = EmptyList
  BY DEF EmptyRegistry
<1>3. r \in Registry
  BY <1>1, EmptyListSound DEF EmptyRegistry, Registry
<1>4. ModulesSound(r)
  BY <1>1, <1>2, KernelAssumption DEF ModulesSound
<1>5. PoliciesSound(r)
  BY <1>2, EmptyListSound DEF PoliciesSound, ActivePolicies, Dependents
<1> QED
  BY <1>3, <1>4, <1>5 DEF Sound

\* _installModule registers a module whose keycode is free.
LEMMA InstalledSound ==
  ASSUME NEW r, Sound(r), NEW m \in Modules,
         r.getModuleForKeycode[KeycodeOf[m]] = Null
  PROVE  Sound(Installed(r, m))
<1> DEFINE kc == KeycodeOf[m]
           s == Installed(r, m)
<1>1. r \in Registry /\ kc \in Keycodes /\ m # Null /\ Null \notin Keycodes
  BY KernelAssumption DEF Sound
<1>2. /\ s.allKeycodes = Append(r.allKeycodes, kc)
      /\ s.getModuleForKeycode = [r.getModuleForKeycode EXCEPT ![kc] = m]
      /\ s.getKeycodeForModule = [r.getKeycodeForModule EXCEPT ![m] = kc]
      /\ s.moduleDependents = r.moduleDependents
      /\ s.modulePermissions = r.modulePermissions
      /\ s.activePolicies = r.activePolicies
  BY <1>1 DEF Installed, Registry
<1>3. /\ r.allKeycodes \in Seq(Keycodes)
      /\ r.getModuleForKeycode \in [Keycodes -> Modules \cup {Null}]
      /\ r.getKeycodeForModule \in [Modules -> Keycodes \cup {Null}]
  BY <1>1 DEF Registry
<1>4. s \in Registry
  <2>1. Append(r.allKeycodes, kc) \in Seq(Keycodes)
    BY <1>1, <1>3
  <2>2. [r.getModuleForKeycode EXCEPT ![kc] = m] \in [Keycodes -> Modules \cup {Null}]
    BY <1>3
  <2>3. [r.getKeycodeForModule EXCEPT ![m] = kc] \in [Modules -> Keycodes \cup {Null}]
    BY <1>1, <1>3
  <2>4. s = [r EXCEPT !.getModuleForKeycode = [r.getModuleForKeycode EXCEPT ![kc] = m],
                      !.getKeycodeForModule = [r.getKeycodeForModule EXCEPT ![m] = kc],
                      !.allKeycodes = Append(r.allKeycodes, kc)]
    BY <1>1 DEF Installed, Registry
  <2> QED
    BY <1>1, <2>1, <2>2, <2>3, <2>4 DEF Registry
<1>5. PoliciesSound(s)
  BY <1>2 DEF Sound, PoliciesSound, ActivePolicies, Dependents
<1>6. ModulesSound(r) /\ kc \notin Range(r.allKeycodes)
  BY <1>1 DEF Sound, ModulesSound
<1>7. /\ Len(r.allKeycodes) \in Nat
      /\ DOMAIN r.allKeycodes = 1 .. Len(r.allKeycodes)
      /\ DOMAIN s.allKeycodes = 1 .. (Len(r.allKeycodes) + 1)
      /\ \A i \in 1 .. Len(r.allKeycodes) : s.allKeycodes[i] = r.allKeycodes[i]
      /\ s.allKeycodes[Len(r.allKeycodes) + 1] = kc
  BY <1>1, <1>2, <1>3
<1>8. Range(s.allKeycodes) = Range(r.allKeycodes) \cup {kc}
  <2> DEFINE n == Len(r.allKeycodes)
  <2>1. \A i \in 1 .. (n + 1) : s.allKeycodes[i] \in Range(r.allKeycodes) \cup {kc}
    <3>1. TAKE i \in 1 .. (n + 1)
    <3>2. i \in 1 .. n \/ i = n + 1
      BY <1>7
    <3> QED
      BY <1>7, <3>2 DEF Range
  <2>2. \A i \in 1 .. n : i \in 1 .. (n + 1)
    BY <1>7
  <2>3. n + 1 \in 1 .. (n + 1)
    BY <1>7
  <2> QED
    BY <1>7, <2>1, <2>2, <2>3 DEF Range
<1>9. IsInjective(s.allKeycodes)
  <2> DEFINE n == Len(r.allKeycodes)
  <2>1. SUFFICES ASSUME NEW i \in 1 .. (n + 1), NEW j \in 1 .. (n + 1),
                        s.allKeycodes[i] = s.allKeycodes[j]
                 PROVE  i = j
    BY <1>7 DEF IsInjective
  <2>2. \A x \in 1 .. n : s.allKeycodes[x] # kc
    BY <1>6, <1>7 DEF Range
  <2>3. (i \in 1 .. n \/ i = n + 1) /\ (j \in 1 .. n \/ j = n + 1)
    BY <1>7
  <2>4. \A x, y \in 1 .. n : r.allKeycodes[x] = r.allKeycodes[y] => x = y
    BY <1>6, <1>7 DEF ModulesSound, IsInjective
  <2> QED
    BY <1>7, <2>1, <2>2, <2>3, <2>4
<1>10. \A x \in Keycodes :
         s.getModuleForKeycode[x] # Null => KeycodeOf[s.getModuleForKeycode[x]] = x
  BY <1>1, <1>2, <1>3, <1>6 DEF ModulesSound
<1>11. \A x \in Modules, y \in Keycodes :
         (s.getKeycodeForModule[x] = y) <=> (s.getModuleForKeycode[y] = x)
  <2>1. TAKE x \in Modules, y \in Keycodes
  <2>2. r.getModuleForKeycode[y] = m => y = kc
    BY <1>1, <1>6 DEF ModulesSound
  <2>3. (r.getKeycodeForModule[x] = y) <=> (r.getModuleForKeycode[y] = x)
    BY <1>6 DEF ModulesSound
  <2>4. CASE x = m
    BY <1>1, <1>2, <1>3, <2>2, <2>4
  <2>5. CASE x # m /\ y = kc
    <3>1. s.getModuleForKeycode[y] = m /\ r.getModuleForKeycode[y] = Null
      BY <1>2, <1>3, <1>1, <2>5
    <3>2. s.getKeycodeForModule[x] = r.getKeycodeForModule[x] /\ x # Null
      BY <1>2, <1>3, <2>5, KernelAssumption
    <3> QED
      BY <2>3, <2>5, <3>1, <3>2
  <2>6. CASE x # m /\ y # kc
    BY <1>2, <1>3, <2>3, <2>6
  <2> QED
    BY <2>4, <2>5, <2>6
<1>12. \A x \in Keycodes :
         (x \in Range(s.allKeycodes)) <=> (s.getModuleForKeycode[x] # Null)
  BY <1>1, <1>2, <1>3, <1>6, <1>8 DEF ModulesSound
<1>13. ModulesSound(s)
  BY <1>9, <1>10, <1>11, <1>12 DEF ModulesSound
<1> QED
  BY <1>4, <1>5, <1>13 DEF Sound

\* _upgradeModule replaces the module of a keycode, which may have served it
\* before, and frees the one replaced.
LEMMA UpgradedSound ==
  ASSUME NEW r, Sound(r), NEW m \in Modules,
         r.getModuleForKeycode[KeycodeOf[m]] \notin {Null, m}
  PROVE  Sound(Upgraded(r, m))
<1> DEFINE kc == KeycodeOf[m]
           old == r.getModuleForKeycode[kc]
           s == Upgraded(r, m)
           modules == [r.getModuleForKeycode EXCEPT ![kc] = m]
           keycodes == [[r.getKeycodeForModule EXCEPT ![old] = Null] EXCEPT ![m] = kc]
<1>1. r \in Registry /\ kc \in Keycodes /\ m # Null /\ Null \notin Keycodes
  BY KernelAssumption DEF Sound
<1>2. /\ r.getModuleForKeycode \in [Keycodes -> Modules \cup {Null}]
      /\ r.getKeycodeForModule \in [Modules -> Keycodes \cup {Null}]
      /\ old \in Modules /\ old # m
  BY <1>1 DEF Registry
<1>3. s = [r EXCEPT !.getModuleForKeycode = modules, !.getKeycodeForModule = keycodes]
  BY <1>1 DEF Upgraded, Registry
<1>4. /\ s.allKeycodes = r.allKeycodes
      /\ s.getModuleForKeycode = modules
      /\ s.getKeycodeForModule = keycodes
      /\ s.moduleDependents = r.moduleDependents
      /\ s.modulePermissions = r.modulePermissions
      /\ s.activePolicies = r.activePolicies
  BY <1>1, <1>3 DEF Registry
<1>5. s \in Registry
  <2>1. modules \in [Keycodes -> Modules \cup {Null}]
    BY <1>2
  <2>2. keycodes \in [Modules -> Keycodes \cup {Null}]
    BY <1>1, <1>2
  <2> HIDE DEF modules, keycodes
  <2> QED
    BY <1>1, <1>3, <2>1, <2>2 DEF Registry
<1>6. PoliciesSound(s)
  BY <1>4 DEF Sound, PoliciesSound, ActivePolicies, Dependents
<1>7. ModulesSound(r)
  BY DEF Sound
<1>8. \A x \in Keycodes :
        s.getModuleForKeycode[x] # Null => KeycodeOf[s.getModuleForKeycode[x]] = x
  BY <1>1, <1>2, <1>4, <1>7 DEF ModulesSound
<1>9. \A x \in Modules, y \in Keycodes :
        (s.getKeycodeForModule[x] = y) <=> (s.getModuleForKeycode[y] = x)
  <2>1. TAKE x \in Modules, y \in Keycodes
  <2>2. (r.getKeycodeForModule[x] = y) <=> (r.getModuleForKeycode[y] = x)
    BY <1>7 DEF ModulesSound
  <2>3. r.getModuleForKeycode[y] = m => y = kc
    BY <1>1, <1>7 DEF ModulesSound
  <2>4. r.getModuleForKeycode[y] = old => y = kc
    BY <1>1, <1>2, <1>7 DEF ModulesSound
  <2>5. /\ modules[y] = IF y = kc THEN m ELSE r.getModuleForKeycode[y]
        /\ keycodes[x] = IF x = m THEN kc
                         ELSE IF x = old THEN Null ELSE r.getKeycodeForModule[x]
    BY <1>1, <1>2
  <2>6. CASE x = m
    BY <1>1, <1>4, <2>3, <2>5, <2>6
  <2>7. CASE x # m /\ x = old
    BY <1>1, <1>4, <2>4, <2>5, <2>7
  <2>8. CASE x # m /\ x # old
    BY <1>1, <1>4, <2>2, <2>5, <2>8
  <2> QED
    BY <2>6, <2>7, <2>8
<1>10. \A x \in Keycodes :
         (x \in Range(s.allKeycodes)) <=> (s.getModuleForKeycode[x] # Null)
  BY <1>1, <1>2, <1>4, <1>7 DEF ModulesSound
<1>11. ModulesSound(s)
  BY <1>4, <1>7, <1>8, <1>9, <1>10 DEF ModulesSound
<1> QED
  BY <1>5, <1>6, <1>11 DEF Sound

\* _activatePolicy adds an inactive policy to the active ones and to the
\* dependents of each of its modules, and grants it what it requests.
LEMMA ActivatedSound ==
  ASSUME NEW r, Sound(r), NEW p \in Policies, p \notin ActivePolicies(r)
  PROVE  /\ Sound(Activated(r, p))
         /\ ActivePolicies(Activated(r, p)) = ActivePolicies(r) \cup {p}
<1> DEFINE s == Activated(r, p)
           active == Push(r.activePolicies, p)
           dependents == [kc \in Keycodes |->
                            IF kc \in DependsOn[p] THEN Push(r.moduleDependents[kc], p)
                            ELSE r.moduleDependents[kc]]
           permissions == [r.modulePermissions EXCEPT ![p] = @ \cup Requests[p]]
<1>1. r \in Registry /\ ModulesSound(r) /\ PoliciesSound(r)
  BY DEF Sound
<1>2. /\ r.activePolicies \in IndexedList
      /\ r.moduleDependents \in [Keycodes -> IndexedList]
      /\ r.modulePermissions \in [Policies -> SUBSET (Keycodes \X Selectors)]
      /\ Requests \in [Policies -> SUBSET (Keycodes \X Selectors)]
  BY <1>1, KernelAssumption DEF Registry
<1>3. s = [r EXCEPT !.activePolicies = active, !.moduleDependents = dependents,
                    !.modulePermissions = permissions]
  BY <1>1 DEF Activated, WithPermissions, Registry
<1>4. /\ s.allKeycodes = r.allKeycodes
      /\ s.getModuleForKeycode = r.getModuleForKeycode
      /\ s.getKeycodeForModule = r.getKeycodeForModule
      /\ s.moduleDependents = dependents
      /\ s.modulePermissions = permissions
      /\ s.activePolicies = active
  BY <1>1, <1>3 DEF Registry
<1>5. /\ active \in IndexedList
      /\ IsIndexed(active)
      /\ Range(active.list) = ActivePolicies(r) \cup {p}
  BY <1>1, <1>2, PushSound DEF PoliciesSound, ActivePolicies
<1>6. ASSUME NEW kc \in Keycodes
      PROVE  /\ dependents[kc] \in IndexedList
             /\ IsIndexed(dependents[kc])
             /\ Range(dependents[kc].list) =
                  {q \in ActivePolicies(r) \cup {p} : kc \in DependsOn[q]}
  <2>1. /\ r.moduleDependents[kc] \in IndexedList
        /\ IsIndexed(r.moduleDependents[kc])
        /\ Range(r.moduleDependents[kc].list) =
             {q \in ActivePolicies(r) : kc \in DependsOn[q]}
    BY <1>1, <1>2 DEF PoliciesSound, Dependents
  <2>2. CASE kc \in DependsOn[p]
    <3>1. p \notin Range(r.moduleDependents[kc].list)
      BY <2>1
    <3>2. /\ Push(r.moduleDependents[kc], p) \in IndexedList
          /\ IsIndexed(Push(r.moduleDependents[kc], p))
          /\ Range(Push(r.moduleDependents[kc], p).list) =
               Range(r.moduleDependents[kc].list) \cup {p}
      BY <2>1, <3>1, PushSound
    <3>3. dependents[kc] = Push(r.moduleDependents[kc], p)
      BY <2>2
    <3> HIDE DEF dependents
    <3> QED
      BY <2>1, <2>2, <3>2, <3>3
  <2>3. CASE kc \notin DependsOn[p]
    <3>1. dependents[kc] = r.moduleDependents[kc]
      BY <2>3
    <3> HIDE DEF dependents
    <3> QED
      BY <2>1, <2>3, <3>1
  <2> QED
    BY <2>2, <2>3
<1>7. /\ permissions \in [Policies -> SUBSET (Keycodes \X Selectors)]
      /\ \A q \in Policies : permissions[q] =
           IF q \in ActivePolicies(r) \cup {p} THEN Requests[q] ELSE {}
  BY <1>1, <1>2 DEF PoliciesSound
<1>8. dependents \in [Keycodes -> IndexedList]
  <2>1. \A kc \in Keycodes : dependents[kc] \in IndexedList
    BY <1>6
  <2> QED
    BY <2>1
<1> HIDE DEF active, dependents, permissions
<1>9. s \in Registry
  BY <1>1, <1>3, <1>5, <1>7, <1>8 DEF Registry
<1>10. ActivePolicies(s) = ActivePolicies(r) \cup {p}
  BY <1>4, <1>5 DEF ActivePolicies
<1>11. PoliciesSound(s)
  BY <1>4, <1>5, <1>6, <1>7, <1>10 DEF PoliciesSound, Dependents
<1>12. ModulesSound(s)
  BY <1>1, <1>4 DEF ModulesSound
<1> QED
  BY <1>9, <1>10, <1>11, <1>12 DEF Sound

\* _deactivatePolicy takes a policy out of every list it is in, leaves every
\* other policy where it can be found, and takes its permissions back.
LEMMA DeactivatedSound ==
  ASSUME NEW r, Sound(r), NEW p \in Policies, p \in ActivePolicies(r)
  PROVE  /\ Sound(Deactivated(r, p))
         /\ ActivePolicies(Deactivated(r, p)) = ActivePolicies(r) \ {p}
<1> DEFINE s == Deactivated(r, p)
           active == SwapAndPop(r.activePolicies, p)
           dependents == [kc \in Keycodes |->
                            IF kc \in DependsOn[p] THEN SwapAndPop(r.moduleDependents[kc], p)
                            ELSE r.moduleDependents[kc]]
           permissions == [r.modulePermissions EXCEPT ![p] = @ \ Requests[p]]
<1>1. r \in Registry /\ ModulesSound(r) /\ PoliciesSound(r)
  BY DEF Sound
<1>2. /\ r.activePolicies \in IndexedList
      /\ r.moduleDependents \in [Keycodes -> IndexedList]
      /\ r.modulePermissions \in [Policies -> SUBSET (Keycodes \X Selectors)]
  BY <1>1 DEF Registry
<1>3. s = [r EXCEPT !.activePolicies = active, !.moduleDependents = dependents,
                    !.modulePermissions = permissions]
  BY <1>1 DEF Deactivated, WithPermissions, Registry
<1>4. /\ s.allKeycodes = r.allKeycodes
      /\ s.getModuleForKeycode = r.getModuleForKeycode
      /\ s.getKeycodeForModule = r.getKeycodeForModule
      /\ s.moduleDependents = dependents
      /\ s.modulePermissions = permissions
      /\ s.activePolicies = active
  BY <1>1, <1>3 DEF Registry
<1>5. /\ active \in IndexedList
      /\ IsIndexed(active)
      /\ Range(active.list) = ActivePolicies(r) \ {p}
  BY <1>1, <1>2, SwapAndPopSound DEF PoliciesSound, ActivePolicies
<1>6. ASSUME NEW kc \in Keycodes
      PROVE  /\ dependents[kc] \in IndexedList
             /\ IsIndexed(dependents[kc])
             /\ Range(dependents[kc].list) =
                  {q \in ActivePolicies(r) \ {p} : kc \in DependsOn[q]}
  <2>1. /\ r.moduleDependents[kc] \in IndexedList
        /\ IsIndexed(r.moduleDependents[kc])
        /\ Range(r.moduleDependents[kc].list) =
             {q \in ActivePolicies(r) : kc \in DependsOn[q]}
    BY <1>1, <1>2 DEF PoliciesSound, Dependents
  <2>2. CASE kc \in DependsOn[p]
    <3>1. p \in Range(r.moduleDependents[kc].list)
      BY <2>1, <2>2
    <3>2. /\ SwapAndPop(r.moduleDependents[kc], p) \in IndexedList
          /\ IsIndexed(SwapAndPop(r.moduleDependents[kc], p))
          /\ Range(SwapAndPop(r.moduleDependents[kc], p).list) =
               Range(r.moduleDependents[kc].list) \ {p}
      BY <2>1, <3>1, SwapAndPopSound
    <3>3. dependents[kc] = SwapAndPop(r.moduleDependents[kc], p)
      BY <2>2
    <3> HIDE DEF dependents
    <3> QED
      BY <2>1, <2>2, <3>2, <3>3
  <2>3. CASE kc \notin DependsOn[p]
    <3>1. dependents[kc] = r.moduleDependents[kc]
      BY <2>3
    <3> HIDE DEF dependents
    <3> QED
      BY <2>1, <2>3, <3>1
  <2> QED
    BY <2>2, <2>3
<1>7. /\ permissions \in [Policies -> SUBSET (Keycodes \X Selectors)]
      /\ \A q \in Policies : permissions[q] =
           IF q \in ActivePolicies(r) \ {p} THEN Requests[q] ELSE {}
  BY <1>1, <1>2 DEF PoliciesSound
<1>8. dependents \in [Keycodes -> IndexedList]
  <2>1. \A kc \in Keycodes : dependents[kc] \in IndexedList
    BY <1>6
  <2> QED
    BY <2>1
<1> HIDE DEF active, dependents, permissions
<1>9. s \in Registry
  BY <1>1, <1>3, <1>5, <1>7, <1>8 DEF Registry
<1>10. ActivePolicies(s) = ActivePolicies(r) \ {p}
  BY <1>4, <1>5 DEF ActivePolicies
<1>11. PoliciesSound(s)
  BY <1>4, <1>5, <1>6, <1>7, <1>10 DEF PoliciesSound, Dependents
<1>12. ModulesSound(s)
  BY <1>1, <1>4 DEF ModulesSound
<1> QED
  BY <1>9, <1>10, <1>11, <1>12 DEF Sound

-----------------------------------------------------------------------------
(* The inductive invariant, action by action.                              *)

IInv == TypeOK /\ \A k \in Kernels : Sound(registry[k])

\* The three safety invariants of the runs are what Sound says of a registry.
LEMMA InvariantsFromIInv ==
  ASSUME IInv
  PROVE  RegistryConsistent /\ PermissionsFollowActivation /\ ModulesMatchKeycodes
<1>1. \A k \in Kernels : Sound(registry[k])
  BY DEF IInv
<1>2. RegistryConsistent
  BY <1>1 DEF RegistryConsistent, IndicesMatch, DependentsMatch, Sound, PoliciesSound
<1>3. PermissionsFollowActivation
  BY <1>1, ActiveIsMember DEF PermissionsFollowActivation, Sound, PoliciesSound
<1>4. ModulesMatchKeycodes
  BY <1>1 DEF ModulesMatchKeycodes, Sound, ModulesSound
<1> QED
  BY <1>2, <1>3, <1>4

\* Policies that are configured keep addresses of modules, or none.
LEMMA ConfiguredType ==
  ASSUME TypeOK, NEW reg \in [Kernels -> Registry], NEW ps
  PROVE  Configured(reg, ps) \in [Policies -> [Keycodes -> Modules \cup {Null}]]
<1>1. ASSUME NEW p \in Policies, NEW kc \in Keycodes
      PROVE  /\ reg[kernelOf[p]].getModuleForKeycode[kc] \in Modules \cup {Null}
             /\ cached[p][kc] \in Modules \cup {Null}
  BY <1>1 DEF TypeOK, Registry
<1> QED
  BY <1>1 DEF Configured

\* A function of one kernel on its own storage leaves the invariant intact.
LEMMA OneKernelStep ==
  ASSUME IInv, NEW k \in Kernels, NEW s, Sound(s),
         registry' = [registry EXCEPT ![k] = s]
  PROVE  /\ registry' \in [Kernels -> Registry]
         /\ \A j \in Kernels : Sound(registry'[j])
<1>1. registry \in [Kernels -> Registry] /\ s \in Registry
  BY DEF IInv, TypeOK, Sound
<1>2. ASSUME NEW j \in Kernels PROVE Sound(registry'[j])
  <2>1. CASE j = k
    BY <1>1, <2>1
  <2>2. CASE j # k
    <3>1. registry'[j] = registry[j]
      BY <1>1, <2>2
    <3> QED
      BY <3>1 DEF IInv
  <2> QED
    BY <2>1, <2>2
<1> QED
  BY <1>1, <1>2

LEMMA InstallModuleInv ==
  ASSUME IInv, NEW k \in Kernels, NEW m \in Modules, InstallModule(k, m)
  PROVE  IInv'
<1>1. Sound(Installed(registry[k], m))
  BY InstalledSound DEF IInv, InstallModule
<1>2. registry' \in [Kernels -> Registry] /\ \A j \in Kernels : Sound(registry'[j])
  BY <1>1, OneKernelStep DEF InstallModule
<1> QED
  BY <1>2 DEF IInv, TypeOK, InstallModule

LEMMA UpgradeModuleInv ==
  ASSUME IInv, NEW k \in Kernels, NEW m \in Modules, UpgradeModule(k, m)
  PROVE  IInv'
<1>1. Sound(Upgraded(registry[k], m))
  BY UpgradedSound DEF IInv, UpgradeModule
<1>2. registry' \in [Kernels -> Registry] /\ \A j \in Kernels : Sound(registry'[j])
  BY <1>1, OneKernelStep DEF UpgradeModule
<1>3. cached' \in [Policies -> [Keycodes -> Modules \cup {Null}]]
  BY <1>2, ConfiguredType DEF IInv, UpgradeModule, ConfigureDependencies
<1> QED
  BY <1>2, <1>3 DEF IInv, TypeOK, UpgradeModule

LEMMA ActivatePolicyInv ==
  ASSUME IInv, NEW k \in Kernels, NEW p \in Policies, ActivatePolicy(k, p)
  PROVE  IInv'
<1>1. Sound(registry[k]) /\ p \notin ActivePolicies(registry[k])
  BY ActiveIsMember DEF IInv, ActivatePolicy
<1>2. Sound(Activated(registry[k], p))
  BY <1>1, ActivatedSound
<1>3. registry' \in [Kernels -> Registry] /\ \A j \in Kernels : Sound(registry'[j])
  BY <1>2, OneKernelStep DEF ActivatePolicy
<1>4. cached' \in [Policies -> [Keycodes -> Modules \cup {Null}]]
  BY ConfiguredType DEF IInv, TypeOK, ActivatePolicy, ConfigureDependencies
<1> QED
  BY <1>3, <1>4 DEF IInv, TypeOK, ActivatePolicy

LEMMA DeactivatePolicyInv ==
  ASSUME IInv, NEW k \in Kernels, NEW p \in Policies, DeactivatePolicy(k, p)
  PROVE  IInv'
<1>1. Sound(registry[k]) /\ p \in ActivePolicies(registry[k])
  BY ActiveIsMember DEF IInv, DeactivatePolicy
<1>2. Sound(Deactivated(registry[k], p))
  BY <1>1, DeactivatedSound
<1>3. registry' \in [Kernels -> Registry] /\ \A j \in Kernels : Sound(registry'[j])
  BY <1>2, OneKernelStep DEF DeactivatePolicy
<1>4. cached' \in [Policies -> [Keycodes -> Modules \cup {Null}]]
  BY ConfiguredType DEF IInv, TypeOK, DeactivatePolicy, ConfigureDependencies
<1> QED
  BY <1>3, <1>4 DEF IInv, TypeOK, DeactivatePolicy

\* The actions that leave the registries alone.
LEMMA OtherActionsInv ==
  ASSUME IInv, NEW k \in Kernels
  PROVE  /\ \A a \in Accounts : ChangeExecutor(k, a) => IInv'
         /\ \A new \in Kernels : MigrateKernel(k, new) => IInv'
         /\ \A p \in Policies : Configure(p) => IInv'
<1>1. ASSUME NEW a \in Accounts, ChangeExecutor(k, a) PROVE IInv'
  BY <1>1 DEF IInv, TypeOK, ChangeExecutor
<1>2. ASSUME NEW new \in Kernels, MigrateKernel(k, new) PROVE IInv'
  BY <1>2 DEF IInv, TypeOK, MigrateKernel
<1>3. ASSUME NEW p \in Policies, Configure(p) PROVE IInv'
  <2>1. cached' \in [Policies -> [Keycodes -> Modules \cup {Null}]]
    BY <1>3, ConfiguredType DEF IInv, TypeOK, Configure, ConfigureDependencies
  <2> QED
    BY <1>3, <2>1 DEF IInv, TypeOK, Configure
<1> QED
  BY <1>1, <1>2, <1>3

LEMMA InitInv == Init => IInv
<1> SUFFICES ASSUME Init PROVE IInv
  OBVIOUS
<1>1. Sound(EmptyRegistry) /\ EmptyRegistry \in Registry
  BY EmptyRegistrySound DEF Sound
<1>2. \A k \in Kernels : registry[k] = EmptyRegistry
  BY DEF Init
<1>3. TypeOK
  BY <1>1, KernelAssumption DEF Init, TypeOK
<1> QED
  BY <1>1, <1>2, <1>3 DEF IInv

LEMMA NextInv == IInv /\ [Next]_vars => IInv'
<1> SUFFICES ASSUME IInv, [Next]_vars PROVE IInv'
  OBVIOUS
<1>1. CASE UNCHANGED vars
  BY <1>1 DEF IInv, TypeOK, vars
<1>2. ASSUME NEW c \in Accounts, NEW k \in Kernels, ExecuteAction(c, k)
      PROVE  IInv'
  BY <1>2, InstallModuleInv, UpgradeModuleInv, ActivatePolicyInv, DeactivatePolicyInv,
     OtherActionsInv DEF ExecuteAction
<1>3. ASSUME NEW p \in Policies, Configure(p)
      PROVE  IInv'
  <2>1. HomeOf[p] \in Kernels
    BY KernelAssumption
  <2> QED
    BY <1>3, <2>1, OtherActionsInv
<1> QED
  BY <1>1, <1>2, <1>3 DEF Next

\* In every reachable state every kernel's storage is sound.
THEOREM Invariance == Spec => []IInv
BY InitInv, NextInv, PTL DEF Spec

\* The storage keeps its types (Kernel.sol:184-213).
THEOREM TypeCorrect == Spec => []TypeOK
<1>1. IInv => TypeOK
  BY DEF IInv
<1> QED
  BY <1>1, Invariance, PTL

\* Arrays, indices and lists of dependents agree however many policies are
\* activated and deactivated in whatever order.
THEOREM IndicesAreRight == Spec => []RegistryConsistent
BY InvariantsFromIInv, Invariance, PTL

\* A policy has its permissions exactly where and while it is active.
THEOREM PermissionsAreRight == Spec => []PermissionsFollowActivation
BY InvariantsFromIInv, Invariance, PTL

\* Keycodes and modules are registered one to one.
THEOREM ModulesAreRight == Spec => []ModulesMatchKeycodes
BY InvariantsFromIInv, Invariance, PTL

-----------------------------------------------------------------------------
(* The kernels implement PolicyRegistry.                                   *)

serving == [k \in Kernels |-> registry[k].getModuleForKeycode]
active == [k \in Kernels |-> {p \in Policies : IsPolicyActive(registry[k], p)}]
granted == [k \in Kernels |-> registry[k].modulePermissions]

\* The policies a sound kernel says are active are those it lists.
LEMMA ActiveOf == IInv => active = [k \in Kernels |-> ActivePolicies(registry[k])]
<1> SUFFICES ASSUME IInv PROVE active = [k \in Kernels |-> ActivePolicies(registry[k])]
  OBVIOUS
<1>1. ASSUME NEW k \in Kernels
      PROVE  {p \in Policies : IsPolicyActive(registry[k], p)} = ActivePolicies(registry[k])
  <2>1. Sound(registry[k])
    BY DEF IInv
  <2>2. registry[k].activePolicies.list \in Seq(Policies)
    BY <2>1 DEF Sound, Registry, IndexedList
  <2>3. ActivePolicies(registry[k]) \subseteq Policies
    BY <2>2 DEF ActivePolicies, Range
  <2> QED
    BY <2>1, <2>3, ActiveIsMember
<1> QED
  BY <1>1 DEF active

LEMMA ActiveOfNext == IInv' => (active = [k \in Kernels |-> ActivePolicies(registry[k])])'
BY ActiveOf, PTL

\* An installation or upgrade is a Serve of the abstract registry.
LEMMA ServeStep ==
  ASSUME IInv, NEW k \in Kernels, NEW m \in Modules, NEW s,
         registry' = [registry EXCEPT ![k] = s],
         registry[k].getModuleForKeycode[KeycodeOf[m]] # m,
         s.getModuleForKeycode = [registry[k].getModuleForKeycode EXCEPT ![KeycodeOf[m]] = m],
         s.activePolicies = registry[k].activePolicies,
         s.modulePermissions = registry[k].modulePermissions
  PROVE  Promise!Serve(k, m)
<1>1. registry \in [Kernels -> Registry]
  BY DEF IInv, TypeOK
<1>2. serving' = [serving EXCEPT ![k][KeycodeOf[m]] = m]
  BY <1>1 DEF serving
<1>3. active' = active
  <2>1. \A j \in Kernels : \A p \in Policies :
          IsPolicyActive(registry'[j], p) <=> IsPolicyActive(registry[j], p)
    BY <1>1 DEF IsPolicyActive
  <2> QED
    BY <2>1 DEF active
<1>4. granted' = granted
  BY <1>1 DEF granted
<1>5. serving[k][KeycodeOf[m]] # m
  BY DEF serving
<1> QED
  BY <1>2, <1>3, <1>4, <1>5 DEF Promise!Serve, serving, active, granted

LEMMA InstallModuleImplements ==
  ASSUME IInv, NEW k \in Kernels, NEW m \in Modules, InstallModule(k, m)
  PROVE  Promise!Serve(k, m)
<1> DEFINE r == registry[k]
           s == Installed(r, m)
<1>1. r \in Registry /\ KeycodeOf[m] \in Keycodes /\ m # Null
  BY KernelAssumption DEF IInv, Sound
<1>2. /\ s.getModuleForKeycode = [r.getModuleForKeycode EXCEPT ![KeycodeOf[m]] = m]
      /\ s.activePolicies = r.activePolicies
      /\ s.modulePermissions = r.modulePermissions
  BY <1>1 DEF Installed, Registry
<1>3. registry' = [registry EXCEPT ![k] = s] /\ r.getModuleForKeycode[KeycodeOf[m]] # m
  BY <1>1 DEF InstallModule
<1> QED
  BY <1>2, <1>3, ServeStep

LEMMA UpgradeModuleImplements ==
  ASSUME IInv, NEW k \in Kernels, NEW m \in Modules, UpgradeModule(k, m)
  PROVE  Promise!Serve(k, m)
<1> DEFINE r == registry[k]
           s == Upgraded(r, m)
<1>1. r \in Registry /\ KeycodeOf[m] \in Keycodes
  BY KernelAssumption DEF IInv, Sound
<1>2. /\ s.getModuleForKeycode = [r.getModuleForKeycode EXCEPT ![KeycodeOf[m]] = m]
      /\ s.activePolicies = r.activePolicies
      /\ s.modulePermissions = r.modulePermissions
  BY <1>1 DEF Upgraded, Registry
<1>3. registry' = [registry EXCEPT ![k] = s] /\ r.getModuleForKeycode[KeycodeOf[m]] # m
  BY DEF UpgradeModule
<1> QED
  BY <1>2, <1>3, ServeStep

LEMMA ActivatePolicyImplements ==
  ASSUME IInv, NEW k \in Kernels, NEW p \in Policies, ActivatePolicy(k, p)
  PROVE  Promise!Activate(k, p)
<1> DEFINE r == registry[k]
           s == Activated(r, p)
<1>1. Sound(r) /\ p \notin ActivePolicies(r) /\ registry \in [Kernels -> Registry]
  BY ActiveIsMember DEF IInv, TypeOK, ActivatePolicy
<1>2. Sound(s) /\ ActivePolicies(s) = ActivePolicies(r) \cup {p}
  BY <1>1, ActivatedSound
<1>3. registry' = [registry EXCEPT ![k] = s]
  BY DEF ActivatePolicy
<1>4. s.getModuleForKeycode = r.getModuleForKeycode
  BY <1>1 DEF Sound, Registry, Activated, WithPermissions
<1>5. s.modulePermissions = [r.modulePermissions EXCEPT ![p] = Requests[p]]
  <2>1. \A q \in Policies : s.modulePermissions[q] =
          IF q = p THEN Requests[p] ELSE r.modulePermissions[q]
    BY <1>1, <1>2 DEF Sound, PoliciesSound
  <2>2. /\ s.modulePermissions \in [Policies -> SUBSET (Keycodes \X Selectors)]
        /\ r.modulePermissions \in [Policies -> SUBSET (Keycodes \X Selectors)]
    BY <1>1, <1>2 DEF Sound, Registry
  <2> QED
    BY <2>1, <2>2
<1> HIDE DEF s
<1>6. active = [j \in Kernels |-> ActivePolicies(registry[j])]
  BY ActiveOf
<1>7. active' = [j \in Kernels |-> ActivePolicies(registry'[j])]
  BY ActivatePolicyInv, ActiveOfNext
<1>8. active' = [active EXCEPT ![k] = @ \cup {p}]
  BY <1>1, <1>2, <1>3, <1>6, <1>7
<1>9. serving' = serving
  BY <1>1, <1>3, <1>4 DEF serving
<1>10. granted' = [granted EXCEPT ![k][p] = Requests[p]]
  BY <1>1, <1>3, <1>5 DEF granted
<1>11. p \notin active[k]
  BY <1>1, <1>6
<1> QED
  BY <1>8, <1>9, <1>10, <1>11 DEF Promise!Activate, serving, active, granted

LEMMA DeactivatePolicyImplements ==
  ASSUME IInv, NEW k \in Kernels, NEW p \in Policies, DeactivatePolicy(k, p)
  PROVE  Promise!Deactivate(k, p)
<1> DEFINE r == registry[k]
           s == Deactivated(r, p)
<1>1. Sound(r) /\ p \in ActivePolicies(r) /\ registry \in [Kernels -> Registry]
  BY ActiveIsMember DEF IInv, TypeOK, DeactivatePolicy
<1>2. Sound(s) /\ ActivePolicies(s) = ActivePolicies(r) \ {p}
  BY <1>1, DeactivatedSound
<1>3. registry' = [registry EXCEPT ![k] = s]
  BY DEF DeactivatePolicy
<1>4. s.getModuleForKeycode = r.getModuleForKeycode
  BY <1>1 DEF Sound, Registry, Deactivated, WithPermissions
<1>5. s.modulePermissions = [r.modulePermissions EXCEPT ![p] = {}]
  <2>1. \A q \in Policies : s.modulePermissions[q] =
          IF q = p THEN {} ELSE r.modulePermissions[q]
    BY <1>1, <1>2 DEF Sound, PoliciesSound
  <2>2. /\ s.modulePermissions \in [Policies -> SUBSET (Keycodes \X Selectors)]
        /\ r.modulePermissions \in [Policies -> SUBSET (Keycodes \X Selectors)]
    BY <1>1, <1>2 DEF Sound, Registry
  <2> QED
    BY <2>1, <2>2
<1> HIDE DEF s
<1>6. active = [j \in Kernels |-> ActivePolicies(registry[j])]
  BY ActiveOf
<1>7. active' = [j \in Kernels |-> ActivePolicies(registry'[j])]
  BY DeactivatePolicyInv, ActiveOfNext
<1>8. active' = [active EXCEPT ![k] = @ \ {p}]
  BY <1>1, <1>2, <1>3, <1>6, <1>7
<1>9. serving' = serving
  BY <1>1, <1>3, <1>4 DEF serving
<1>10. granted' = [granted EXCEPT ![k][p] = {}]
  BY <1>1, <1>3, <1>5 DEF granted
<1>11. p \in active[k]
  BY <1>1, <1>6
<1> QED
  BY <1>8, <1>9, <1>10, <1>11 DEF Promise!Deactivate, serving, active, granted

LEMMA InitImplements == Init => Promise!Init
<1> SUFFICES ASSUME Init PROVE Promise!Init
  OBVIOUS
<1>1. \A k \in Kernels : registry[k] = EmptyRegistry
  BY DEF Init
<1>2. /\ EmptyRegistry.getModuleForKeycode = [kc \in Keycodes |-> Null]
      /\ EmptyRegistry.modulePermissions = [p \in Policies |-> {}]
      /\ EmptyRegistry.activePolicies.list = <<>>
  BY DEF EmptyRegistry, EmptyList
<1>3. \A p \in Policies : ~IsPolicyActive(EmptyRegistry, p)
  BY <1>2 DEF IsPolicyActive
<1> QED
  BY <1>1, <1>2, <1>3 DEF Promise!Init

LEMMA NextImplements == IInv /\ [Next]_vars => [Promise!Next]_<<serving, active, granted>>
<1> SUFFICES ASSUME IInv, [Next]_vars
             PROVE  Promise!Next \/ UNCHANGED <<serving, active, granted>>
  OBVIOUS
<1>1. CASE registry' = registry
  BY <1>1 DEF serving, active, granted
<1>2. ASSUME NEW c \in Accounts, NEW k \in Kernels, ExecuteAction(c, k), registry' # registry
      PROVE  Promise!Next
  <2>1. ASSUME NEW m \in Modules, InstallModule(k, m) \/ UpgradeModule(k, m)
        PROVE  Promise!Next
    BY <2>1, InstallModuleImplements, UpgradeModuleImplements DEF Promise!Next
  <2>2. ASSUME NEW p \in Policies, ActivatePolicy(k, p) \/ DeactivatePolicy(k, p)
        PROVE  Promise!Next
    BY <2>2, ActivatePolicyImplements, DeactivatePolicyImplements DEF Promise!Next
  <2>3. \A a \in Accounts : ~ChangeExecutor(k, a)
    BY <1>2 DEF ChangeExecutor
  <2>4. \A new \in Kernels : ~MigrateKernel(k, new)
    BY <1>2 DEF MigrateKernel
  <2> QED
    BY <1>2, <2>1, <2>2, <2>3, <2>4 DEF ExecuteAction
<1>3. ASSUME NEW p \in Policies, Configure(p) PROVE registry' = registry
  BY <1>3 DEF Configure
<1> QED
  BY <1>1, <1>2, <1>3 DEF Next, vars

\* The kernels, arrays, indices, migrations and all, implement PolicyRegistry.
THEOREM Implementation == Spec => RegistryImplemented
<1>1. IInv /\ [Next]_vars =>
        [Promise!Next]_<<[k \in Kernels |-> registry[k].getModuleForKeycode],
                         [k \in Kernels |-> {p \in Policies : IsPolicyActive(registry[k], p)}],
                         [k \in Kernels |-> registry[k].modulePermissions]>>
  BY NextImplements DEF serving, active, granted
<1> QED
  BY <1>1, InitImplements, Invariance, PTL DEF Spec, RegistryImplemented, Promise!Spec

-----------------------------------------------------------------------------
(* Cached module addresses.  A kernel that hands its policies over and gets *)
(* them back finds them with the addresses of the other kernel: that the    *)
(* addresses are current is a theorem about a kernel that is never left.    *)

\* The strengthening of NoStaleModules: what a strict policy needs is there.
Fresh(h) ==
  \A p \in ActivePolicies(registry[h]) : \A kc \in DependsOn[p] :
    LET m == registry[h].getModuleForKeycode[kc]
    IN \/ cached[p][kc] = m /\ m # Null
       \/ p \in Lenient /\ cached[p][kc] \in {m, Null}

LEMMA AllAtHome ==
  ASSUME TypeOK, NEW h, Kernels = {h}, NEW x \in Modules \cup Policies
  PROVE  kernelOf[x] = h
BY DEF TypeOK

LEMMA NoStaleModulesFromFresh ==
  ASSUME IInv, NEW h, Kernels = {h}, Fresh(h)
  PROVE  NoStaleModules
<1>1. ASSUME NEW p \in Policies, NEW kc \in DependsOn[p],
             IsPolicyActive(registry[kernelOf[p]], p)
      PROVE  \/ cached[p][kc] = registry[kernelOf[p]].getModuleForKeycode[kc]
             \/ p \in Lenient /\ cached[p][kc] = Null
  <2>1. kernelOf[p] = h /\ Sound(registry[h])
    BY AllAtHome DEF IInv
  <2>2. p \in ActivePolicies(registry[h])
    BY <1>1, <2>1, ActiveIsMember
  <2> QED
    BY <2>1, <2>2 DEF Fresh
<1> QED
  BY <1>1 DEF NoStaleModules

\* configureDependencies() makes the caches of the policies ps current with
\* the registry reg of their kernel h, and leaves the others alone.
LEMMA ConfiguredAt ==
  ASSUME TypeOK, NEW h, Kernels = {h}, NEW reg, NEW ps,
         \A p \in ps : CanConfigure(reg[kernelOf[p]], p),
         NEW p \in Policies, NEW kc \in DependsOn[p]
  PROVE  /\ p \notin ps => Configured(reg, ps)[p][kc] = cached[p][kc]
         /\ p \in ps =>
              /\ Configured(reg, ps)[p][kc] = reg[h].getModuleForKeycode[kc]
              /\ p \in Lenient \/ reg[h].getModuleForKeycode[kc] # Null
<1>1. kernelOf[p] = h /\ kc \in Keycodes
  BY AllAtHome, KernelAssumption
<1> QED
  BY <1>1 DEF Configured, CanConfigure

\* A call that leaves the modules alone, configures the policies ps and adds
\* none but policies of ps to the active ones keeps the caches current.
LEMMA SameModulesFresh ==
  ASSUME IInv, NEW h, Kernels = {h}, Fresh(h), NEW ps,
         registry' \in [Kernels -> Registry],
         registry'[h].getModuleForKeycode = registry[h].getModuleForKeycode,
         ActivePolicies(registry'[h]) \subseteq ActivePolicies(registry[h]) \cup ps,
         ActivePolicies(registry'[h]) \subseteq Policies,
         ConfigureDependencies(registry, ps)
  PROVE  Fresh(h)'
<1>1. ASSUME NEW p \in ActivePolicies(registry'[h]), NEW kc \in DependsOn[p]
      PROVE  LET m == registry'[h].getModuleForKeycode[kc]
             IN \/ cached'[p][kc] = m /\ m # Null
                \/ p \in Lenient /\ cached'[p][kc] \in {m, Null}
  <2>1. /\ p \notin ps => cached'[p][kc] = cached[p][kc]
        /\ p \in ps =>
             /\ cached'[p][kc] = registry[h].getModuleForKeycode[kc]
             /\ p \in Lenient \/ registry[h].getModuleForKeycode[kc] # Null
    <3>1. TypeOK /\ p \in Policies /\ cached' = Configured(registry, ps)
      BY <1>1 DEF IInv, ConfigureDependencies
    <3>2. \A q \in ps : CanConfigure(registry[kernelOf[q]], q)
      BY DEF ConfigureDependencies
    <3> QED
      BY <3>1, <3>2, ConfiguredAt
  <2>2. CASE p \in ps
    BY <2>1, <2>2
  <2>3. CASE p \notin ps
    BY <2>1, <2>3 DEF Fresh
  <2> QED
    BY <2>2, <2>3
<1> QED
  BY <1>1 DEF Fresh

LEMMA InstallModuleFresh ==
  ASSUME IInv, NEW h, Kernels = {h}, Fresh(h), NEW m \in Modules, InstallModule(h, m)
  PROVE  Fresh(h)'
<1> DEFINE r == registry[h]
<1>1. r \in Registry /\ registry \in [Kernels -> Registry]
  BY DEF IInv, TypeOK
<1>2. registry'[h] = Installed(r, m)
  BY <1>1 DEF InstallModule
<1>3. /\ registry'[h].activePolicies = r.activePolicies
      /\ \A kc \in Keycodes : registry'[h].getModuleForKeycode[kc] =
           IF kc = KeycodeOf[m] THEN m ELSE r.getModuleForKeycode[kc]
  BY <1>1, <1>2, KernelAssumption DEF Installed, Registry
<1>4. ASSUME NEW p \in ActivePolicies(r), NEW kc \in DependsOn[p]
      PROVE  \/ /\ cached'[p][kc] = registry'[h].getModuleForKeycode[kc]
                /\ registry'[h].getModuleForKeycode[kc] # Null
             \/ p \in Lenient /\ cached'[p][kc] \in {registry'[h].getModuleForKeycode[kc], Null}
  <2>1. cached'[p][kc] = cached[p][kc] /\ r.getModuleForKeycode[KeycodeOf[m]] = Null
    BY DEF InstallModule
  <2>2. p \in Policies
    <3>1. r.activePolicies.list \in Seq(Policies)
      BY <1>1 DEF Registry, IndexedList
    <3> QED
      BY <3>1 DEF ActivePolicies, Range
  <2>3. kc \in Keycodes
    BY <2>2, KernelAssumption
  <2> QED
    BY <1>3, <2>1, <2>3 DEF Fresh
<1> QED
  BY <1>3, <1>4 DEF Fresh, ActivePolicies

\* The dependents of the upgraded module are all configured again.
LEMMA UpgradeModuleFresh ==
  ASSUME IInv, NEW h, Kernels = {h}, Fresh(h), NEW m \in Modules, UpgradeModule(h, m)
  PROVE  Fresh(h)'
<1> DEFINE r == registry[h]
           ps == Dependents(r, KeycodeOf[m])
<1>1. Sound(r) /\ r \in Registry /\ registry \in [Kernels -> Registry] /\ KeycodeOf[m] \in Keycodes
  BY KernelAssumption DEF IInv, TypeOK
<1>2. registry'[h] = Upgraded(r, m)
  BY <1>1 DEF UpgradeModule
<1>3. /\ registry'[h].activePolicies = r.activePolicies
      /\ \A kc \in Keycodes : registry'[h].getModuleForKeycode[kc] =
           IF kc = KeycodeOf[m] THEN m ELSE r.getModuleForKeycode[kc]
  BY <1>1, <1>2 DEF Upgraded, Registry
<1>4. ps = {p \in ActivePolicies(r) : KeycodeOf[m] \in DependsOn[p]}
  BY <1>1 DEF Sound, PoliciesSound
<1>5. ASSUME NEW p \in ActivePolicies(r), NEW kc \in DependsOn[p]
      PROVE  \/ /\ cached'[p][kc] = registry'[h].getModuleForKeycode[kc]
                /\ registry'[h].getModuleForKeycode[kc] # Null
             \/ p \in Lenient /\ cached'[p][kc] \in {registry'[h].getModuleForKeycode[kc], Null}
  <2>1. p \in Policies /\ kc \in Keycodes
    <3>1. r.activePolicies.list \in Seq(Policies)
      BY <1>1 DEF Registry, IndexedList
    <3>2. p \in Policies
      BY <3>1 DEF ActivePolicies, Range
    <3> QED
      BY <3>2, KernelAssumption
  <2>2. /\ cached' = Configured(registry', ps)
        /\ \A q \in ps : CanConfigure(registry'[kernelOf[q]], q)
    BY DEF UpgradeModule, ConfigureDependencies
  <2>3. /\ p \notin ps => cached'[p][kc] = cached[p][kc]
        /\ p \in ps =>
             /\ cached'[p][kc] = registry'[h].getModuleForKeycode[kc]
             /\ p \in Lenient \/ registry'[h].getModuleForKeycode[kc] # Null
    <3>1. kernelOf[p] = h
      BY <2>1, AllAtHome DEF IInv
    <3> HIDE DEF ps
    <3> QED
      BY <2>1, <2>2, <3>1 DEF Configured, CanConfigure
  <2>4. CASE p \in ps
    BY <2>3, <2>4
  <2>5. CASE p \notin ps
    <3>1. kc # KeycodeOf[m]
      BY <1>4, <2>5
    <3>2. registry'[h].getModuleForKeycode[kc] = r.getModuleForKeycode[kc]
      BY <1>3, <2>1, <3>1
    <3> QED
      BY <2>3, <2>5, <3>2 DEF Fresh
  <2> QED
    BY <2>4, <2>5
<1> QED
  BY <1>3, <1>5 DEF Fresh, ActivePolicies

LEMMA PolicyStepFresh ==
  ASSUME IInv, NEW h, Kernels = {h}, Fresh(h), NEW p \in Policies,
         ActivatePolicy(h, p) \/ DeactivatePolicy(h, p) \/ Configure(p)
  PROVE  Fresh(h)'
<1> DEFINE r == registry[h]
<1>1. Sound(r) /\ r \in Registry /\ registry \in [Kernels -> Registry]
  BY DEF IInv, TypeOK
<1>2. ActivePolicies(r) \subseteq Policies
  <2>1. r.activePolicies.list \in Seq(Policies)
    BY <1>1 DEF Registry, IndexedList
  <2> QED
    BY <2>1 DEF ActivePolicies, Range
<1>3. ConfigureDependencies(registry, {p})
  BY DEF ActivatePolicy, DeactivatePolicy, Configure
<1>4. CASE ActivatePolicy(h, p)
  <2>1. p \notin ActivePolicies(r) /\ registry'[h] = Activated(r, p)
    BY <1>1, <1>4, ActiveIsMember DEF ActivatePolicy
  <2>2. ActivePolicies(registry'[h]) = ActivePolicies(r) \cup {p}
    BY <1>1, <2>1, ActivatedSound
  <2>3. registry'[h].getModuleForKeycode = r.getModuleForKeycode
    BY <1>1, <2>1 DEF Activated, WithPermissions, Registry
  <2>4. registry' \in [Kernels -> Registry]
    BY <1>4, ActivatePolicyInv DEF IInv, TypeOK
  <2> QED
    BY <1>2, <1>3, <2>2, <2>3, <2>4, SameModulesFresh
<1>5. CASE DeactivatePolicy(h, p)
  <2>1. p \in ActivePolicies(r) /\ registry'[h] = Deactivated(r, p)
    BY <1>1, <1>5, ActiveIsMember DEF DeactivatePolicy
  <2>2. ActivePolicies(registry'[h]) = ActivePolicies(r) \ {p}
    BY <1>1, <2>1, DeactivatedSound
  <2>3. registry'[h].getModuleForKeycode = r.getModuleForKeycode
    BY <1>1, <2>1 DEF Deactivated, WithPermissions, Registry
  <2>4. registry' \in [Kernels -> Registry]
    BY <1>5, DeactivatePolicyInv DEF IInv, TypeOK
  <2> QED
    BY <1>2, <1>3, <2>2, <2>3, <2>4, SameModulesFresh
<1>6. CASE Configure(p)
  <2>1. registry' = registry
    BY <1>6 DEF Configure
  <2> QED
    BY <1>1, <1>2, <1>3, <2>1, SameModulesFresh
<1> QED
  BY <1>4, <1>5, <1>6

LEMMA FreshInit == ASSUME NEW h, Kernels = {h}, Init PROVE Fresh(h)
<1>1. registry[h].activePolicies.list = <<>>
  BY DEF Init, EmptyRegistry, EmptyList
<1>2. ActivePolicies(registry[h]) = {}
  BY <1>1 DEF ActivePolicies, Range
<1> QED
  BY <1>2 DEF Fresh

LEMMA FreshNext ==
  ASSUME NEW h, Kernels = {h}, IInv, Fresh(h), [Next]_vars
  PROVE  Fresh(h)'
<1>1. CASE registry' = registry /\ cached' = cached
  BY <1>1 DEF Fresh
<1>2. ASSUME NEW c \in Accounts, ExecuteAction(c, h),
             ~(registry' = registry /\ cached' = cached)
      PROVE  Fresh(h)'
  <2>1. \A a \in Accounts : ~ChangeExecutor(h, a)
    BY <1>2 DEF ChangeExecutor
  <2>2. \A new \in Kernels : ~MigrateKernel(h, new)
    BY <1>2 DEF MigrateKernel
  <2> QED
    BY <1>2, <2>1, <2>2, InstallModuleFresh, UpgradeModuleFresh, PolicyStepFresh
    DEF ExecuteAction
<1>3. ASSUME NEW p \in Policies, Configure(p) PROVE Fresh(h)'
  BY <1>3, PolicyStepFresh
<1> QED
  BY <1>1, <1>2, <1>3 DEF Next, vars

\* With one kernel an active policy always uses the installed modules, except
\* that a lenient one may have no address for a module installed after it.
THEOREM ModulesAreCurrent ==
  ASSUME NEW h, Kernels = {h}
  PROVE  Spec => []NoStaleModules
<1>1. Init => Fresh(h)
  BY FreshInit
<1>2. IInv /\ Fresh(h) /\ [Next]_vars => Fresh(h)'
  BY FreshNext
<1>3. IInv /\ Fresh(h) => NoStaleModules
  BY NoStaleModulesFromFresh
<1> QED
  BY <1>1, <1>2, <1>3, Invariance, PTL DEF Spec
=============================================================================
