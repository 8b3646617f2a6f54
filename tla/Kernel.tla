------------------------------- MODULE Kernel -------------------------------
(***************************************************************************)
(* The Kernel (src/src/Kernel.sol): the registry of the protocol's modules *)
(* and policies.  Its executor installs and upgrades modules, activates    *)
(* and deactivates policies and migrates everything to another kernel.     *)
(* Modules ask their kernel which policy may call which of their           *)
(* functions; policies ask theirs for the modules' addresses and keep the  *)
(* answers until the next configureDependencies().                         *)
(*                                                                         *)
(* One action is one transaction; a transaction that reverts is an action  *)
(* whose guard fails.  Keycodes, selectors and contracts are model values; *)
(* what a policy answers to configureDependencies() and                    *)
(* requestPermissions() is a constant, as it is in every policy of         *)
(* src/src/policies.                                                       *)
(***************************************************************************)
EXTENDS Naturals, Sequences, Functions

CONSTANTS
  Kernels,    \* the kernels deployed
  Accounts,   \* accounts that call, or are made executor
  Keycodes,   \* valid keycodes (ensureValidKeycode)
  Modules,    \* deployed module contracts
  Policies,   \* deployed policy contracts
  Selectors,  \* selectors of permissioned module functions
  KeycodeOf,  \* the KEYCODE() of a module
  DependsOn,  \* the keycodes a policy's configureDependencies() returns
  Requests,   \* the permissions a policy's requestPermissions() returns
  Lenient,    \* policies that do not check the addresses they look up
  HomeOf,     \* the kernel a module or policy is constructed with
  Deployer,   \* the account that deploys the kernels
  Null        \* address(0), or the empty keycode

ASSUME KernelAssumption ==
  /\ KeycodeOf \in [Modules -> Keycodes]
  /\ DependsOn \in [Policies -> SUBSET Keycodes]
  /\ Requests \in [Policies -> SUBSET (Keycodes \X Selectors)]
  /\ Lenient \subseteq Policies
  /\ HomeOf \in [Modules \cup Policies -> Kernels]
  /\ Deployer \in Accounts
  /\ Modules \cap Policies = {}
  /\ Null \notin Modules \cup Keycodes

VARIABLES
  executor,   \* [kernel]: the account that may call executeAction
  registry,   \* [kernel]: the rest of the kernel's storage, a Registry
  kernelOf,   \* [module or policy]: KernelAdapter.kernel
  cached      \* [policy][keycode]: the module address the policy keeps

vars == <<executor, registry, kernelOf, cached>>

-----------------------------------------------------------------------------
(* An array of policies with a mapping from a policy to its position: the  *)
(* pairs activePolicies, getPolicyIndex and moduleDependents[keycode],     *)
(* getDependentIndex[keycode].  Positions count from 0.                    *)

IndexedList == [list : Seq(Policies), index : [Policies -> Nat]]

EmptyList == [list |-> <<>>, index |-> [p \in Policies |-> 0]]

\* Mutated form of Push: the position is read before the array has grown.
PushEarly(l, p) ==
  [list |-> Append(l.list, p), index |-> [l.index EXCEPT ![p] = Len(l.list) - 1]]

Push(l, p) ==
  [list |-> Append(l.list, p), index |-> [l.index EXCEPT ![p] = Len(l.list)]]

\* Mutated form of SwapAndPop: the policy that fills the gap keeps its index.
PopUnindexed(l, p) ==
  [list  |-> [i \in 1 .. (Len(l.list) - 1) |->
                IF i = l.index[p] + 1 THEN l.list[Len(l.list)] ELSE l.list[i]],
   index |-> [l.index EXCEPT ![p] = 0]]

\* The last policy fills the gap and takes over the index of the one removed.
SwapAndPop(l, p) ==
  LET last == l.list[Len(l.list)]
  IN [list  |-> [i \in 1 .. (Len(l.list) - 1) |->
                   IF i = l.index[p] + 1 THEN last ELSE l.list[i]],
      index |-> [[l.index EXCEPT ![last] = l.index[p]] EXCEPT ![p] = 0]]

-----------------------------------------------------------------------------
(* The storage of a kernel.                                                *)

Registry ==
  [allKeycodes         : Seq(Keycodes),
   getModuleForKeycode : [Keycodes -> Modules \cup {Null}],
   getKeycodeForModule : [Modules -> Keycodes \cup {Null}],
   moduleDependents    : [Keycodes -> IndexedList],
   modulePermissions   : [Policies -> SUBSET (Keycodes \X Selectors)],
   activePolicies      : IndexedList]

EmptyRegistry ==
  [allKeycodes         |-> <<>>,
   getModuleForKeycode |-> [kc \in Keycodes |-> Null],
   getKeycodeForModule |-> [m \in Modules |-> Null],
   moduleDependents    |-> [kc \in Keycodes |-> EmptyList],
   modulePermissions   |-> [p \in Policies |-> {}],
   activePolicies      |-> EmptyList]

\* Mutated form of IsPolicyActive: any index short of the length will do.
IsPolicyIndexed(r, p) == r.activePolicies.index[p] < Len(r.activePolicies.list)

IsPolicyActive(r, p) ==
  /\ Len(r.activePolicies.list) > 0
  /\ r.activePolicies.list[r.activePolicies.index[p] + 1] = p

ActivePolicies(r) == Range(r.activePolicies.list)
Dependents(r, kc) == Range(r.moduleDependents[kc].list)
InstalledModules(r) == {r.getModuleForKeycode[kc] : kc \in Range(r.allKeycodes)}

Init ==
  /\ executor = [k \in Kernels |-> Deployer]
  /\ registry = [k \in Kernels |-> EmptyRegistry]
  /\ kernelOf = HomeOf
  /\ cached = [p \in Policies |-> [kc \in Keycodes |-> Null]]

-----------------------------------------------------------------------------
(* What a policy does when a kernel, or anybody else, calls it.            *)

\* getModuleAddress reverts on a module that the policy's own kernel, in
\* state r, does not have; lenient policies store the zero address.
CanConfigure(r, p) ==
  p \in Lenient \/ \A kc \in DependsOn[p] : r.getModuleForKeycode[kc] # Null

\* The addresses each of the policies ps keeps after configureDependencies().
Configured(reg, ps) ==
  [p \in Policies |->
     [kc \in Keycodes |->
        IF p \in ps /\ kc \in DependsOn[p]
        THEN reg[kernelOf[p]].getModuleForKeycode[kc]
        ELSE cached[p][kc]]]

\* configureDependencies() of all the policies ps, with registries reg.
ConfigureDependencies(reg, ps) ==
  /\ \A p \in ps : CanConfigure(reg[kernelOf[p]], p)
  /\ cached' = Configured(reg, ps)

-----------------------------------------------------------------------------
(* The kernel's functions on its own storage r.                            *)

\* Mutated form of WithPermissions: permissions are never taken back.
OnlyGranted(r, p, grant) ==
  [r EXCEPT !.modulePermissions[p] = @ \cup Requests[p]]

WithPermissions(r, p, grant) ==
  [r EXCEPT !.modulePermissions[p] = IF grant THEN @ \cup Requests[p] ELSE @ \ Requests[p]]

Installed(r, m) ==
  [r EXCEPT !.getModuleForKeycode[KeycodeOf[m]] = m,
            !.getKeycodeForModule[m] = KeycodeOf[m],
            !.allKeycodes = Append(@, KeycodeOf[m])]

\* Mutated form of Upgraded: the old module keeps its keycode.
UpgradedOver(r, m) ==
  [r EXCEPT !.getModuleForKeycode[KeycodeOf[m]] = m,
            !.getKeycodeForModule[m] = KeycodeOf[m]]

Upgraded(r, m) ==
  LET kc == KeycodeOf[m]
      old == r.getModuleForKeycode[kc]
  IN [r EXCEPT !.getModuleForKeycode[kc] = m,
               !.getKeycodeForModule = [[@ EXCEPT ![old] = Null] EXCEPT ![m] = kc]]

Activated(r, p) ==
  WithPermissions(
    [r EXCEPT !.activePolicies = Push(@, p),
              !.moduleDependents = [kc \in Keycodes |->
                 IF kc \in DependsOn[p] THEN Push(@[kc], p) ELSE @[kc]]],
    p, TRUE)

\* Mutated form of Deactivated: the policy stays among its modules' dependents.
DeactivatedUnpruned(r, p) ==
  [WithPermissions(r, p, FALSE) EXCEPT !.activePolicies = SwapAndPop(@, p)]

Deactivated(r, p) ==
  [WithPermissions(r, p, FALSE) EXCEPT
     !.activePolicies = SwapAndPop(@, p),
     !.moduleDependents = [kc \in Keycodes |->
        IF kc \in DependsOn[p] THEN SwapAndPop(@[kc], p) ELSE @[kc]]]

-----------------------------------------------------------------------------
(* executeAction.  INIT() is onlyKernel: it reverts unless the module's    *)
(* kernel is the caller.  A policy's kernel is not asked for.              *)

InstallModule(k, m) ==
  /\ registry[k].getModuleForKeycode[KeycodeOf[m]] = Null
  /\ kernelOf[m] = k
  /\ registry' = [registry EXCEPT ![k] = Installed(@, m)]
  /\ UNCHANGED <<executor, kernelOf, cached>>

\* Mutated form of UpgradeModule: the dependents keep the old address.
UpgradeAlone(k, m) ==
  /\ registry[k].getModuleForKeycode[KeycodeOf[m]] \notin {Null, m}
  /\ kernelOf[m] = k
  /\ registry' = [registry EXCEPT ![k] = Upgraded(@, m)]
  /\ UNCHANGED <<executor, kernelOf, cached>>

UpgradeModule(k, m) ==
  /\ registry[k].getModuleForKeycode[KeycodeOf[m]] \notin {Null, m}
  /\ kernelOf[m] = k
  /\ registry' = [registry EXCEPT ![k] = Upgraded(@, m)]
  /\ ConfigureDependencies(registry', Dependents(registry[k], KeycodeOf[m]))
  /\ UNCHANGED <<executor, kernelOf>>

ActivatePolicy(k, p) ==
  /\ ~IsPolicyActive(registry[k], p)
  /\ registry' = [registry EXCEPT ![k] = Activated(@, p)]
  /\ ConfigureDependencies(registry, {p})
  /\ UNCHANGED <<executor, kernelOf>>

DeactivatePolicy(k, p) ==
  /\ IsPolicyActive(registry[k], p)
  /\ registry' = [registry EXCEPT ![k] = Deactivated(@, p)]
  /\ ConfigureDependencies(registry, {p})
  /\ UNCHANGED <<executor, kernelOf>>

ChangeExecutor(k, a) ==
  /\ executor' = [executor EXCEPT ![k] = a]
  /\ UNCHANGED <<registry, kernelOf, cached>>

\* changeKernel() is onlyKernel: one module or policy that belongs to another
\* kernel makes the whole migration revert.
MigrateKernel(k, new) ==
  LET moved == InstalledModules(registry[k]) \cup ActivePolicies(registry[k])
  IN /\ \A x \in moved : kernelOf[x] = k
     /\ kernelOf' = [x \in Modules \cup Policies |->
                       IF x \in moved THEN new ELSE kernelOf[x]]
     /\ UNCHANGED <<executor, registry, cached>>

ExecuteAction(caller, k) ==
  /\ caller = executor[k]
  /\ \/ \E m \in Modules : InstallModule(k, m) \/ UpgradeModule(k, m)
     \/ \E p \in Policies : ActivatePolicy(k, p) \/ DeactivatePolicy(k, p)
     \/ \E a \in Accounts : ChangeExecutor(k, a)
     \/ \E new \in Kernels : MigrateKernel(k, new)

\* configureDependencies() is external and unguarded: anybody may call it.
Configure(p) ==
  /\ ConfigureDependencies(registry, {p})
  /\ UNCHANGED <<executor, registry, kernelOf>>

Next ==
  \/ \E caller \in Accounts, k \in Kernels : ExecuteAction(caller, k)
  \/ \E p \in Policies : Configure(p)

Spec == Init /\ [][Next]_vars

-----------------------------------------------------------------------------
(* Properties.                                                             *)

\* Type correctness of the kernels' storage, the adapters and the caches.
TypeOK ==
  /\ executor \in [Kernels -> Accounts]
  /\ registry \in [Kernels -> Registry]
  /\ kernelOf \in [Modules \cup Policies -> Kernels]
  /\ cached \in [Policies -> [Keycodes -> Modules \cup {Null}]]

\* Every policy in a list is found where its index says, and the index of
\* every other policy is 0, as if it had never been there.
IsIndexed(l) ==
  /\ \A i \in 1 .. Len(l.list) : l.index[l.list[i]] = i - 1
  /\ \A p \in Policies \ Range(l.list) : l.index[p] = 0

\* The indices kept to avoid loops agree with the arrays: of a registry's
\* active policies, and of each module's dependents (Kernel.sol:198-213).
IndicesMatch ==
  \A k \in Kernels :
    /\ IsIndexed(registry[k].activePolicies)
    /\ \A kc \in Keycodes : IsIndexed(registry[k].moduleDependents[kc])

\* The dependents of a module, whom an upgrade reconfigures, are exactly the
\* active policies that depend on it, whatever was deactivated in between.
DependentsMatch ==
  \A k \in Kernels : \A kc \in Keycodes :
    Dependents(registry[k], kc) =
      {p \in ActivePolicies(registry[k]) : kc \in DependsOn[p]}

\* Swap-and-pop over several arrays keeps arrays and indices together.
RegistryConsistent == IndicesMatch /\ DependentsMatch

\* A policy may call what it requested in the kernels where it is active, and
\* nothing elsewhere: no permission outlives a deactivation, and none is lost
\* to the activation, deactivation or migration of another policy.
PermissionsFollowActivation ==
  \A k \in Kernels : \A p \in Policies :
    registry[k].modulePermissions[p] =
      IF IsPolicyActive(registry[k], p) THEN Requests[p] ELSE {}

\* The two directions of the module registry agree, through upgrades back and
\* forth, and allKeycodes lists each installed keycode once: MigrateKernel
\* calls changeKernel for every entry, which reverts the second time.
ModulesMatchKeycodes ==
  \A k \in Kernels :
    LET r == registry[k]
    IN /\ \A m \in Modules, kc \in Keycodes :
            (r.getKeycodeForModule[m] = kc) <=> (r.getModuleForKeycode[kc] = m)
       /\ \A kc \in Keycodes :
            (kc \in Range(r.allKeycodes)) <=> (r.getModuleForKeycode[kc] # Null)
       /\ IsInjective(r.allKeycodes)

\* An active policy uses the modules that are installed now, not those that
\* were when it was activated; a lenient one that was activated before its
\* module has no address at all until somebody reconfigures it.
NoStaleModules ==
  \A p \in Policies : \A kc \in DependsOn[p] :
    IsPolicyActive(registry[kernelOf[p]], p) =>
      \/ cached[p][kc] = registry[kernelOf[p]].getModuleForKeycode[kc]
      \/ p \in Lenient /\ cached[p][kc] = Null

\* "Deactivate before changing kernel" (Kernel.sol:358): a policy that moves
\* to another kernel is not left active in the one it leaves.
MigratedPoliciesAreInactive ==
  [][\A p \in Policies :
       kernelOf'[p] # kernelOf[p] => ~IsPolicyActive(registry'[kernelOf[p]], p)]_vars

-----------------------------------------------------------------------------
(* What the kernels promise: see PolicyRegistry.                           *)

Promise == INSTANCE PolicyRegistry WITH
  serving <- [k \in Kernels |-> registry[k].getModuleForKeycode],
  active  <- [k \in Kernels |-> {p \in Policies : IsPolicyActive(registry[k], p)}],
  granted <- [k \in Kernels |-> registry[k].modulePermissions]

\* The kernels implement PolicyRegistry: swap-and-pop never loses or revives
\* another policy, permissions come and go with activations alone, and no
\* call on one kernel, migration included, touches the registry of another.
RegistryImplemented == Promise!Spec
=============================================================================
