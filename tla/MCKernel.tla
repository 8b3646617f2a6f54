------------------------------ MODULE MCKernel ------------------------------
(***************************************************************************)
(* Instances of Kernel for TLC: the policies are RolesAdmin, Chest and the *)
(* audited DLPVault with the dependencies and permissions of their source; *)
(* the modules are versions of ROLES and TRSRY.                            *)
(***************************************************************************)
EXTENDS Kernel

CONSTANTS
  ROLES, TRSRY,                       \* keycodes
  saveRole, removeRole, withdraw,     \* selectors
  rolesAdmin, chest, vault,           \* policies
  roles1, roles2, trsry1, trsry2,     \* modules
  k1, k2,                             \* kernels
  deployer, multisig                  \* executors

\* src/src/policies/RolesAdmin.sol:37-50, Chest.sol:14-25, DLPVault_Audit.sol:219-236
PolicyDependencies ==
  [p \in Policies |-> IF p = rolesAdmin THEN {ROLES} ELSE {ROLES, TRSRY}]

PolicyRequests ==
  [p \in Policies |->
     CASE p = rolesAdmin -> {<<ROLES, saveRole>>, <<ROLES, removeRole>>}
       [] p = chest -> {<<TRSRY, withdraw>>}
       [] OTHER -> {}]

ModuleKeycodes == [m \in Modules |-> IF m \in {trsry1, trsry2} THEN TRSRY ELSE ROLES]

OneHome == [x \in Modules \cup Policies |-> k1]

\* roles2 belongs to the second kernel: the protocol can be set up there.
TwoHomes == [x \in Modules \cup Policies |-> IF x = roles2 THEN k2 ELSE k1]
=============================================================================
