CONSTANTS
  ROLES = ROLES
  TRSRY = TRSRY
  saveRole = saveRole
  removeRole = removeRole
  withdraw = withdraw
  rolesAdmin = rolesAdmin
  chest = chest
  vault = vault
  roles1 = roles1
  roles2 = roles2
  trsry1 = trsry1
  trsry2 = trsry2
  k1 = k1
  k2 = k2
  deployer = deployer
  multisig = multisig
  Null = Null
  Deployer = deployer
  KeycodeOf <- ModuleKeycodes
  DependsOn <- PolicyDependencies
  Requests <- PolicyRequests
  Keycodes = {ROLES, TRSRY}
  Selectors = {saveRole, removeRole, withdraw}
  Lenient = {vault}
  Kernels = {k1, k2}
  Accounts = {deployer, multisig}
  Modules = {roles1, roles2}
  Policies = {rolesAdmin, vault}
  HomeOf <- TwoHomes
SPECIFICATION Spec
INVARIANTS RegistryConsistent PermissionsFollowActivation ModulesMatchKeycodes
