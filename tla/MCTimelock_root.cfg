SPECIFICATION Spec
CONSTANTS
  admin = admin
  alice = alice
  zero = zero
  vault = vault
  setAuthorizer = setAuthorizer
  Accounts = {admin, alice}
  Admin = admin
  NoAccount = zero
  Targets = {vault}
  Self = authorizer
  Executor = executor
  EVERYWHERE = everywhere
  Actions = {setAuthorizer}
  SetAuthorizer = setAuthorizer
  GENERAL = general
  MIN_DELAY = 1
  MAX_DELAY = 2
  RootTransferDelay = 2
  EntryPoints <- RootEntryPoints
  NamedActions <- OnlySelfCalls
  DelayedActions <- WithSelfCalls
  NamedWheres = {authorizer}
  Delays = {0, 1}
  ExecutorSets = {{alice}}
  MaxScheduled = 3
  MaxTime = 2
INVARIANTS
  RootChangesWait
PROPERTIES
  DelaysChangeByRoot
