SPECIFICATION Spec
CONSTANTS
  admin = admin
  alice = alice
  zero = zero
  vault = vault
  setAuthorizer = setAuthorizer
  Accounts = {admin, alice}
  Admin = admin
  NoAccount = zero
  Targets = {vault}
  Self = authorizer
  Executor = executor
  EVERYWHERE = everywhere
  Actions = {setAuthorizer}
  SetAuthorizer = setAuthorizer
  GENERAL = general
  MIN_DELAY = 1
  MAX_DELAY = 1
  RootTransferDelay = 1
  EntryPoints <- PowerEntryPoints
  NamedActions <- OnlySetAuthorizer
  DelayedActions <- WithPowers
  NamedWheres = {vault}
  Delays = {1}
  ExecutorSets = {{}}
  MaxScheduled = 3
  MaxTime = 2
PROPERTIES
  GrantsWait
  RevocationsWait
