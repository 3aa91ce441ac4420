SPECIFICATION Spec
CONSTANTS
  admin = admin
  alice = alice
  zero = zero
  vault = vault
  setAuthorizer = setAuthorizer
  Accounts = {admin}
  Admin = admin
  NoAccount = zero
  Targets = {vault}
  Self = authorizer
  Executor = executor
  EVERYWHERE = everywhere
  Actions = {setAuthorizer}
  SetAuthorizer = setAuthorizer
  GENERAL = general
  MIN_DELAY = 1
  MAX_DELAY = 3
  RootTransferDelay = 1
  EntryPoints <- DelayEntryPoints
  NamedActions <- OnlySetAuthorizer
  DelayedActions <- OnlySetAuthorizer
  NamedWheres = {vault}
  Delays = {1, 3}
  ExecutorSets = {{}}
  MaxScheduled = 4
  MaxTime = 4
INVARIANT NeverSooner
