SPECIFICATION Spec
CONSTANTS
  admin = admin
  alice = alice
  zero = zero
  vault = vault
  setAuthorizer = setAuthorizer
  Accounts = {admin}
  Admin = admin
  NoAccount = zero
  Targets = {vault}
  Self = authorizer
  Executor = executor
  EVERYWHERE = everywhere
  Actions = {setAuthorizer}
  SetAuthorizer = setAuthorizer
  GENERAL = general
  MIN_DELAY = 1
  MAX_DELAY = 2
  RootTransferDelay = 1
  EntryPoints <- DelayEntryPoints
  NamedActions <- OnlySetAuthorizer
  DelayedActions <- OnlySetAuthorizer
  NamedWheres = {vault}
  Delays = {0, 1, 2, 3}
  ExecutorSets = {{admin}}
  MaxScheduled = 3
  MaxTime = 3
INVARIANTS
  TypeOK
  RunOrCancelled
  DelaysHold
