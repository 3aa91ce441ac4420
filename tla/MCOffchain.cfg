CONSTANTS
  Tasks = {"20220810-timelock-authorizer", "20220811-test-fee-forwarder", "20220811-vault"}
  NetworkVerified = TRUE
  Earlier <- MCEarlier
  MaxTroubles = 2
  BuildInfos <- MCBuildInfos
  Outputs <- MCOutputs
  Pools = {"Pool"}
  Views = {"getActionId"}
  Ignored = {"disable"}
  MaxRecordChanges = 5
  Symbols <- MCSymbols
  Minings <- MCMinings
  Types = {"WEIGHTED", "MANAGED", "STABLE"}
  Funded = {"lp"}
  BptAddresses = {10, 30}
  MaxChanges = 1
  Signers = {"alice", "bob"}
  Callers = {"relayer", "other"}
  Calls <- MCCalls
  EntryPoint <- MCEntryPoint
  Deadlines = {1, 9}
  MaxSignatures = 2
  MaxTime = 2
  Elements = {1, 2, 3, 5, 6}
  Mark = 4
  MaxElements = 5
  Schedule <- MCSchedule
  SharedHooks = {"vault", "pool", "funds", "other", "lone"}
SPECIFICATION MCSpec
INVARIANTS
  StaleOnlyByLaterDeployment
  CheckedTasksReproduce
  CheckedRecordsCurrent
  AcceptedAsMeant
  EstimatesLineUp
  ProofsVerify
  ActsAsBeforeEach
PROPERTIES
  OnlyLiveRunsRecord
  TasksEverVerified
  SignaturesServeOnce
CHECK_DEADLOCK FALSE
