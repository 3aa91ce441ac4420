SPECIFICATION FairSpec
CONSTANTS
  p1 = p1
  weth = weth
  dai = dai
  alice = alice
  bob = bob
  relayer = relayer
  manager = manager
  eth = eth
  noManager = noManager
  Pools = {p1}
  Specialization <- TwoToken
  Tokens = {weth, dai}
  WETH = weth
  ETH = eth
  Users = {alice}
  Relayers = {}
  Managers = {manager}
  NoManager = noManager
  PauseWindowEnd = 1
  BufferPeriodEnd = 2
  FeeDenominator = 2
  MaxFlashLoanFee = 0
  InitialTokens = 2
  InitialEth = 0
  TotalCap = 3
  EntryPoints <- PoolEntryPoints
  Amounts = {0, 1}
  Limits = {1}
  DeltaLimits <- NoLimits
  InputAssets = {weth, dai}
  MsgValues = {0}
  InternalFlags = {FALSE}
  MaxSteps = 2
  MaxBlock = 3
INVARIANTS
  TypeOK
  Backed
  CachedBalancesCurrent
  RegistryConsistent
PROPERTIES
  TotalChangesStampBlock
  ManagersMoveQuietly
  PausedOnlyPaysOut
  PausesExpire
