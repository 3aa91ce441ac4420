SPECIFICATION Spec
CONSTANTS
  p1 = p1
  weth = weth
  dai = dai
  alice = alice
  bob = bob
  relayer = relayer
  manager = manager
  eth = eth
  noManager = noManager
  Pools = {p1}
  Specialization <- General
  Tokens = {weth, dai}
  WETH = weth
  ETH = eth
  Users = {alice}
  Relayers = {}
  Managers = {}
  NoManager = noManager
  PauseWindowEnd = 0
  BufferPeriodEnd = 0
  FeeDenominator = 2
  MaxFlashLoanFee = 0
  InitialTokens = 2
  InitialEth = 1
  TotalCap = 4
  EntryPoints <- SwapEntryPoints
  Amounts = {0, 1}
  Limits = {1}
  DeltaLimits <- BatchLimits
  InputAssets = {weth, dai, eth}
  MsgValues = {0, 1}
  InternalFlags = {FALSE}
  MaxSteps = 2
  MaxBlock = 0
INVARIANTS
  Backed
  EthPassesThrough
PROPERTIES
  LimitsHonoured
