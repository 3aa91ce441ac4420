SPECIFICATION Spec
CONSTANTS
  p1 = p1
  weth = weth
  dai = dai
  alice = alice
  bob = bob
  relayer = relayer
  manager = manager
  eth = eth
  noManager = noManager
  Pools = {p1}
  Specialization <- General
  Tokens = {weth}
  WETH = weth
  ETH = eth
  Users = {alice, bob}
  Relayers = {relayer}
  Managers = {}
  NoManager = noManager
  PauseWindowEnd = 0
  BufferPeriodEnd = 0
  FeeDenominator = 2
  MaxFlashLoanFee = 0
  InitialTokens = 1
  InitialEth = 0
  TotalCap = 3
  EntryPoints <- RelayerEntryPoints
  Amounts = {0, 1}
  Limits = {1}
  DeltaLimits <- NoLimits
  InputAssets = {weth}
  MsgValues = {0}
  InternalFlags = {TRUE}
  MaxSteps = 2
  MaxBlock = 0
PROPERTIES
  SpentByUsersWill
