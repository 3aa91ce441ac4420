SPECIFICATION Spec
CONSTANTS
  p1 = p1
  weth = weth
  dai = dai
  alice = alice
  bob = bob
  relayer = relayer
  manager = manager
  eth = eth
  noManager = noManager
  Pools = {p1}
  Specialization <- General
  Tokens = {weth}
  WETH = weth
  ETH = eth
  Users = {alice}
  Relayers = {}
  Managers = {}
  NoManager = noManager
  PauseWindowEnd = 0
  BufferPeriodEnd = 0
  FeeDenominator = 2
  MaxFlashLoanFee = 1
  InitialTokens = 3
  InitialEth = 1
  TotalCap = 5
  EntryPoints <- LoanEntryPoints
  Amounts = {0, 1}
  Limits = {1}
  DeltaLimits <- NoLimits
  InputAssets = {weth, eth}
  MsgValues = {0, 1}
  InternalFlags = {FALSE}
  MaxSteps = 2
  MaxBlock = 0
INVARIANTS
  Backed
PROPERTIES
  LoansRepaidWithFee
