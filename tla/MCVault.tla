-------------------------------- MODULE MCVault --------------------------------
\* Instances of the Vault for TLC: see the .cfg files for what each explores.
EXTENDS Vault

CONSTANTS p1, weth, dai, alice, bob, relayer, manager, eth, noManager

General == [p \in Pools |-> "GENERAL"]
TwoToken == [p \in Pools |-> "TWO_TOKEN"]

\* For the batches: at most one unit in, or at least one out.
BatchLimits == {-1, 1}
NoLimits == {}

PoolEntryPoints == {"registerPool", "registerTokens", "deregisterTokens",
                    "joinPool", "exitPool", "managePoolBalance",
                    "manageUserBalance", "setPaused"}
SwapEntryPoints == {"registerPool", "registerTokens", "joinPool", "exitPool", "swap",
                    "batchSwap", "manageUserBalance", "forceEth"}
LoanEntryPoints == {"manageUserBalance", "forceEth", "flashLoan", "donate",
                    "withdrawCollectedFees", "setFlashLoanFeePercentage",
                    "setFlashLoanFeeDiscount"}
RelayerEntryPoints == {"registerPool", "registerTokens", "joinPool", "exitPool",
                       "distribute", "manageUserBalance", "setRelayerApproval",
                       "authorizer", "sign"}
=============================================================================
