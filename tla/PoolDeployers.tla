----------------------------- MODULE PoolDeployers -----------------------------
(***************************************************************************)
(* How Pools, and the Vaults they are on, are created for their models:    *)
(* which of the parameters, defaults included, reach the contract, and the *)
(* order of its tokens.                                                    *)
(***************************************************************************)
EXTENDS TokenLists

WeightedPoolTypes == {"WEIGHTED", "BOOTSTRAPPING", "MANAGED", "RELAYED"}
StablePoolTypes == {"STABLE", "RELAYED_STABLE"}
Family(type) == IF type \in WeightedPoolTypes THEN "weighted" ELSE "stable"

\* The Vault is the one given, or a new one.  The deployer of stable Pools mocks it
\* only if asked to; that of weighted Pools unless a factory is asked for.
VaultIsMocked(type, fromFactory, vault) ==
  IF vault # "new" THEN vault = "mocked" ELSE Family(type) = "weighted" /\ ~fromFactory

-----------------------------------------------------------------------------
\* The parameters of a deployment, each given or by default, all kept by the model.
toWeightedPoolDeployment ==
  {"weights", "rateProviders", "assetManagers", "swapFee", "pauseWindow", "swapEnabled",
   "mustAllowlistLPs", "managementSwapFee", "managementAumFee", "owner"}
toStablePoolDeployment ==
  {"rateProviders", "rateCacheDurations", "exemptions", "amplification", "swapFee",
   "pauseWindow", "owner", "assetManagers"}

deployStandaloneWeighted(type) ==
  CASE type = "RELAYED" ->
         {"weights", "rateProviders", "assetManagers", "swapFee", "pauseWindow", "owner"}
    [] type = "BOOTSTRAPPING" -> {"weights", "swapFee", "pauseWindow", "owner", "swapEnabled"}
    [] type = "MANAGED" ->
         {"weights", "swapFee", "assetManagers", "swapEnabled", "mustAllowlistLPs",
          "managementSwapFee", "managementAumFee", "owner", "pauseWindow"}
    [] type = "WEIGHTED" ->
         {"weights", "rateProviders", "assetManagers", "swapFee", "pauseWindow", "owner"}
deployFromFactory(type) ==
  CASE type = "RELAYED" -> {"weights", "rateProviders", "assetManagers", "swapFee", "owner"}
    [] type = "BOOTSTRAPPING" -> {"weights", "swapFee", "owner", "swapEnabled"}
    [] type = "MANAGED" ->
         {"weights", "assetManagers", "swapFee", "swapEnabled", "mustAllowlistLPs",
          "managementSwapFee", "managementAumFee"}
    [] type = "WEIGHTED" -> {"weights", "rateProviders", "swapFee", "owner"}
deployStandaloneStable(type) == toStablePoolDeployment

Reach(type, fromFactory) ==
  IF Family(type) = "stable" THEN deployStandaloneStable(type)
  ELSE IF fromFactory THEN deployFromFactory(type) ELSE deployStandaloneWeighted(type)

-----------------------------------------------------------------------------
\* The contract refuses tokens that are not in order; a stable Pool registers itself
\* among them, where its address has its place.
placeOf(list, bpt) ==
  CHOOSE k \in 0..Len(list) :
    (k > 0 => ~(list[k] > bpt)) /\ \A i \in (k + 1)..Len(list) : list[i] > bpt
insertSorted(list, bpt) ==
  LET k == placeOf(list, bpt)
  IN  [i \in 1..(Len(list) + 1) |->
         IF i <= k THEN list[i] ELSE IF i = k + 1 THEN bpt ELSE list[i - 1]]
Registered(type, list, bpt) ==
  IF Family(type) = "stable" THEN insertSorted(addresses(list), bpt) ELSE addresses(list)

=============================================================================
