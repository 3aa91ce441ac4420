------------------------------ MODULE PoolClients ------------------------------
(***************************************************************************)
(* The models that off-chain code uses Pools by: a list of tokens and a    *)
(* Pool are deployed, and calls of the model become requests to the Vault, *)
(* to a relayer or to the Pool, or estimates computed from the Pool's      *)
(* balances and parameters.  Amounts are abstracted to the token that the  *)
(* caller means each to be of: what a list loses or shifts shows.          *)
(***************************************************************************)
EXTENDS PoolDeployers, PoolEncoders

CONSTANTS Symbols,     \* of the tokens of the Pool, a sequence
          Minings,     \* where their contracts may come to be: sequences of addresses
          Types,       \* of the Pools deployed
          BptAddresses,  \* where the Pool may come to be
          Funded,      \* accounts that are given tokens
          MaxChanges   \* bound on settings and tokens changed, pauses and recoveries

VARIABLES tokens,   \* the caller's list, which the model of the Pool shares
          pool,     \* the Pool and the model's record of it
          held,     \* the amounts in the caller's parameters
          funds,    \* <<account, token>>: amounts held, and approved for the Vault
          sent,     \* the last call that was accepted, or estimate that was computed
          changes   \* how many changes there were

\* No two contracts come to be at one address.
ASSUME ClientAssumption ==
  /\ Symbols \in Seq(STRING)
  /\ BptAddresses \subseteq Nat
  /\ \A m \in Minings : /\ m \in [DOMAIN Symbols -> Nat]
                        /\ \A i, j \in DOMAIN m : m[i] = m[j] => i = j
                        /\ \A i \in DOMAIN m : m[i] \notin BptAddresses

clientVars == <<tokens, pool, held, funds, sent, changes>>

\* An amount of a list is of the token of this address; a single amount is of each.
Each == 0
NoPool == [type |-> "none", mocked |-> TRUE, order |-> <<>>, bptIndex |-> -1,
           settings |-> [f \in {} |-> ""], initialized |-> FALSE, paused |-> FALSE,
           recovery |-> FALSE]
Nothing == [call |-> "none", does |-> "nothing", purpose |-> "nothing", pairs |-> {}]
NoFunds == [minted |-> {}, approved |-> {}]

IsStable == Family(pool.type) = "stable"
Deployed == pool.type # "none"

\* What lists given for tokens have at the places of others.
Pairs(given, received) == {<<given[i], received[i]>> : i \in DOMAIN given}

-----------------------------------------------------------------------------
\* The methods of the models: the call each comes to, and the encoder of its data.
And(f, g) == [x \in DOMAIN f \cup DOMAIN g |-> IF x \in DOMAIN f THEN f[x] ELSE g[x]]
M(call, data) == [call |-> call, data |-> data, drops |-> FALSE]
Dropping(call, data) == [M(call, data) EXCEPT !.drops = TRUE]
WeightedInits == [init |-> M("join", "joinInit"), initRelayer |-> M("joinRelayer", "joinInit")]
WeightedJoins ==
  [joinGivenIn |-> M("join", "joinExactTokensInForBPTOut"),
   joinGivenInRelayer |-> M("joinRelayer", "joinExactTokensInForBPTOut"),
   queryJoinGivenIn |-> M("queryJoin", "joinExactTokensInForBPTOut"),
   joinGivenOut |-> M("join", "joinTokenInForExactBPTOut"),
   queryJoinGivenOut |-> M("queryJoin", "joinTokenInForExactBPTOut"),
   joinAllGivenOut |-> M("join", "joinAllTokensInForExactBPTOut"),
   queryJoinAllGivenOut |-> M("queryJoin", "joinAllTokensInForExactBPTOut")]
WeightedExits ==
  [exitGivenOut |-> M("exit", "exitBPTInForExactTokensOut"),
   exitGivenOutRelayer |-> M("exitRelayer", "exitBPTInForExactTokensOut"),
   queryExitGivenOut |-> M("queryExit", "exitBPTInForExactTokensOut"),
   singleExitGivenIn |-> M("exit", "exitExactBPTInForOneTokenOut"),
   querySingleExitGivenIn |-> M("queryExit", "exitExactBPTInForOneTokenOut"),
   multiExitGivenIn |-> M("exit", "exitExactBPTInForTokensOut"),
   multiExitGivenInRelayer |-> M("exitRelayer", "exitExactBPTInForTokensOut"),
   queryMultiExitGivenIn |-> M("queryExit", "exitExactBPTInForTokensOut")]
StableInits == [init |-> M("join", "joinInit"), initRelayer |-> M("joinRelayer", "joinInit")]
StableJoins ==
  [joinGivenIn |-> Dropping("join", "joinExactTokensInForBPTOut"),
   joinGivenInRelayer |-> M("joinRelayer", "joinExactTokensInForBPTOut"),
   queryJoinGivenIn |-> Dropping("queryJoin", "joinExactTokensInForBPTOut"),
   joinGivenOut |-> M("join", "joinTokenInForExactBPTOut"),
   queryJoinGivenOut |-> M("queryJoin", "joinTokenInForExactBPTOut")]
StableExits ==
  [exitGivenOut |-> Dropping("exit", "exitBPTInForExactTokensOut"),
   queryExitGivenOut |-> Dropping("queryExit", "exitBPTInForExactTokensOut"),
   singleExitGivenIn |-> M("exit", "exitExactBPTInForOneTokenOut"),
   singleExitGivenInRelayer |-> M("exitRelayer", "exitExactBPTInForOneTokenOut"),
   querySingleExitGivenIn |-> M("queryExit", "exitExactBPTInForOneTokenOut")]
recoveryModeExit == [recoveryModeExit |-> M("exit", "recoveryModeExit")]
Methods ==
  And(recoveryModeExit,
      IF IsStable THEN And(StableInits, And(StableJoins, StableExits))
      ELSE And(WeightedInits, And(WeightedJoins, WeightedExits)))

Purpose ==
  [joinInit |-> "initialize", joinExactTokensInForBPTOut |-> "exactTokensIn",
   joinTokenInForExactBPTOut |-> "tokenIn", joinAllTokensInForExactBPTOut |-> "allTokensIn",
   exitBPTInForExactTokensOut |-> "exactTokensOut", recoveryModeExit |-> "recovery",
   exitExactBPTInForOneTokenOut |-> "oneTokenOut",
   exitExactBPTInForTokensOut |-> "allTokensOut"]
TakesAmounts(m) ==
  m.data \in {"joinInit", "joinExactTokensInForBPTOut", "exitBPTInForExactTokensOut"}
TakesToken(m) == m.data \in {"joinTokenInForExactBPTOut", "exitExactBPTInForOneTokenOut"}
Side(m) == IF m.call \in {"join", "joinRelayer", "queryJoin"} THEN "join" ELSE "exit"

\* Mutant: off by one, as places count from 1.
dropBptItem_OffByOne(items) ==
  [i \in 1..(Len(items) - 1) |-> items[IF i < pool.bptIndex THEN i ELSE i + 1]]
\* Amounts without that at the place of the BPT, and indices as if it had none.
dropBptItem(items) ==
  [i \in 1..(Len(items) - 1) |-> items[IF i <= pool.bptIndex THEN i ELSE i + 1]]

\* Mutant: indices are as the Vault's, with the BPT.
skipBptIndex_Kept(index) == index
skipBptIndex(index) == IF index < pool.bptIndex THEN index ELSE index - 1
Besides == IF IsStable THEN dropBptItem(pool.order) ELSE pool.order

\* What the amounts of the parameters are as a method is done with them: those that
\* drop the amount of BPT leave the shorter list in the caller's parameters.
keptAmounts(m) == IF m.drops THEN Many(dropBptItem(toList(held).items)) ELSE held

filled(amounts) ==
  IF IsMany(amounts) THEN amounts.items ELSE [i \in 1..Len(tokens) |-> amounts.items[1]]
weightedData(m, amounts, which) ==
  LET kind == WeightedPoolEncoder[m.data]
  IN  IF TakesAmounts(m) THEN Encoded(kind, filled(amounts), NoIndex)
      ELSE Encoded(kind, NoAmounts, IF TakesToken(m) THEN indexOf(tokens, which) ELSE NoIndex)
stableData(m, amounts, which) ==
  LET kind == StablePoolEncoder[m.data]
  IN  IF TakesAmounts(m) THEN Encoded(kind, filled(amounts), NoIndex)
      ELSE Encoded(kind, NoAmounts, IF TakesToken(m) THEN indexOf(tokens, which) ELSE NoIndex)
DataOf(m, amounts, which) ==
  IF IsStable THEN stableData(m, amounts, which) ELSE weightedData(m, amounts, which)

\* The assets of a request are those of the model's list, or read from the Vault: the
\* exits of a stable Pool are those that any Pool's model has.
weightedAssets == addresses(tokens)
stableJoinAssets == pool.order
exitAssets == pool.order
Assets(m) ==
  IF ~IsStable THEN weightedAssets ELSE IF m.call = "exit" THEN exitAssets ELSE stableJoinAssets
senderOf(from) == IF from = "nobody" THEN "default" ELSE from

-----------------------------------------------------------------------------
ClientInit ==
  /\ tokens = <<>>
  /\ pool = NoPool
  /\ held = One(Each)
  /\ funds = NoFunds
  /\ sent = Nothing
  /\ changes = 0

CreateTokens(minedAt, sorted) ==
  /\ tokens = <<>>
  /\ tokens' \in DeployTokens(Symbols, minedAt, sorted)
  /\ UNCHANGED <<pool, held, funds, sent, changes>>

SortTokens ==
  /\ tokens' \in sort(tokens)
  /\ UNCHANGED <<pool, held, funds, sent, changes>>

\* A mocked Vault is one that calls a Pool for whoever asks, without transfers.
DeployPool(type, fromFactory, vault, bpt) ==
  /\ ~Deployed
  /\ tokens # <<>> /\ InOrder(tokens)
  /\ LET order == Registered(type, tokens, bpt)
     IN  pool' = [NoPool EXCEPT !.type = type, !.order = order,
                                !.mocked = VaultIsMocked(type, fromFactory, vault),
                                !.bptIndex = position(order, bpt),
                                !.settings = [f \in Reach(type, fromFactory) |-> "deployed"]]
  /\ UNCHANGED <<tokens, held, funds, sent, changes>>

\* The caller writes the amounts of a call: a single one, or those of a list of
\* tokens, with or without the BPT.
WriteAmounts(amounts) ==
  /\ Deployed
  /\ held' = amounts
  /\ UNCHANGED <<tokens, pool, funds, sent, changes>>

Fund(to) ==
  /\ Deployed /\ \A i \in DOMAIN tokens : CanMint(tokens[i])
  /\ funds' = [minted |-> funds.minted \cup mint(tokens, One(to), One("default")),
               approved |-> funds.approved \cup approve(tokens, One("vault"), One(to))]
  /\ UNCHANGED <<tokens, pool, held, sent, changes>>

\* A stable Pool's init first provides the tokens, by their places in the list that
\* is left of the amounts without the BPT's.
provided(from) ==
  LET given == dropBptItem(toList(held).items)
  IN  {<<senderOf(from), tokens[i].address>> : i \in DOMAIN given}
fundsAfter(m, from) ==
  IF IsStable /\ m.data = "joinInit"
  THEN [minted |-> funds.minted \cup provided(from), approved |-> funds.approved \cup provided(from)]
  ELSE funds

-----------------------------------------------------------------------------
\* Which requests get through to the Pool, and which of those it takes.  For amounts,
\* limits or permissions, either may still refuse.
VaultTakes(m, from, held_) ==
  \/ m.call \in {"queryJoin", "queryExit"}
  \/ m.call \in {"join", "exit"} /\ pool.mocked
  \/ /\ ~pool.mocked
     /\ Assets(m) = pool.order
     /\ Side(m) = "join" =>
          \A i \in DOMAIN Besides : /\ <<senderOf(from), Besides[i]>> \in held_.minted
                                    /\ <<senderOf(from), Besides[i]>> \in held_.approved
PoolTakes(m, data) ==
  LET does == Decoded(Family(pool.type), Side(m), data.kind)
  IN  /\ Accepts(Family(pool.type), Side(m), data, Len(pool.order), Len(Besides))
      /\ (does = "initialize") = ~pool.initialized
      /\ does = "recovery" => pool.recovery /\ m.call = "exit"
      /\ does # "recovery" => ~pool.paused

\* What each part of a request stands for, and what it is taken to be.
Taken(m, data, which) ==
  (IF TakesAmounts(m) THEN Pairs(data.amounts, IF m.data = "joinInit" THEN pool.order ELSE Besides)
   ELSE {}) \cup
  (IF TakesToken(m) THEN {<<get(tokens, which).address, Besides[data.index + 1]>>} ELSE {})

Call(name, which, from) ==
  LET m == Methods[name]
      amounts == keptAmounts(m)
      data == DataOf(m, amounts, which)
      funded == fundsAfter(m, from)
      does == Decoded(Family(pool.type), Side(m), data.kind)
  IN  /\ Deployed
      /\ funded # funds => \A i \in DOMAIN tokens : CanMint(tokens[i])
      /\ held' = amounts
      /\ funds' = funded
      /\ \/ /\ Encodes(data) /\ VaultTakes(m, from, funded) /\ PoolTakes(m, data)
            /\ sent' = [call |-> m.call, does |-> does, purpose |-> Purpose[m.data],
                        pairs |-> Taken(m, data, which)]
            /\ pool' = IF does = "initialize" THEN [pool EXCEPT !.initialized = TRUE] ELSE pool
         \/ sent' = Nothing /\ UNCHANGED pool
      /\ UNCHANGED <<tokens, changes>>


-----------------------------------------------------------------------------
\* Swaps name their tokens by address, and to a mocked Vault by the balances or the
\* indices that it would find.  Only a mocked Vault is asked for the swaps of a
\* weighted Pool.
weightedSwap(tokenIn, tokenOut) ==
  LET indices == indicesOf(tokens, tokenIn, tokenOut)
  IN  {<<get(tokens, tokenIn).address, pool.order[indices[1] + 1]>>,
       <<get(tokens, tokenOut).address, pool.order[indices[2] + 1]>>}
stableSwap(tokenIn, tokenOut) ==
  {<<tokenIn, pool.order[position(pool.order, tokenIn) + 1]>>,
   <<tokenOut, pool.order[position(pool.order, tokenOut) + 1]>>}
Swapped(pairs) == [call |-> "swap", does |-> "swap", purpose |-> "swap", pairs |-> pairs]
querySwap(assets, tokenIn, tokenOut) ==
  LET step == [assetIn |-> position(assets, tokenIn), assetOut |-> position(assets, tokenOut)]
  IN  {<<tokenIn, pool.order[step.assetIn + 1]>>, <<tokenOut, pool.order[step.assetOut + 1]>>}
SwapWeighted(tokenIn, tokenOut) ==
  /\ Deployed /\ ~IsStable /\ pool.mocked
  /\ ~pool.paused /\ pool.initialized
  /\ sent' = Swapped(weightedSwap(tokenIn, tokenOut))
  /\ UNCHANGED <<tokens, pool, held, funds, changes>>
SwapStable(tokenIn, tokenOut) ==
  /\ Deployed /\ IsStable
  /\ ~pool.paused /\ pool.initialized
  /\ sent' = Swapped(stableSwap(tokenIn, tokenOut))
  /\ UNCHANGED <<tokens, pool, held, funds, changes>>
QuerySwapStable(tokenIn, tokenOut) ==
  /\ Deployed /\ IsStable /\ ~pool.mocked
  /\ ~pool.paused /\ pool.initialized
  /\ sent' = Swapped(querySwap(pool.order, tokenIn, tokenOut))
  /\ UNCHANGED <<tokens, pool, held, funds, changes>>

\* Estimates: the tokens they are about, whether they take a list of amounts, and the
\* parameters they read from the model instead of the Pool.
E(about, list, cached) == [about |-> about, list |-> list, cached |-> cached]
WeightedEstimates ==
  [estimateSpotPrice |-> E(0, FALSE, {"weights"}),
   estimateBptPrice |-> E(1, FALSE, {"weights"}),
   estimateInvariant |-> E(0, FALSE, {"weights"}),
   estimateSwapFeeAmount |-> E(1, FALSE, {"weights"}),
   estimateMaxSwapFeeAmount |-> E(1, FALSE, {"weights"}),
   estimateGivenIn |-> E(2, FALSE, {"weights"}),
   estimateGivenOut |-> E(2, FALSE, {"weights"}),
   estimateBptOut |-> E(0, TRUE, {"weights", "swapFee"}),
   estimateTokenIn |-> E(1, FALSE, {"weights", "swapFee"}),
   estimateTokenOut |-> E(1, FALSE, {"weights", "swapFee"})]
StableEstimates ==
  [estimateInvariant |-> E(0, FALSE, {"amplification"}),
   estimateTokenOutGivenTokenIn |-> E(2, FALSE, {"amplification"}),
   estimateTokenInGivenTokenOut |-> E(2, FALSE, {"amplification"}),
   estimateTokenOutGivenBptIn |-> E(1, FALSE, {"amplification"}),
   estimateTokenInGivenBptOut |-> E(1, FALSE, {"amplification"}),
   estimateBptOutGivenTokenIn |-> E(1, FALSE, {"amplification"}),
   estimateBptInGivenTokenOut |-> E(1, FALSE, {"amplification"}),
   estimateBptOut |-> E(0, TRUE, {"amplification"})]
Estimates == IF IsStable THEN StableEstimates ELSE WeightedEstimates

\* Those of weighted Pools line up the Vault's balances with the model's weights and
\* the caller's amounts; those of stable Pools leave the BPT out of whatever has it.
weightedFigures(e, whiches) ==
  Pairs(pool.order, addresses(tokens)) \cup
  (IF e.list THEN Pairs(held.items, pool.order) ELSE {}) \cup
  {<<get(tokens, whiches[i]).address, pool.order[indexOf(tokens, whiches[i]) + 1]>> : i \in 1..e.about}
withoutBpt(items) == IF Len(items) = Len(pool.order) THEN dropBptItem(items) ELSE items
stableFigures(e, whiches) ==
  (IF e.list THEN Pairs(withoutBpt(held.items), Besides) ELSE {}) \cup
  {<<get(tokens, whiches[i]).address,
     Besides[skipBptIndex(position(pool.order, get(tokens, whiches[i]).address)) + 1]>> : i \in 1..e.about}

\* An estimate of amounts of another number than the Pool's tokens has no meaning.
Estimate(name, whiches) ==
  LET e == Estimates[name]
  IN  /\ Deployed
      /\ e.list => IsMany(held) /\ Len(held.items) \in {Len(pool.order), Len(Besides)}
      /\ Len(tokens) = Len(Besides)
      /\ sent' = [call |-> "estimate", does |-> {f \in e.cached : f \in DOMAIN pool.settings},
                  purpose |-> e.cached,
                  pairs |-> IF IsStable THEN stableFigures(e, whiches) ELSE weightedFigures(e, whiches)]
      /\ UNCHANGED <<tokens, pool, held, funds, changes>>

-----------------------------------------------------------------------------
\* What is changed in the Pool by its model leaves the model as it is.
OwnerSetters ==
  [setSwapEnabled |-> "swapEnabled", setSwapFeePercentage |-> "swapFee",
   setManagementSwapFeePercentage |-> "managementSwapFee",
   setManagementAumFeePercentage |-> "managementAumFee"]
setMustAllowlistLPs == [setMustAllowlistLPs |-> "mustAllowlistLPs"]
GradualSetters == [updateWeightsGradually |-> "weights", updateSwapFeeGradually |-> "swapFee"]
StableSetters ==
  [startAmpChange |-> "amplification", stopAmpChange |-> "amplification",
   setTokenRateCacheDuration |-> "rateCacheDurations"]
Setters == IF IsStable THEN StableSetters ELSE And(OwnerSetters, And(setMustAllowlistLPs, GradualSetters))
Set(method) ==
  /\ Deployed /\ changes < MaxChanges
  /\ Setters[method] \in DOMAIN pool.settings
  /\ pool' = [pool EXCEPT !.settings[Setters[method]] = "changed"]
  /\ changes' = changes + 1
  /\ UNCHANGED <<tokens, held, funds, sent>>

\* Just before these calls the model has the Vault's admin grant what they need, so
\* none of them is refused.
SetPaused(paused) ==
  /\ Deployed /\ changes < MaxChanges
  /\ pool' = [pool EXCEPT !.paused = paused]
  /\ changes' = changes + 1
  /\ UNCHANGED <<tokens, held, funds, sent>>
SetRecovery(enabled) ==
  /\ Deployed /\ changes < MaxChanges
  /\ pool' = [pool EXCEPT !.recovery = enabled]
  /\ changes' = changes + 1
  /\ UNCHANGED <<tokens, held, funds, sent>>

\* The tokens of a managed Pool change, which a mocked Vault does not let them.  The
\* Vault puts the last one in the place of one that is removed.  Lists of amounts that
\* the caller has are for the tokens as they were, and are written anew.
ManagedOnVault == pool.type = "MANAGED" /\ ~pool.mocked /\ pool.initialized /\ changes < MaxChanges
addToken(address) ==
  /\ ManagedOnVault
  /\ ~Contains(pool.order, address)
  /\ pool' = [pool EXCEPT !.order = Append(@, address), !.settings["weights"] = "changed"]
  /\ changes' = changes + 1
  /\ held' = One(Each)
  /\ UNCHANGED <<tokens, funds, sent>>
removeToken(address) ==
  /\ ManagedOnVault
  /\ Contains(pool.order, address) /\ Len(pool.order) > 2
  /\ LET last == Last(pool.order)
     IN  pool' = [pool EXCEPT !.order = Front([i \in DOMAIN @ |-> IF @[i] = address THEN last ELSE @[i]]),
                              !.settings["weights"] = "changed"]
  /\ changes' = changes + 1
  /\ held' = One(Each)
  /\ UNCHANGED <<tokens, funds, sent>>

-----------------------------------------------------------------------------
Whiches == {ByIndex(i) : i \in 0..(Len(tokens) - 1)} \cup {ByToken(tokens[i]) : i \in DOMAIN tokens}
Senders == {"nobody", "lp"}
Lists == {Many(pool.order), Many(addresses(tokens))}

\* Calls are awaited.
Answered ==
  /\ sent # Nothing
  /\ sent' = Nothing
  /\ UNCHANGED <<tokens, pool, held, funds, changes>>

Does ==
  \/ \E minedAt \in Minings, sorted \in BOOLEAN : CreateTokens(minedAt, sorted)
  \/ SortTokens
  \/ \E type \in Types, fromFactory \in BOOLEAN,
        vault \in {"new", "mocked", "real"}, bpt \in BptAddresses :
       DeployPool(type, fromFactory, vault, bpt)
  \/ \E amounts \in Lists \cup {One(Each)} : WriteAmounts(amounts)
  \/ \E to \in Funded : Fund(to)
  \/ Deployed /\ \E name \in DOMAIN Methods, from \in Senders :
       \E which \in IF TakesToken(Methods[name]) THEN Whiches ELSE {ByIndex(0)} : Call(name, which, from)
  \/ \E tokenIn \in Whiches, tokenOut \in Whiches :
       get(tokens, tokenIn) # get(tokens, tokenOut) /\ SwapWeighted(tokenIn, tokenOut)
  \/ \E i, j \in DOMAIN pool.order :
       i # j /\ (SwapStable(pool.order[i], pool.order[j]) \/ QuerySwapStable(pool.order[i], pool.order[j]))
  \/ Deployed /\ \E name \in DOMAIN Estimates :
       \E whiches \in [1..Estimates[name].about -> Whiches] : Estimate(name, whiches)
  \/ Deployed /\ \E method \in DOMAIN Setters : Set(method)
  \/ \E paused \in BOOLEAN : paused # pool.paused /\ SetPaused(paused)
  \/ \E enabled \in BOOLEAN : enabled # pool.recovery /\ SetRecovery(enabled)
  \/ \E address \in BptAddresses \cup {tokens[i].address : i \in DOMAIN tokens} : addToken(address) \/ removeToken(address)

ClientNext == (sent = Nothing /\ Does) \/ Answered

ClientSpec == ClientInit /\ [][ClientNext]_clientVars

-----------------------------------------------------------------------------
\* What comes of calls of the model is what the caller meant.  Whatever calls were
\* made with the same parameters before, which leave shorter lists in them, and
\* whether amounts are given one by one, with the BPT or without: if a request is
\* taken, then by the kind of join or exit that the method is named for, and every
\* amount and index by the token it was given for.  Where the tokens of a Pool have
\* changed since its model was made, that holds for what passes the Vault.
Unchanged == addresses(tokens) = Besides
AcceptedAsMeant ==
  sent.call # "estimate" /\ (sent.call \in {"queryJoin", "queryExit"} => Unchanged) =>
    /\ sent.does = sent.purpose
    /\ \A p \in sent.pairs : p[1] \in {Each, p[2]}

\* Estimates compare like with like: balances, weights, amounts and indices are of the
\* same tokens, with the BPT of a stable Pool left out of all of them, and a cached
\* parameter is one that the Pool, of whatever type and factory, was deployed with.
EstimatesLineUp ==
  sent.call = "estimate" /\ Unchanged =>
    /\ sent.does = sent.purpose
    /\ \A p \in sent.pairs : p[1] = p[2]

=============================================================================
