------------------------------ MODULE PoolBalances ------------------------------
(***************************************************************************)
(* joinPool and exitPool (PoolBalances._joinOrExit).  The Pool's balances  *)
(* are read before its onJoinPool or onExitPool hook is called and written,*)
(* changed by the amounts the hook returned, after every transfer is made. *)
(***************************************************************************)
EXTENDS AssetTransfers, PoolTokens

PoolBalanceChangeKinds == {"joinPool", "exitPool"}

JoinExitFrame(f) ==
  /\ f.kind \in PoolBalanceChangeKinds
  /\ f \in [kind: PoolBalanceChangeKinds, caller: Callers, sender: Users,
            recipient: Users, pool: Pools, limits: {f.limits},
            useInternalBalance: BOOLEAN, useEth: BOOLEAN, value: Nat,
            cached: {f.cached}]
  /\ OfTokens(f.limits, Nat)
  /\ OfTokens(f.cached, Balance)

\* Exits are possible in a paused Vault.
pauseAllows(kind) == kind = "joinPool" => NotPaused

\* joinPool and exitPool up to the call of the hook.  Only joins are payable.
JoinOrExit(kind, caller, sender, recipient, p, limits, useInternalBalance, useEth, value) ==
  /\ pauseAllows(kind)
  /\ kind = "exitPool" => value = 0
  /\ p \in registeredPools
  /\ poolTokens[p] # {}               \* _validateTokensAndGetBalances
  /\ DOMAIN limits = poolTokens[p]
  /\ authenticateFor(caller, sender)
  /\ Enter(kind, [kind |-> kind, caller |-> caller, sender |-> sender,
                  recipient |-> recipient, pool |-> p, limits |-> limits,
                  useInternalBalance |-> useInternalBalance,
                  useEth |-> useEth, value |-> value,
                  cached |-> PoolBalancesOf(p)])
  /\ ReceiveValue(value)
  /\ UNCHANGED <<poolVars, balances, internal, approvedRelayers, relayerRoles,
                 pauseVars, feeVars, tokenVars, ghostVars>>

\* The assets of a change in terms of the Pool's tokens: WETH may be named as
\* ETH, and is then received or sent as such.
AsAssets(amounts, useEth) ==
  [a \in Assets |->
     CASE a = ETH -> IF useEth /\ WETH \in DOMAIN amounts THEN amounts[WETH] ELSE 0
       [] a = WETH -> IF useEth \/ WETH \notin DOMAIN amounts THEN 0 ELSE amounts[WETH]
       [] OTHER -> IF a \in DOMAIN amounts THEN amounts[a] ELSE 0]

FeesOf(fees) == [t \in Tokens |-> IF t \in DOMAIN fees THEN fees[t] ELSE 0]

\* JOIN_ABOVE_MAX and EXIT_BELOW_MIN
WithinMaxIn(amounts, limits) ==
  \A t \in DOMAIN amounts : amounts[t] <= limits[t]
AboveMinOut_Unchecked(amounts, limits) == TRUE
AboveMinOut(amounts, limits) ==
  \A t \in DOMAIN amounts : amounts[t] >= limits[t]

\* The hook returned: _processJoinPoolTransfers, then the balances are stored.
\* Fees may exceed the amount in, and then the Pool's balance goes down.
joinedBalance_FeeNotCharged(b, amountIn, fee) == increaseCash(b, amountIn, clock)
joinedBalance(b, amountIn, fee) ==
  IF amountIn >= fee THEN increaseCash(b, amountIn - fee, clock)
                     ELSE decreaseCash(b, fee - amountIn, clock)

JoinPoolReturn(amountsIn, fees) ==
  /\ frame.kind = "joinPool"
  /\ DOMAIN amountsIn = DOMAIN frame.cached
  /\ DOMAIN fees = DOMAIN frame.cached
  /\ WithinMaxIn(amountsIn, frame.limits)
  /\ TransferAssets(frame.sender, AsAssets(amountsIn, frame.useEth),
                    frame.useInternalBalance, frame.recipient, NoAmounts, FALSE,
                    FeesOf(fees), frame.value)
  /\ LET final == [t \in DOMAIN frame.cached |->
                     joinedBalance(frame.cached[t], amountsIn[t], fees[t])]
     IN /\ \A t \in DOMAIN final : Fits(final[t])
        /\ StoreBalances(frame.pool, final)
  /\ Leave
  /\ UNCHANGED <<poolVars, accessVars, pauseVars, feeVars, collected, ghostVars>>

\* The same for an exit: _processExitPoolTransfers.
exitedBalance(b, amountOut, fee) == decreaseCash(b, amountOut + fee, clock)

ExitPoolReturn(amountsOut, fees) ==
  /\ frame.kind = "exitPool"
  /\ DOMAIN amountsOut = DOMAIN frame.cached
  /\ DOMAIN fees = DOMAIN frame.cached
  /\ AboveMinOut(amountsOut, frame.limits)
  /\ TransferAssets(frame.sender, NoAmounts, FALSE, frame.recipient,
                    AsAssets(amountsOut, frame.useEth), frame.useInternalBalance,
                    FeesOf(fees), frame.value)
  /\ LET final == [t \in DOMAIN frame.cached |->
                     exitedBalance(frame.cached[t], amountsOut[t], fees[t])]
     IN /\ \A t \in DOMAIN final : Fits(final[t])
        /\ StoreBalances(frame.pool, final)
  /\ Leave
  /\ UNCHANGED <<poolVars, accessVars, pauseVars, feeVars, collected, ghostVars>>
=============================================================================
