--------------------------------- MODULE Swaps ---------------------------------
(***************************************************************************)
(* Swaps.swap and Swaps.batchSwap.  A swap asks the Pool's onSwap hook for *)
(* the amount that was not given, and changes the balances it read before. *)
(* A batch does so once per step and adds up what each asset owes; nothing *)
(* is transferred before the last step, and then only the differences.     *)
(***************************************************************************)
EXTENDS PoolBalances

CONSTANT DeltaLimits   \* the limits of a batch: negative for a minimum out

SwapKinds == {"GIVEN_IN", "GIVEN_OUT"}

NoRequest == [pool |-> "none"]

Request(r) ==
  /\ r \in [pool: Pools, assetIn: Assets, assetOut: Assets, amount: Nat,
            cached: {r.cached}]
  /\ DOMAIN r.cached = {translate(r.assetIn), translate(r.assetOut)}
  /\ OfTokens(r.cached, Balance)

NoHop == [token |-> ETH, amount |-> 0]

SwapFrame(f) ==
  /\ f.kind = "swap"
  /\ f \in [kind: {"swap"}, caller: Callers, sender: Users, recipient: Users,
            fromInternal: BOOLEAN, toInternal: BOOLEAN, value: Nat,
            swapKind: SwapKinds, limit: Nat, request: {f.request}]
  /\ Request(f.request)

BatchFrame(f) ==
  /\ f.kind = "batchSwap"
  /\ f \in [kind: {"batchSwap"}, caller: Callers, sender: Users, recipient: Users,
            fromInternal: BOOLEAN, toInternal: BOOLEAN, value: Nat,
            swapKind: SwapKinds, limits: [DOMAIN f.limits -> Int],
            deltas: [Assets -> Int], steps: Nat,
            previous: [token: Assets, amount: Nat], request: {f.request}]
  /\ DOMAIN f.limits \subseteq Assets
  /\ f.request = NoRequest \/ Request(f.request)

\* _tokenGiven, _tokenCalculated and _getAmounts, by swap kind.
tokenGiven(kind, tokenIn, tokenOut) ==
  IF kind = "GIVEN_IN" THEN tokenIn ELSE tokenOut
tokenCalculated(kind, tokenIn, tokenOut) ==
  IF kind = "GIVEN_IN" THEN tokenOut ELSE tokenIn
getAmounts(kind, given, calculated) ==
  IF kind = "GIVEN_IN" THEN [in |-> given, out |-> calculated]
                       ELSE [in |-> calculated, out |-> given]

\* What a swap asks of a Pool: both tokens must be among the Pool's.  All three
\* layouts read the two balances now and write them after the hook.
MaySwap(p, assetIn, assetOut) ==
  /\ p \in registeredPools
  /\ translate(assetIn) # translate(assetOut)
  /\ {translate(assetIn), translate(assetOut)} \subseteq poolTokens[p]

SwapRequest_ReadOnce(p, assetIn, assetOut, amount) ==
  [pool |-> p, assetIn |-> assetIn, assetOut |-> assetOut, amount |-> amount,
   cached |-> [t \in {translate(assetIn), translate(assetOut)} |->
                 IF frame = Idle THEN balances[p][t] ELSE saved.balances[p][t]]]
SwapRequest(p, assetIn, assetOut, amount) ==
  [pool |-> p, assetIn |-> assetIn, assetOut |-> assetOut, amount |-> amount,
   cached |-> [t \in {translate(assetIn), translate(assetOut)} |-> balances[p][t]]]

\* The hook returned: the new balances of the request's two tokens.
ProcessSwapRequest(request, amounts) ==
  LET tokenIn  == translate(request.assetIn)
      tokenOut == translate(request.assetOut)
      final == [t \in {tokenIn, tokenOut} |->
                  IF t = tokenIn
                    THEN increaseCash(request.cached[t], amounts.in, clock)
                    ELSE decreaseCash(request.cached[t], amounts.out, clock)]
  IN /\ \A t \in {tokenIn, tokenOut} : Fits(final[t])
     /\ StoreBalances(request.pool, final)
-----------------------------------------------------------------------------
swap(caller, sender, recipient, p, kind, assetIn, assetOut, amount, limit, fromInternal, toInternal, deadline, value) ==
  /\ NotPaused
  /\ authenticateFor(caller, sender)
  /\ clock <= deadline
  /\ amount > 0
  /\ MaySwap(p, assetIn, assetOut)
  /\ Enter("swap", [kind |-> "swap", caller |-> caller, sender |-> sender,
                    recipient |-> recipient, fromInternal |-> fromInternal,
                    toInternal |-> toInternal, value |-> value,
                    swapKind |-> kind, limit |-> limit,
                    request |-> SwapRequest(p, assetIn, assetOut, amount)])
  /\ ReceiveValue(value)
  /\ UNCHANGED <<poolVars, balances, internal, approvedRelayers, relayerRoles,
                 pauseVars, feeVars, tokenVars, ghostVars>>

\* SWAP_LIMIT: a minimum out, or a maximum in.
withinLimit(kind, amounts, limit) ==
  IF kind = "GIVEN_IN" THEN amounts.out >= limit ELSE amounts.in <= limit

SwapReturn(calculated) ==
  /\ frame.kind = "swap"
  /\ LET request == frame.request
         amounts == getAmounts(frame.swapKind, request.amount, calculated)
     IN /\ ProcessSwapRequest(request, amounts)
        /\ withinLimit(frame.swapKind, amounts, frame.limit)
        /\ TransferAssets(frame.sender, [NoAmounts EXCEPT ![request.assetIn] = amounts.in],
                          frame.fromInternal, frame.recipient,
                          [NoAmounts EXCEPT ![request.assetOut] = amounts.out],
                          frame.toInternal, NoTokens, frame.value)
  /\ Leave
  /\ UNCHANGED <<poolVars, accessVars, pauseVars, feeVars, collected, ghostVars>>
-----------------------------------------------------------------------------
batchSwap(caller, sender, recipient, kind, limits, fromInternal, toInternal, deadline, value) ==
  /\ NotPaused
  /\ authenticateFor(caller, sender)
  /\ clock <= deadline
  /\ Enter("batchSwap",
           [kind |-> "batchSwap", caller |-> caller, sender |-> sender,
            recipient |-> recipient, fromInternal |-> fromInternal,
            toInternal |-> toInternal, value |-> value, swapKind |-> kind,
            limits |-> limits, deltas |-> NoAmounts, steps |-> 0,
            previous |-> NoHop, request |-> NoRequest])
  /\ ReceiveValue(value)
  /\ UNCHANGED <<poolVars, balances, internal, approvedRelayers, relayerRoles,
                 pauseVars, feeVars, tokenVars, ghostVars>>

\* A zero amount stands for what the previous step calculated, if this step is
\* given the token that was calculated then.
givenAmount(amount) ==
  IF amount = 0 THEN frame.previous.amount ELSE amount
mayUsePrevious(assetIn, assetOut, amount) ==
  amount = 0 =>
    /\ frame.steps > 0
    /\ frame.previous.token =
         tokenGiven(frame.swapKind, translate(assetIn), translate(assetOut))

\* One iteration of _swapWithPools up to the hook,
BatchSwapStep(p, assetIn, assetOut, amount) ==
  /\ frame.kind = "batchSwap"
  /\ frame.request = NoRequest
  /\ frame.steps < MaxSteps
  /\ {assetIn, assetOut} \subseteq DOMAIN frame.limits     \* OUT_OF_BOUNDS
  /\ mayUsePrevious(assetIn, assetOut, amount)
  /\ MaySwap(p, assetIn, assetOut)
  /\ frame' = [frame EXCEPT !.request =
       SwapRequest(p, assetIn, assetOut, givenAmount(amount))]
  /\ UNCHANGED <<poolVars, balances, internal, accessVars, pauseVars, feeVars,
                 tokenVars, ethVars, ghostVars, saved>>

\* What each asset owes after one more step.
deltasAfter_OutForgotten(deltas, request, amounts) ==
  [deltas EXCEPT ![request.assetIn] = @ + amounts.in]
deltasAfter(deltas, request, amounts) ==
  [deltas EXCEPT ![request.assetIn] = @ + amounts.in,
                 ![request.assetOut] = @ - amounts.out]

\* and from the hook's return on.
BatchSwapStepReturn(calculated) ==
  /\ frame.kind = "batchSwap"
  /\ frame.request # NoRequest
  /\ LET request == frame.request
         amounts == getAmounts(frame.swapKind, request.amount, calculated)
     IN /\ ProcessSwapRequest(request, amounts)
        /\ frame' = [frame EXCEPT
             !.request = NoRequest,
             !.steps = @ + 1,
             !.deltas = deltasAfter(@, request, amounts),
             !.previous = [token |-> tokenCalculated(frame.swapKind,
                                       translate(request.assetIn),
                                       translate(request.assetOut)),
                           amount |-> calculated]]
  /\ UNCHANGED <<poolVars, internal, accessVars, pauseVars, feeVars, tokenVars,
                 ethVars, ghostVars, saved>>

\* The last loop of batchSwap: the limits, and the transfers.
withinLimits_IgnoresOut(deltas, limits) ==
  \A a \in DOMAIN limits : deltas[a] > 0 => deltas[a] <= limits[a]
withinLimits(deltas, limits) == \A a \in DOMAIN limits : deltas[a] <= limits[a]

BatchSwapReturn ==
  /\ frame.kind = "batchSwap"
  /\ frame.request = NoRequest
  /\ withinLimits(frame.deltas, frame.limits)
  /\ TransferAssets(frame.sender,
                    [a \in Assets |-> IF frame.deltas[a] > 0 THEN frame.deltas[a] ELSE 0],
                    frame.fromInternal, frame.recipient,
                    [a \in Assets |-> IF frame.deltas[a] < 0 THEN -frame.deltas[a] ELSE 0],
                    frame.toInternal, NoTokens, frame.value)
  /\ Leave
  /\ UNCHANGED <<poolVars, balances, accessVars, pauseVars, feeVars, collected, ghostVars>>
=============================================================================
