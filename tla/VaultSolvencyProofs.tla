--------------------------- MODULE VaultSolvencyProofs ---------------------------
(***************************************************************************)
(* Proofs about the money in the Vault: every token unit it holds backs    *)
(* one claim, and a call takes and gives what its caller agreed to.  The   *)
(* claims are sums over all Pools and users, of which a step changes few.  *)
(* Then about what a step may never do.                                    *)
(***************************************************************************)
EXTENDS VaultProofs, Induction

Ledgers == [Pools -> [Tokens -> Balance]]
Accounts == [Users -> [Tokens -> Nat]]

\* The cash of all Pools together follows that of the one that changes.
LEMMA PoolsCashFollows ==
  ASSUME NEW b \in Ledgers, NEW c \in Ledgers, NEW t \in Tokens, NEW p \in Pools,
         \A q \in Pools \ {p} : c[q][t].cash = b[q][t].cash
  PROVE  /\ PoolsCash(c, t) = PoolsCash(b, t) - b[p][t].cash + c[p][t].cash
         /\ PoolsCash(b, t) \in Int /\ PoolsCash(c, t) \in Int
         /\ b[p][t].cash \in Nat /\ c[p][t].cash \in Nat
<1> DEFINE f == [q \in Pools |-> b[q][t].cash]
           h == [q \in Pools |-> c[q][t].cash]
<1>1. \A q \in Pools : b[q][t].cash \in Nat /\ c[q][t].cash \in Nat
  <2>1. \A q \in Pools : b[q][t] \in Balance /\ c[q][t] \in Balance
    BY DEF Ledgers
  <2> QED BY <2>1, TotalCapAssumption DEF Balance
<1>2. f \in [Pools -> Int] /\ h \in [Pools -> Int] /\ IsFiniteSet(Pools)
  BY <1>1, VaultAssumption
<1>3. \A q \in Pools \ {p} : h[q] = f[q]
  OBVIOUS
<1>4. f[p] = b[p][t].cash /\ h[p] = c[p][t].cash
  OBVIOUS
<1> HIDE DEF f, h
<1>5. SumFunction(h) = SumFunction(f) - f[p] + h[p]
  BY <1>2, <1>3, SumExcept
<1>6. SumFunction(f) \in Int /\ SumFunction(h) \in Int
  BY <1>2, SumTyped
<1> QED BY <1>1, <1>4, <1>5, <1>6 DEF PoolsCash, f, h

\* It stays if no Pool's does.
LEMMA PoolsCashStays ==
  ASSUME NEW b, NEW c, NEW t, \A q \in Pools : c[q][t].cash = b[q][t].cash
  PROVE  PoolsCash(c, t) = PoolsCash(b, t)
BY DEF PoolsCash

\* The Internal Balance of all users together follows that of the one that changes,
LEMMA UsersBalanceFollows ==
  ASSUME NEW i \in [Users -> [Tokens -> Int]], NEW j \in [Users -> [Tokens -> Int]],
         NEW t \in Tokens, NEW u \in Users,
         \A v \in Users \ {u} : j[v][t] = i[v][t]
  PROVE  /\ UsersBalance(j, t) = UsersBalance(i, t) - i[u][t] + j[u][t]
         /\ UsersBalance(i, t) \in Int /\ UsersBalance(j, t) \in Int
         /\ i[u][t] \in Int /\ j[u][t] \in Int
<1> DEFINE f == [v \in Users |-> i[v][t]]
           h == [v \in Users |-> j[v][t]]
<1>1. \A v \in Users : i[v][t] \in Int /\ j[v][t] \in Int
  OBVIOUS
<1>2. f \in [Users -> Int] /\ h \in [Users -> Int] /\ IsFiniteSet(Users)
  BY <1>1, VaultAssumption
<1>3. \A v \in Users \ {u} : h[v] = f[v]
  OBVIOUS
<1>4. f[u] = i[u][t] /\ h[u] = j[u][t]
  OBVIOUS
<1> HIDE DEF f, h
<1>5. SumFunction(h) = SumFunction(f) - f[u] + h[u]
  BY <1>2, <1>3, SumExcept
<1>6. SumFunction(f) \in Int /\ SumFunction(h) \in Int
  BY <1>2, SumTyped
<1> QED BY <1>1, <1>4, <1>5, <1>6 DEF UsersBalance, f, h

LEMMA UsersBalanceStays ==
  ASSUME NEW i, NEW j, NEW t, \A u \in Users : j[u][t] = i[u][t]
  PROVE  UsersBalance(j, t) = UsersBalance(i, t)
BY DEF UsersBalance

\* and that of the two that a transfer changes, who may be one.
LEMMA UsersBalanceTransfer ==
  ASSUME TypeOK, NEW sender \in Users, NEW recipient \in Users,
         NEW deducted \in [Tokens -> Nat], NEW credited \in [Tokens -> Nat],
         NEW t \in Tokens
  PROVE  /\ UsersBalance(InternalAfter(sender, deducted, recipient, credited), t)
              = UsersBalance(internal, t) - deducted[t] + credited[t]
         /\ UsersBalance(internal, t) \in Int
<1> DEFINE i == internal
           j == [u \in Users |-> [s \in Tokens |->
                   i[u][s] - (IF u = sender THEN deducted[s] ELSE 0)]]
           k == [u \in Users |-> [s \in Tokens |->
                   j[u][s] + (IF u = recipient THEN credited[s] ELSE 0)]]
<1>1. \A u \in Users, s \in Tokens : i[u][s] \in Nat /\ deducted[s] \in Nat /\ credited[s] \in Nat
  BY DEF TypeOK, InternalTyped
<1>2. i \in [Users -> [Tokens -> Int]]
  BY DEF TypeOK, InternalTyped
<1>3. /\ j \in [Users -> [Tokens -> Int]]
      /\ \A u \in Users \ {sender} : j[u][t] = i[u][t]
      /\ j[sender][t] = i[sender][t] - deducted[t]
  BY <1>1
<1>4. k = InternalAfter(sender, deducted, recipient, credited)
  BY DEF InternalAfter
<1>5. /\ k \in [Users -> [Tokens -> Int]]
      /\ \A u \in Users \ {recipient} : k[u][t] = j[u][t]
      /\ k[recipient][t] = j[recipient][t] + credited[t]
  <2>1. \A u \in Users, s \in Tokens : j[u][s] \in Int
    BY <1>3
  <2> HIDE DEF j
  <2> QED BY <1>1, <2>1
<1> HIDE DEF i, j, k
<1>6. /\ UsersBalance(j, t) = UsersBalance(i, t) - i[sender][t] + j[sender][t]
      /\ UsersBalance(i, t) \in Int /\ i[sender][t] \in Int
  BY <1>2, <1>3, UsersBalanceFollows
<1>7. /\ UsersBalance(k, t) = UsersBalance(j, t) - j[recipient][t] + k[recipient][t]
      /\ UsersBalance(j, t) \in Int /\ j[recipient][t] \in Int
  BY <1>3, <1>5, UsersBalanceFollows
<1>8. UsersBalance(j, t) = UsersBalance(i, t) - deducted[t]
  BY <1>1, <1>3, <1>6
<1>9. UsersBalance(k, t) = UsersBalance(j, t) + credited[t]
  BY <1>1, <1>5, <1>7
<1> QED BY <1>4, <1>6, <1>8, <1>9 DEF i

LEMMA SumsTyped ==
  ASSUME NEW t \in Tokens
  PROVE  /\ \A b \in Ledgers : PoolsCash(b, t) \in Int
         /\ \A i \in Accounts : UsersBalance(i, t) \in Int
<1>1. ASSUME NEW b \in Ledgers PROVE PoolsCash(b, t) \in Int
  <2>1. \A q \in Pools : b[q][t].cash \in Int
    <3>1. \A q \in Pools : b[q][t] \in Balance
      BY DEF Ledgers
    <3> QED BY <3>1, TotalCapAssumption DEF Balance
  <2> DEFINE f == [q \in Pools |-> b[q][t].cash]
  <2>2. f \in [Pools -> Int] /\ IsFiniteSet(Pools)
    BY <2>1, VaultAssumption
  <2> HIDE DEF f
  <2>3. SumFunction(f) \in Int
    BY <2>2, SumTyped
  <2> QED BY <2>3 DEF f, PoolsCash
<1>2. ASSUME NEW i \in Accounts PROVE UsersBalance(i, t) \in Int
  <2> DEFINE f == [u \in Users |-> i[u][t]]
  <2>1. \A u \in Users : i[u][t] \in Int
    BY DEF Accounts
  <2>2. f \in [Users -> Int] /\ IsFiniteSet(Users)
    BY <2>1, VaultAssumption
  <2> HIDE DEF f
  <2>3. SumFunction(f) \in Int
    BY <2>2, SumTyped
  <2> QED BY <2>3 DEF f, UsersBalance
<1> QED BY <1>1, <1>2

\* The sums of what is stored now, and of what a revert would store.
LEMMA SumsNow ==
  ASSUME TypeOK, NEW t \in Tokens
  PROVE  /\ PoolsCash(balances, t) \in Int /\ UsersBalance(internal, t) \in Int
         /\ held[t] \in Nat /\ donated[t] \in Nat /\ forwarder[t] \in Nat
         /\ frame # Idle =>
              /\ PoolsCash(saved.balances, t) \in Int
              /\ UsersBalance(saved.internal, t) \in Int
              /\ saved.held[t] \in Nat /\ saved.donated[t] \in Nat
<1>1. balances \in Ledgers /\ internal \in Accounts
  BY DEF TypeOK, BalancesTyped, InternalTyped, Ledgers, Accounts
<1>2. held[t] \in Nat /\ donated[t] \in Nat /\ forwarder[t] \in Nat
  BY DEF TypeOK, TokensTyped, GhostTyped
<1>3. ASSUME frame # Idle
      PROVE  /\ saved.balances \in Ledgers /\ saved.internal \in Accounts
             /\ saved.held[t] \in Nat /\ saved.donated[t] \in Nat
  <2>1. saved \in Snapshots
    BY <1>3 DEF TypeOK, CallTyped
  <2> QED BY <2>1 DEF Snapshots, Ledgers, Accounts
<1> QED BY <1>1, <1>2, <1>3, SumsTyped
-----------------------------------------------------------------------------
\* What amounts of assets come to in token t.
Net(amounts, t) == amounts[t] + AsToken(t, amounts[ETH])

\* Whatever a transfer moves through Internal Balance or as ETH, the Vault holds
\* more, over what it owes users, by the amounts in less the amounts out.
LEMMA TransferNets ==
  ASSUME TypeOK, NEW sender \in Users, NEW recipient \in Users,
         NEW amountsIn \in [Assets -> Nat], NEW amountsOut \in [Assets -> Nat],
         NEW fromInternal \in BOOLEAN, NEW toInternal \in BOOLEAN,
         NEW feeAmounts \in [Tokens -> Nat], NEW value,
         TransferAssets(sender, amountsIn, fromInternal, recipient, amountsOut,
                        toInternal, feeAmounts, value),
         NEW t \in Tokens
  PROVE  /\ held'[t] - UsersBalance(internal', t)
              = held[t] - UsersBalance(internal, t)
                  + Net(amountsIn, t) - Net(amountsOut, t) - feeAmounts[t]
         /\ forwarder'[t] = forwarder[t] + feeAmounts[t]
         /\ held'[t] \in Int /\ UsersBalance(internal', t) \in Int
<1> DEFINE deducted == Deducted(sender, amountsIn, fromInternal)
           credited == [s \in Tokens |-> IF toInternal THEN amountsOut[s] ELSE 0]
           ethIn == AsToken(t, amountsIn[ETH])
           ethOut == AsToken(t, amountsOut[ETH])
<1>1. \A s \in Tokens : amountsIn[s] \in Nat /\ amountsOut[s] \in Nat
  BY Inputs
<1>2. deducted \in [Tokens -> Nat] /\ credited \in [Tokens -> Nat]
  <2>1. \A s \in Tokens : internal[sender][s] \in Nat
    BY DEF TypeOK, InternalTyped
  <2> QED BY <1>1, <2>1 DEF Deducted, Smaller
<1>3. ethIn \in Nat /\ ethOut \in Nat
  BY Inputs DEF AsToken
<1>4. held'[t] = held[t] + (amountsIn[t] - deducted[t]) + ethIn
                   - (amountsOut[t] - credited[t]) - ethOut - feeAmounts[t]
  BY DEF TransferAssets
<1>5. internal' = InternalAfter(sender, deducted, recipient, credited)
  BY DEF TransferAssets
<1>6. forwarder'[t] = forwarder[t] + feeAmounts[t]
  BY DEF TransferAssets
<1> HIDE DEF deducted, credited, ethIn, ethOut
<1>7. /\ UsersBalance(internal', t) = UsersBalance(internal, t) - deducted[t] + credited[t]
      /\ UsersBalance(internal, t) \in Int
  BY <1>2, <1>5, UsersBalanceTransfer
<1>8. /\ deducted[t] \in Nat /\ credited[t] \in Nat /\ held[t] \in Nat
      /\ feeAmounts[t] \in Nat /\ amountsIn[t] \in Nat /\ amountsOut[t] \in Nat
  BY <1>1, <1>2 DEF TypeOK, TokensTyped
<1>9. Net(amountsIn, t) = amountsIn[t] + ethIn /\ Net(amountsOut, t) = amountsOut[t] + ethOut
  BY DEF Net, ethIn, ethOut
<1> QED BY <1>3, <1>4, <1>6, <1>7, <1>8, <1>9
-----------------------------------------------------------------------------
(***************************************************************************)
(* Backed is not inductive.  A revert stores what was saved as the call    *)
(* began, so that must be backed too, with nothing pending.  The loan that *)
(* returns must find recorded what the Vault held before it.  The balances *)
(* that swaps, joins and exits write back change by what is transferred    *)
(* only if nothing stored them meanwhile, and if the two tokens of a swap  *)
(* differ; a batch notes in its deltas what its hops have stored.          *)
(***************************************************************************)
SavedBacked ==
  frame # Idle =>
    \A t \in Tokens : saved.held[t] = PoolsCash(saved.balances, t)
                        + UsersBalance(saved.internal, t) + saved.donated[t]
LoanAsMade ==
  frame.kind = "flashLoan" =>
    \A t \in DOMAIN frame.amounts :
      /\ frame.preLoan[t] = saved.held[t]
      /\ frame.fees[t] = LoanFee(frame.amounts[t])
StoredAtReturn ==
  /\ frame.kind \in {"joinPool", "exitPool", "swap", "flashLoan", "manageUserBalance"} =>
       balances = saved.balances
  /\ frame.kind \in {"joinPool", "exitPool", "swap", "batchSwap", "flashLoan",
                     "managePoolBalance"} => internal = saved.internal
AllTokensLimited ==
  frame.kind \in PoolBalanceChangeKinds => DOMAIN frame.limits = DOMAIN frame.cached
HopBetweenTwo ==
  frame.kind \in {"swap", "batchSwap"} /\ frame.request # NoRequest =>
    translate(frame.request.assetIn) # translate(frame.request.assetOut)
BatchAddsUp ==
  frame.kind = "batchSwap" =>
    /\ IsFiniteSet(DOMAIN frame.limits)
    /\ \A t \in Tokens :
         PoolsCash(balances, t) - PoolsCash(saved.balances, t) = Net(frame.deltas, t)
    /\ \A a \in Assets \ DOMAIN frame.limits : frame.deltas[a] = 0
    /\ frame.request # NoRequest =>
         {frame.request.assetIn, frame.request.assetOut} \subseteq DOMAIN frame.limits
CallLedger == /\ SavedBacked /\ LoanAsMade /\ StoredAtReturn /\ AllTokensLimited
              /\ HopBetweenTwo /\ BatchAddsUp
MInv == Backed /\ CallLedger

\* Outside of calls nothing is pending, and nothing is recorded of a call.
LEMMA NothingPending ==
  ASSUME frame = Idle
  PROVE  CallLedger /\ \A t : Pending(t) = 0
BY DEF Idle, CallLedger, SavedBacked, LoanAsMade, StoredAtReturn, AllTokensLimited,
   HopBetweenTwo, BatchAddsUp, PoolBalanceChangeKinds, Pending

LEMMA CallOver == ASSUME frame' = Idle PROVE CallLedger' /\ \A t : Pending(t)' = 0
BY DEF Idle, CallLedger, SavedBacked, LoanAsMade, StoredAtReturn, AllTokensLimited,
   HopBetweenTwo, BatchAddsUp, PoolBalanceChangeKinds, Pending

LEMMA PendingTyped == ASSUME TypeOK, NEW t \in Tokens PROVE Pending(t) \in Int
<1>1. CASE frame.kind = "flashLoan" /\ t \in DOMAIN frame.amounts
  <2>1. frame.amounts[t] \in Nat
    BY <1>1, FrameKinds DEF LoanFrame, OfTokens
  <2> QED BY <1>1, <2>1 DEF Pending
<1>2. CASE frame.kind = "batchSwap"
  <2>1. frame.deltas[t] \in Int /\ frame.deltas[ETH] \in Int
    BY <1>2, FrameKinds, Inputs DEF BatchFrame
  <2> QED BY <1>2, <2>1 DEF Pending, AsToken
<1>3. CASE ~(frame.kind = "flashLoan" /\ t \in DOMAIN frame.amounts) /\ frame.kind # "batchSwap"
  BY <1>3 DEF Pending
<1> QED BY <1>1, <1>2, <1>3

\* Steps that store nothing, and tokens that come in as donations.
LEMMA MoneyStays ==
  ASSUME IInv, MInv, UNCHANGED <<balances, internal, callVars>>,
         \A t \in Tokens : held'[t] - donated'[t] = held[t] - donated[t],
         held' \in [Tokens -> Nat], donated' \in [Tokens -> Nat]
  PROVE  MInv'
<1>1. CallLedger'
  BY DEF MInv, CallLedger, SavedBacked, LoanAsMade, StoredAtReturn, AllTokensLimited,
     HopBetweenTwo, BatchAddsUp, LoanFee, callVars
<1>2. ASSUME NEW t \in Tokens
      PROVE  held'[t] + Pending(t)' = Claims(t)' + donated'[t]
  <2>1. Pending(t)' = Pending(t) /\ Claims(t)' = Claims(t)
    BY DEF Pending, Claims, callVars
  <2>2. held[t] + Pending(t) = Claims(t) + donated[t]
    BY DEF MInv, Backed
  <2>3. Claims(t) \in Int /\ held[t] \in Int /\ donated[t] \in Int
    BY SumsNow DEF IInv, Claims
  <2>4. held'[t] \in Int /\ donated'[t] \in Int
    OBVIOUS
  <2>5. Pending(t) \in Int
    BY PendingTyped DEF IInv
  <2> QED BY <2>1, <2>2, <2>3, <2>4, <2>5
<1> QED BY <1>1, <1>2 DEF MInv, Backed
-----------------------------------------------------------------------------
\* A call begins: what a revert would store is backed.
LEMMA MoneyWhenCallBegins ==
  ASSUME IInv, MInv, NEW entryPoint, NEW f, Enter(entryPoint, f),
         UNCHANGED <<balances, internal, donated>>
  PROVE  /\ SavedBacked' /\ StoredAtReturn' /\ frame = Idle /\ frame' = f
         /\ saved' = Snapshot
         /\ \A t \in Tokens : held[t] = Claims(t) + donated[t] /\ Claims(t)' = Claims(t)
<1>1. frame' = f /\ saved' = Snapshot /\ frame = Idle
  BY DEF Enter, MayCall, NotEntered
<1>2. \A t \in Tokens : held[t] = Claims(t) + donated[t]
  <2> SUFFICES ASSUME NEW t \in Tokens PROVE held[t] = Claims(t) + donated[t]
    OBVIOUS
  <2>1. held[t] + Pending(t) = Claims(t) + donated[t] /\ Pending(t) = 0
    BY <1>1, NothingPending DEF MInv, Backed
  <2> QED BY <2>1, SumsNow DEF IInv
<1>3. SavedBacked'
  BY <1>1, <1>2 DEF SavedBacked, Snapshot, Claims
<1>4. StoredAtReturn'
  BY <1>1 DEF StoredAtReturn, Snapshot
<1>5. \A t \in Tokens : Claims(t)' = Claims(t)
  BY DEF Claims
<1> QED BY <1>1, <1>2, <1>3, <1>4, <1>5

\* Calls that begin by lending nothing and noting nothing.
LEMMA PlainCallBegins ==
  ASSUME IInv, MInv, NEW entryPoint, NEW f, Enter(entryPoint, f),
         UNCHANGED <<balances, internal, donated, held>>,
         f.kind \in {"joinPool", "exitPool", "swap", "manageUserBalance", "managePoolBalance"},
         f.kind \in PoolBalanceChangeKinds => DOMAIN f.limits = DOMAIN f.cached,
         f.kind = "swap" => translate(f.request.assetIn) # translate(f.request.assetOut)
  PROVE  MInv'
<1>1. /\ SavedBacked' /\ StoredAtReturn' /\ frame' = f
      /\ \A t \in Tokens : held[t] = Claims(t) + donated[t] /\ Claims(t)' = Claims(t)
  BY MoneyWhenCallBegins
<1>2. LoanAsMade' /\ AllTokensLimited' /\ BatchAddsUp'
  BY <1>1 DEF LoanAsMade, AllTokensLimited, BatchAddsUp
<1>3. HopBetweenTwo'
  BY <1>1 DEF HopBetweenTwo
<1>4. \A t \in Tokens : Pending(t)' = 0
  BY <1>1 DEF Pending
<1>5. \A t \in Tokens : held'[t] + 0 = held[t]
  BY DEF IInv, TypeOK, TokensTyped
<1> QED BY <1>1, <1>2, <1>3, <1>4, <1>5 DEF MInv, CallLedger, Backed

\* joinPool and exitPool name a limit for each of the Pool's tokens.
LEMMA JoinOrExitMoney ==
  ASSUME IInv, MInv, NEW kind \in PoolBalanceChangeKinds, NEW caller, NEW sender,
         NEW recipient, NEW p, NEW limits, NEW useInternalBalance, NEW useEth, NEW value,
         JoinOrExit(kind, caller, sender, recipient, p, limits, useInternalBalance,
                    useEth, value)
  PROVE  MInv'
<1> DEFINE f == [kind |-> kind, caller |-> caller, sender |-> sender,
                 recipient |-> recipient, pool |-> p, limits |-> limits,
                 useInternalBalance |-> useInternalBalance,
                 useEth |-> useEth, value |-> value, cached |-> PoolBalancesOf(p)]
<1>1. Enter(kind, f) /\ UNCHANGED <<balances, internal, donated, held>>
  BY DEF JoinOrExit, tokenVars, ghostVars
<1>2. /\ f.kind \in {"joinPool", "exitPool"}
      /\ DOMAIN f.limits = DOMAIN f.cached
  BY DEF JoinOrExit, PoolBalancesOf, PoolBalanceChangeKinds
<1> HIDE DEF f
<1> QED BY <1>1, <1>2, PlainCallBegins

\* swap is between two tokens.
LEMMA SwapMoney ==
  ASSUME IInv, MInv, NEW caller, NEW sender, NEW recipient, NEW p, NEW kind,
         NEW assetIn, NEW assetOut, NEW amount, NEW limit, NEW fromInternal,
         NEW toInternal, NEW deadline, NEW value,
         swap(caller, sender, recipient, p, kind, assetIn, assetOut, amount, limit,
              fromInternal, toInternal, deadline, value)
  PROVE  MInv'
<1> DEFINE f == [kind |-> "swap", caller |-> caller, sender |-> sender,
                 recipient |-> recipient, fromInternal |-> fromInternal,
                 toInternal |-> toInternal, value |-> value,
                 swapKind |-> kind, limit |-> limit,
                 request |-> SwapRequest(p, assetIn, assetOut, amount)]
<1>1. Enter("swap", f) /\ UNCHANGED <<balances, internal, donated, held>>
  BY DEF swap, tokenVars, ghostVars
<1>2. f.kind = "swap" /\ translate(f.request.assetIn) # translate(f.request.assetOut)
  BY DEF swap, MaySwap, SwapRequest
<1>3. f.kind \notin PoolBalanceChangeKinds
  BY DEF PoolBalanceChangeKinds
<1> HIDE DEF f
<1> QED BY <1>1, <1>2, <1>3, PlainCallBegins

\* So do the lists of operations.
LEMMA ListMoney ==
  ASSUME IInv, MInv, NEW caller, NEW value,
         manageUserBalance(caller, value) \/ managePoolBalance(caller)
  PROVE  MInv'
<1>1. /\ UNCHANGED <<balances, internal, donated, held>>
      /\ \E f : /\ f.kind \in {"manageUserBalance", "managePoolBalance"}
                /\ \E entryPoint : Enter(entryPoint, f)
  BY DEF manageUserBalance, managePoolBalance, tokenVars, ghostVars
<1>2. PICK f, entryPoint : /\ f.kind \in {"manageUserBalance", "managePoolBalance"}
                           /\ Enter(entryPoint, f)
  BY <1>1
<1>3. f.kind \notin PoolBalanceChangeKinds
  BY <1>2 DEF PoolBalanceChangeKinds
<1> QED BY <1>1, <1>2, <1>3, PlainCallBegins

\* A batch begins with nothing noted.
LEMMA BatchMoney ==
  ASSUME IInv, MInv, NEW caller, NEW sender, NEW recipient, NEW kind,
         NEW limits \in [InputAssets -> DeltaLimits], NEW fromInternal, NEW toInternal,
         NEW deadline, NEW value,
         batchSwap(caller, sender, recipient, kind, limits, fromInternal,
                   toInternal, deadline, value)
  PROVE  MInv'
<1> DEFINE f == [kind |-> "batchSwap", caller |-> caller, sender |-> sender,
                 recipient |-> recipient, fromInternal |-> fromInternal,
                 toInternal |-> toInternal, value |-> value, swapKind |-> kind,
                 limits |-> limits, deltas |-> NoAmounts, steps |-> 0,
                 previous |-> NoHop, request |-> NoRequest]
<1>1. Enter("batchSwap", f) /\ UNCHANGED <<balances, internal, donated, held>>
  BY DEF batchSwap, tokenVars, ghostVars
<1>2. /\ f.kind = "batchSwap" /\ f.request = NoRequest /\ f.deltas = NoAmounts
      /\ DOMAIN f.limits = InputAssets
  OBVIOUS
<1> HIDE DEF f
<1>3. /\ SavedBacked' /\ StoredAtReturn' /\ frame' = f /\ saved' = Snapshot
      /\ \A t \in Tokens : held[t] = Claims(t) + donated[t] /\ Claims(t)' = Claims(t)
  BY <1>1, MoneyWhenCallBegins
<1>4. LoanAsMade' /\ AllTokensLimited' /\ HopBetweenTwo'
  BY <1>2, <1>3 DEF LoanAsMade, AllTokensLimited, HopBetweenTwo, PoolBalanceChangeKinds
<1>5. \A t \in Tokens : NoAmounts[t] = 0 /\ NoAmounts[ETH] = 0
  BY Inputs DEF NoAmounts
<1>6. BatchAddsUp'
  <2>1. IsFiniteSet(InputAssets)
    <3>1. IsFiniteSet(Assets)
      BY VaultAssumption, FS_AddElement DEF Assets
    <3> QED BY <3>1, Inputs, FS_Subset
  <2>2. ASSUME NEW t \in Tokens
        PROVE  PoolsCash(balances', t) - PoolsCash(saved'.balances, t) = Net(NoAmounts, t)
    <3>1. PoolsCash(balances, t) \in Int
      BY SumsNow DEF IInv
    <3>2. balances' = balances /\ saved'.balances = balances
      BY <1>1, <1>3 DEF Snapshot
    <3> QED BY <1>5, <3>1, <3>2 DEF Net, AsToken
  <2>3. \A a \in Assets : NoAmounts[a] = 0
    BY DEF NoAmounts
  <2> QED BY <1>2, <1>3, <2>1, <2>2, <2>3 DEF BatchAddsUp
<1>7. \A t \in Tokens : Pending(t)' = 0
  BY <1>2, <1>3, <1>5 DEF Pending, AsToken
<1>8. \A t \in Tokens : held'[t] + 0 = held[t]
  BY <1>1 DEF IInv, TypeOK, TokensTyped
<1> QED BY <1>1, <1>3, <1>4, <1>6, <1>7, <1>8 DEF MInv, CallLedger, Backed

\* A loan begins: what it lends is pending, at the fee of now.
LEMMA LoanMoney ==
  ASSUME IInv, MInv, NEW caller, NEW ts \in SUBSET Tokens, NEW amounts \in [ts -> Amounts],
         flashLoan(caller, amounts)
  PROVE  MInv'
<1> DEFINE f == [kind |-> "flashLoan", caller |-> caller, amounts |-> amounts,
                 fees |-> [t \in DOMAIN amounts |-> mulUp(amounts[t], FeePercentage(caller))],
                 preLoan |-> [t \in DOMAIN amounts |-> held[t]]]
<1>1. Enter("flashLoan", f) /\ UNCHANGED <<balances, internal, donated>>
  BY DEF flashLoan, ghostVars
<1>2. /\ f.kind = "flashLoan" /\ f.caller = caller /\ f.amounts = amounts
      /\ \A t \in DOMAIN amounts : /\ f.preLoan[t] = held[t]
                                   /\ f.fees[t] = mulUp(amounts[t], FeePercentage(caller))
  OBVIOUS
<1> HIDE DEF f
<1>3. /\ SavedBacked' /\ StoredAtReturn' /\ frame' = f /\ saved' = Snapshot
      /\ \A t \in Tokens : held[t] = Claims(t) + donated[t] /\ Claims(t)' = Claims(t)
  BY <1>1, MoneyWhenCallBegins
<1>4. AllTokensLimited' /\ HopBetweenTwo' /\ BatchAddsUp'
  BY <1>2, <1>3 DEF AllTokensLimited, HopBetweenTwo, BatchAddsUp, PoolBalanceChangeKinds
<1>5. LoanAsMade'
  <2>1. saved'.held = held /\ saved'.discounted = discounted /\ saved'.flashLoanFee = flashLoanFee
    BY <1>3 DEF Snapshot
  <2> QED BY <1>2, <1>3, <2>1 DEF LoanAsMade, LoanFee, FeePercentage
<1>6. ASSUME NEW t \in Tokens
      PROVE  held'[t] + Pending(t)' = Claims(t)' + donated'[t]
  <2>1. held[t] \in Int
    BY DEF IInv, TypeOK, TokensTyped
  <2>2. held'[t] = IF t \in DOMAIN amounts THEN held[t] - amounts[t] ELSE held[t]
    BY DEF flashLoan
  <2>3. Pending(t)' = IF t \in DOMAIN amounts THEN amounts[t] ELSE 0
    BY <1>2, <1>3 DEF Pending
  <2>4. t \in DOMAIN amounts => amounts[t] \in Int
    BY VaultAssumption
  <2>5. held'[t] + Pending(t)' = held[t]
    BY <2>1, <2>2, <2>3, <2>4
  <2> QED BY <1>1, <1>3, <2>5
<1> QED BY <1>3, <1>4, <1>5, <1>6 DEF MInv, CallLedger, Backed
-----------------------------------------------------------------------------
\* One asset's amount, in terms of tokens.
LEMMA NetOfOne ==
  ASSUME NEW a \in Assets, NEW n \in Nat, NEW t \in Tokens
  PROVE  Net([NoAmounts EXCEPT ![a] = n], t) = IF translate(a) = t THEN n ELSE 0
<1>1. [NoAmounts EXCEPT ![a] = n] = [b \in Assets |-> IF b = a THEN n ELSE 0]
  BY DEF NoAmounts
<1>2. t \in Assets /\ ETH \in Assets /\ t # ETH
  BY Inputs
<1> QED BY <1>1, <1>2 DEF Net, AsToken, translate

\* The amounts of a join or an exit, whether or not WETH goes as ETH.
LEMMA NetOfAssets ==
  ASSUME NEW amounts, OfTokens(amounts, Nat), NEW useEth \in BOOLEAN, NEW t \in Tokens
  PROVE  Net(AsAssets(amounts, useEth), t) = FeesOf(amounts)[t]
<1>1. t \in Assets /\ ETH \in Assets /\ t # ETH /\ ETH # WETH
  BY Inputs
<1>2. \A s \in DOMAIN amounts : amounts[s] \in Nat
  BY DEF OfTokens
<1>3. AsAssets(amounts, useEth)[ETH] = IF useEth /\ WETH \in DOMAIN amounts THEN amounts[WETH] ELSE 0
  BY <1>1 DEF AsAssets
<1>4. CASE t = WETH
  <2>1. AsAssets(amounts, useEth)[t] =
          IF useEth \/ WETH \notin DOMAIN amounts THEN 0 ELSE amounts[WETH]
    BY <1>1, <1>4 DEF AsAssets
  <2> QED BY <1>2, <1>3, <1>4, <2>1 DEF Net, AsToken, FeesOf
<1>5. CASE t # WETH
  <2>1. AsAssets(amounts, useEth)[t] = IF t \in DOMAIN amounts THEN amounts[t] ELSE 0
    BY <1>1, <1>5 DEF AsAssets
  <2> QED BY <1>2, <1>5, <2>1 DEF Net, AsToken, FeesOf
<1> QED BY <1>4, <1>5

\* No amounts come to nothing.
LEMMA NetOfNone == ASSUME NEW t \in Tokens PROVE Net(NoAmounts, t) = 0
BY Inputs DEF Net, NoAmounts, AsToken

LEMMA NetTyped ==
  ASSUME NEW amounts \in [Assets -> Int], NEW t \in Tokens
  PROVE  Net(amounts, t) \in Int
BY Inputs DEF Net, AsToken

\* A call returns: what it transferred is what it stored, and what was pending.
LEMMA ReturnBalances ==
  ASSUME IInv, MInv, NEW sender \in Users, NEW recipient \in Users,
         NEW amountsIn \in [Assets -> Nat], NEW amountsOut \in [Assets -> Nat],
         NEW fromInternal \in BOOLEAN, NEW toInternal \in BOOLEAN,
         NEW feeAmounts \in [Tokens -> Nat], NEW value,
         TransferAssets(sender, amountsIn, fromInternal, recipient, amountsOut,
                        toInternal, feeAmounts, value),
         Leave, UNCHANGED donated,
         \A t \in Tokens : PoolsCash(balances', t) =
           PoolsCash(balances, t) - Pending(t) + Net(amountsIn, t) - Net(amountsOut, t)
             - feeAmounts[t]
  PROVE  MInv'
<1>1. CallLedger' /\ \A t : Pending(t)' = 0
  BY CallOver DEF Leave
<1>2. ASSUME NEW t \in Tokens
      PROVE  held'[t] + 0 = PoolsCash(balances', t) + UsersBalance(internal', t) + donated[t]
  <2>1. /\ held'[t] - UsersBalance(internal', t)
             = held[t] - UsersBalance(internal, t)
                 + Net(amountsIn, t) - Net(amountsOut, t) - feeAmounts[t]
        /\ held'[t] \in Int /\ UsersBalance(internal', t) \in Int
    BY TransferNets DEF IInv
  <2>2. held[t] + Pending(t) = PoolsCash(balances, t) + UsersBalance(internal, t) + donated[t]
    BY DEF MInv, Backed, Claims
  <2>3. /\ PoolsCash(balances, t) \in Int /\ UsersBalance(internal, t) \in Int
        /\ held[t] \in Int /\ donated[t] \in Int /\ Pending(t) \in Int
    BY SumsNow, PendingTyped DEF IInv
  <2>4. Net(amountsIn, t) \in Int /\ Net(amountsOut, t) \in Int /\ feeAmounts[t] \in Int
    <3>1. amountsIn \in [Assets -> Int] /\ amountsOut \in [Assets -> Int]
      OBVIOUS
    <3> QED BY <3>1, NetTyped
  <2>5. PoolsCash(balances', t) = PoolsCash(balances, t) - Pending(t) + Net(amountsIn, t)
                                    - Net(amountsOut, t) - feeAmounts[t]
    OBVIOUS
  <2> QED BY <2>1, <2>2, <2>3, <2>4, <2>5
<1> QED BY <1>1, <1>2 DEF MInv, Backed, Claims
-----------------------------------------------------------------------------
\* The balances of one Pool are stored: its cash changes by the difference.
LEMMA StoredCash ==
  ASSUME IInv, NEW p \in Pools, NEW changed, DOMAIN changed \subseteq Tokens,
         \A t \in DOMAIN changed : changed[t] \in Balance,
         StoreBalances(p, changed), NEW t \in Tokens
  PROVE  /\ t \in DOMAIN changed => PoolsCash(balances', t) =
              PoolsCash(balances, t) - balances[p][t].cash + changed[t].cash
         /\ t \notin DOMAIN changed => PoolsCash(balances', t) = PoolsCash(balances, t)
         /\ balances[p][t].cash \in Nat
<1>1. balances \in Ledgers /\ BalancesTyped
  BY DEF IInv, TypeOK, BalancesTyped, Ledgers
<1>2. /\ balances' \in Ledgers
      /\ \A q \in Pools, s \in Tokens :
           balances'[q][s] = IF q = p /\ s \in DOMAIN changed THEN changed[s] ELSE balances[q][s]
  BY <1>1, Stored DEF BalancesTyped, Ledgers
<1>3. \A q \in Pools \ {p} : balances'[q][t].cash = balances[q][t].cash
  BY <1>2
<1>4. /\ PoolsCash(balances', t) = PoolsCash(balances, t) - balances[p][t].cash + balances'[p][t].cash
      /\ PoolsCash(balances, t) \in Int /\ balances[p][t].cash \in Nat
  BY <1>1, <1>2, <1>3, PoolsCashFollows
<1> QED BY <1>2, <1>4

\* What a join stores: as much as it brought in, less the fee.
LEMMA JoinStores ==
  ASSUME IInv, RInv, NEW amountsIn \in [DOMAIN frame.cached -> Amounts],
         NEW fees \in [DOMAIN frame.cached -> Amounts], JoinPoolReturn(amountsIn, fees),
         NEW t \in Tokens
  PROVE  PoolsCash(balances', t) = PoolsCash(balances, t) + FeesOf(amountsIn)[t] - FeesOf(fees)[t]
<1>1. JoinExitFrame(frame) /\ frame.kind = "joinPool"
  BY FrameKinds DEF JoinPoolReturn, PoolBalanceChangeKinds, IInv
<1>2. frame.pool \in Pools /\ OfTokens(frame.cached, Balance)
  BY <1>1 DEF JoinExitFrame
<1>3. \A s \in DOMAIN frame.cached : amountsIn[s] \in Nat /\ fees[s] \in Nat
  BY VaultAssumption
<1> DEFINE final == [s \in DOMAIN frame.cached |->
                       joinedBalance(frame.cached[s], amountsIn[s], fees[s])]
<1>4. ASSUME NEW s \in DOMAIN final
      PROVE  final[s] \in Balance /\ final[s].cash = frame.cached[s].cash + amountsIn[s] - fees[s]
  <2>1. Fits(joinedBalance(frame.cached[s], amountsIn[s], fees[s]))
    BY DEF JoinPoolReturn
  <2>2. frame.cached[s] \in Balance /\ clock \in Nat /\ frame.cached[s].cash \in Nat
    BY <1>2, VaultAssumption, TotalCapAssumption DEF OfTokens, IInv, TypeOK, PauseTyped, Balance
  <2>3. CASE amountsIn[s] >= fees[s]
    <3>1. amountsIn[s] - fees[s] \in Nat
      BY <1>3, <2>3
    <3>2. final[s] = increaseCash(frame.cached[s], amountsIn[s] - fees[s], clock)
      BY <2>3 DEF joinedBalance
    <3>3. final[s].cash = frame.cached[s].cash + (amountsIn[s] - fees[s])
      BY <3>2 DEF increaseCash, toBalance
    <3> QED BY <1>3, <2>1, <2>2, <3>1, <3>2, <3>3, BalanceOperations
  <2>4. CASE ~(amountsIn[s] >= fees[s])
    <3>1. fees[s] - amountsIn[s] \in Nat
      BY <1>3, <2>4
    <3>2. final[s] = decreaseCash(frame.cached[s], fees[s] - amountsIn[s], clock)
      BY <2>4 DEF joinedBalance
    <3>3. final[s].cash = frame.cached[s].cash - (fees[s] - amountsIn[s])
      BY <3>2 DEF decreaseCash, toBalance
    <3> QED BY <1>3, <2>1, <2>2, <3>1, <3>2, <3>3, BalanceOperations
  <2> QED BY <2>3, <2>4
<1>5. StoreBalances(frame.pool, final) /\ DOMAIN final \subseteq Tokens
  BY <1>2 DEF JoinPoolReturn, OfTokens
<1>6. DOMAIN final = DOMAIN frame.cached
  OBVIOUS
<1>7. \A s \in DOMAIN frame.cached : frame.cached[s] = balances[frame.pool][s]
  BY <1>1 DEF RInv, CachedBalancesCurrent, PoolBalancesOf
<1> HIDE DEF final
<1>8. /\ t \in DOMAIN final => PoolsCash(balances', t) =
           PoolsCash(balances, t) - balances[frame.pool][t].cash + final[t].cash
      /\ t \notin DOMAIN final => PoolsCash(balances', t) = PoolsCash(balances, t)
      /\ balances[frame.pool][t].cash \in Nat
  BY <1>2, <1>4, <1>5, StoredCash
<1>9. PoolsCash(balances, t) \in Int
  BY SumsNow DEF IInv
<1>10. CASE t \in DOMAIN frame.cached
  <2>1. FeesOf(amountsIn)[t] = amountsIn[t] /\ FeesOf(fees)[t] = fees[t]
    BY <1>10 DEF FeesOf
  <2>2. final[t].cash = balances[frame.pool][t].cash + amountsIn[t] - fees[t]
    BY <1>4, <1>6, <1>7, <1>10
  <2> QED BY <1>3, <1>6, <1>8, <1>9, <1>10, <2>1, <2>2
<1>11. CASE t \notin DOMAIN frame.cached
  <2>1. FeesOf(amountsIn)[t] = 0 /\ FeesOf(fees)[t] = 0
    BY <1>11 DEF FeesOf
  <2> QED BY <1>6, <1>8, <1>9, <1>11, <2>1
<1> QED BY <1>10, <1>11

\* What an exit stores: less by what it paid out, and by the fee.
LEMMA ExitStores ==
  ASSUME IInv, RInv, NEW amountsOut \in [DOMAIN frame.cached -> Amounts],
         NEW fees \in [DOMAIN frame.cached -> Amounts], ExitPoolReturn(amountsOut, fees),
         NEW t \in Tokens
  PROVE  PoolsCash(balances', t) = PoolsCash(balances, t) - FeesOf(amountsOut)[t] - FeesOf(fees)[t]
<1>1. JoinExitFrame(frame) /\ frame.kind = "exitPool"
  BY FrameKinds DEF ExitPoolReturn, PoolBalanceChangeKinds, IInv
<1>2. frame.pool \in Pools /\ OfTokens(frame.cached, Balance)
  BY <1>1 DEF JoinExitFrame
<1>3. \A s \in DOMAIN frame.cached : amountsOut[s] \in Nat /\ fees[s] \in Nat
  BY VaultAssumption
<1> DEFINE final == [s \in DOMAIN frame.cached |->
                       exitedBalance(frame.cached[s], amountsOut[s], fees[s])]
<1>4. ASSUME NEW s \in DOMAIN final
      PROVE  final[s] \in Balance /\ final[s].cash = frame.cached[s].cash - (amountsOut[s] + fees[s])
  <2>1. Fits(exitedBalance(frame.cached[s], amountsOut[s], fees[s]))
    BY DEF ExitPoolReturn
  <2>2. frame.cached[s] \in Balance /\ clock \in Nat
    BY <1>2, VaultAssumption DEF OfTokens, IInv, TypeOK, PauseTyped
  <2>3. amountsOut[s] + fees[s] \in Nat
    BY <1>3
  <2>4. final[s] = decreaseCash(frame.cached[s], amountsOut[s] + fees[s], clock)
    BY DEF exitedBalance
  <2>5. final[s].cash = frame.cached[s].cash - (amountsOut[s] + fees[s])
    BY <2>4 DEF decreaseCash, toBalance
  <2> QED BY <2>1, <2>2, <2>3, <2>4, <2>5, BalanceOperations
<1>5. StoreBalances(frame.pool, final) /\ DOMAIN final \subseteq Tokens
  BY <1>2 DEF ExitPoolReturn, OfTokens
<1>6. DOMAIN final = DOMAIN frame.cached
  OBVIOUS
<1>7. \A s \in DOMAIN frame.cached : frame.cached[s] = balances[frame.pool][s]
  BY <1>1 DEF RInv, CachedBalancesCurrent, PoolBalancesOf
<1> HIDE DEF final
<1>8. /\ t \in DOMAIN final => PoolsCash(balances', t) =
           PoolsCash(balances, t) - balances[frame.pool][t].cash + final[t].cash
      /\ t \notin DOMAIN final => PoolsCash(balances', t) = PoolsCash(balances, t)
      /\ balances[frame.pool][t].cash \in Nat
  BY <1>2, <1>4, <1>5, StoredCash
<1>9. PoolsCash(balances, t) \in Int
  BY SumsNow DEF IInv
<1>10. CASE t \in DOMAIN frame.cached
  <2>1. FeesOf(amountsOut)[t] = amountsOut[t] /\ FeesOf(fees)[t] = fees[t]
    BY <1>10 DEF FeesOf
  <2>2. final[t].cash = balances[frame.pool][t].cash - (amountsOut[t] + fees[t])
    BY <1>4, <1>6, <1>7, <1>10
  <2> QED BY <1>3, <1>6, <1>8, <1>9, <1>10, <2>1, <2>2
<1>11. CASE t \notin DOMAIN frame.cached
  <2>1. FeesOf(amountsOut)[t] = 0 /\ FeesOf(fees)[t] = 0
    BY <1>11 DEF FeesOf
  <2> QED BY <1>6, <1>8, <1>9, <1>11, <2>1
<1> QED BY <1>10, <1>11

\* Joins and exits return.
LEMMA JoinReturnMoney ==
  ASSUME IInv, RInv, MInv, NEW amountsIn \in [DOMAIN frame.cached -> Amounts],
         NEW fees \in [DOMAIN frame.cached -> Amounts], JoinPoolReturn(amountsIn, fees)
  PROVE  MInv'
<1> DEFINE amounts == AsAssets(amountsIn, frame.useEth)
           feeAmounts == FeesOf(fees)
           internally == FALSE
<1>1. JoinExitFrame(frame) /\ frame.kind = "joinPool"
  BY FrameKinds DEF JoinPoolReturn, PoolBalanceChangeKinds, IInv
<1>2. /\ frame.sender \in Users /\ frame.recipient \in Users
      /\ frame.useInternalBalance \in BOOLEAN /\ frame.useEth \in BOOLEAN
      /\ OfTokens(frame.cached, Balance)
  BY <1>1 DEF JoinExitFrame
<1>3. OfTokens(amountsIn, Nat) /\ OfTokens(fees, Nat)
  BY <1>2, VaultAssumption DEF OfTokens
<1>4. /\ amounts \in [Assets -> Nat]
      /\ NoAmounts \in [Assets -> Nat] /\ feeAmounts \in [Tokens -> Nat]
      /\ FeesOf(amountsIn) \in [Tokens -> Nat]
  BY <1>2, <1>3, AsAssetsTyped DEF NoAmounts
<1>5. /\ TransferAssets(frame.sender, amounts,
                        frame.useInternalBalance, frame.recipient, NoAmounts, internally,
                        feeAmounts, frame.value)
      /\ Leave /\ UNCHANGED donated
  BY DEF JoinPoolReturn, ghostVars
<1>6. ASSUME NEW t \in Tokens
      PROVE  PoolsCash(balances', t) =
               PoolsCash(balances, t) - Pending(t) + Net(amounts, t)
                 - Net(NoAmounts, t) - feeAmounts[t]
  <2>1. PoolsCash(balances', t) = PoolsCash(balances, t) + FeesOf(amountsIn)[t] - feeAmounts[t]
    BY JoinStores
  <2>2. Pending(t) = 0
    BY <1>1 DEF Pending
  <2>3. Net(amounts, t) = FeesOf(amountsIn)[t] /\ Net(NoAmounts, t) = 0
    BY <1>2, <1>3, NetOfAssets, NetOfNone
  <2>4. PoolsCash(balances, t) \in Int /\ FeesOf(amountsIn)[t] \in Int /\ feeAmounts[t] \in Int
    BY <1>4, SumsNow DEF IInv
  <2> QED BY <2>1, <2>2, <2>3, <2>4
<1>7. internally \in BOOLEAN
  OBVIOUS
<1> HIDE DEF amounts, feeAmounts, internally
<1> QED BY <1>2, <1>4, <1>5, <1>6, <1>7, ReturnBalances

LEMMA ExitReturnMoney ==
  ASSUME IInv, RInv, MInv, NEW amountsOut \in [DOMAIN frame.cached -> Amounts],
         NEW fees \in [DOMAIN frame.cached -> Amounts], ExitPoolReturn(amountsOut, fees)
  PROVE  MInv'
<1> DEFINE amounts == AsAssets(amountsOut, frame.useEth)
           feeAmounts == FeesOf(fees)
           internally == FALSE
<1>1. JoinExitFrame(frame) /\ frame.kind = "exitPool"
  BY FrameKinds DEF ExitPoolReturn, PoolBalanceChangeKinds, IInv
<1>2. /\ frame.sender \in Users /\ frame.recipient \in Users
      /\ frame.useInternalBalance \in BOOLEAN /\ frame.useEth \in BOOLEAN
      /\ OfTokens(frame.cached, Balance)
  BY <1>1 DEF JoinExitFrame
<1>3. OfTokens(amountsOut, Nat) /\ OfTokens(fees, Nat)
  BY <1>2, VaultAssumption DEF OfTokens
<1>4. /\ amounts \in [Assets -> Nat]
      /\ NoAmounts \in [Assets -> Nat] /\ feeAmounts \in [Tokens -> Nat]
      /\ FeesOf(amountsOut) \in [Tokens -> Nat]
  BY <1>2, <1>3, AsAssetsTyped DEF NoAmounts
<1>5. /\ TransferAssets(frame.sender, NoAmounts, internally, frame.recipient,
                        amounts, frame.useInternalBalance,
                        feeAmounts, frame.value)
      /\ Leave /\ UNCHANGED donated
  BY DEF ExitPoolReturn, ghostVars
<1>6. ASSUME NEW t \in Tokens
      PROVE  PoolsCash(balances', t) =
               PoolsCash(balances, t) - Pending(t) + Net(NoAmounts, t)
                 - Net(amounts, t) - feeAmounts[t]
  <2>1. PoolsCash(balances', t) = PoolsCash(balances, t) - FeesOf(amountsOut)[t] - feeAmounts[t]
    BY ExitStores
  <2>2. Pending(t) = 0
    BY <1>1 DEF Pending
  <2>3. Net(amounts, t) = FeesOf(amountsOut)[t] /\ Net(NoAmounts, t) = 0
    BY <1>2, <1>3, NetOfAssets, NetOfNone
  <2>4. PoolsCash(balances, t) \in Int /\ FeesOf(amountsOut)[t] \in Int /\ feeAmounts[t] \in Int
    BY <1>4, SumsNow DEF IInv
  <2> QED BY <2>1, <2>2, <2>3, <2>4
<1>7. internally \in BOOLEAN
  OBVIOUS
<1> HIDE DEF amounts, feeAmounts, internally
<1> QED BY <1>2, <1>4, <1>5, <1>6, <1>7, ReturnBalances
-----------------------------------------------------------------------------
\* What one asset's amount comes to in token t.
Part(asset, n, t) == IF translate(asset) = t THEN n ELSE 0

\* The Pool of a swap has more of the one token and less of the other.
LEMMA SwapStores ==
  ASSUME IInv, RInv, MInv, frame.kind \in {"swap", "batchSwap"},
         frame.request # NoRequest, Request(frame.request),
         NEW amounts \in [in: Nat, out: Nat], ProcessSwapRequest(frame.request, amounts),
         NEW t \in Tokens
  PROVE  PoolsCash(balances', t) = PoolsCash(balances, t)
           + Part(frame.request.assetIn, amounts.in, t)
           - Part(frame.request.assetOut, amounts.out, t)
<1> DEFINE r == frame.request
           tokenIn  == translate(r.assetIn)
           tokenOut == translate(r.assetOut)
           final == [s \in {tokenIn, tokenOut} |->
                       IF s = tokenIn
                         THEN increaseCash(r.cached[s], amounts.in, clock)
                         ELSE decreaseCash(r.cached[s], amounts.out, clock)]
<1>1. /\ \A s \in {tokenIn, tokenOut} : Fits(final[s])
      /\ StoreBalances(r.pool, final)
  BY DEF ProcessSwapRequest
<1>2. tokenIn \in Tokens /\ tokenOut \in Tokens /\ r.pool \in Pools
  BY Inputs DEF Request
<1>3. clock \in Nat /\ amounts.in \in Nat /\ amounts.out \in Nat
  BY VaultAssumption DEF IInv, TypeOK, PauseTyped
<1>4. DOMAIN r.cached = {tokenIn, tokenOut}
  BY DEF Request
<1>5. \A s \in {tokenIn, tokenOut} : r.cached[s] \in Balance
  BY <1>4 DEF Request, OfTokens
<1>6. tokenIn # tokenOut
  BY DEF MInv, CallLedger, HopBetweenTwo
<1>7. \A s \in {tokenIn, tokenOut} : r.cached[s] = balances[r.pool][s]
  BY <1>4 DEF RInv, CachedBalancesCurrent
<1>8. \A s \in DOMAIN final : final[s] \in Balance
  <2> HIDE DEF tokenIn, tokenOut
  <2> QED BY <1>1, <1>3, <1>5, BalanceOperations
<1>9. /\ final[tokenIn].cash = balances[r.pool][tokenIn].cash + amounts.in
      /\ final[tokenOut].cash = balances[r.pool][tokenOut].cash - amounts.out
  <2>1. /\ final[tokenIn] = increaseCash(balances[r.pool][tokenIn], amounts.in, clock)
        /\ final[tokenOut] = decreaseCash(balances[r.pool][tokenOut], amounts.out, clock)
    <3> HIDE DEF tokenIn, tokenOut
    <3> QED BY <1>6, <1>7
  <2> QED BY <2>1 DEF increaseCash, decreaseCash, toBalance
<1>10. DOMAIN final = {tokenIn, tokenOut}
  OBVIOUS
<1> HIDE DEF final
<1>11. /\ t \in DOMAIN final => PoolsCash(balances', t) =
            PoolsCash(balances, t) - balances[r.pool][t].cash + final[t].cash
       /\ t \notin DOMAIN final => PoolsCash(balances', t) = PoolsCash(balances, t)
       /\ balances[r.pool][t].cash \in Nat
  <2> HIDE DEF tokenIn, tokenOut, r
  <2> QED BY <1>1, <1>2, <1>8, <1>10, StoredCash
<1>12. PoolsCash(balances, t) \in Int
  BY SumsNow DEF IInv
<1>13. /\ Part(r.assetIn, amounts.in, t) = IF tokenIn = t THEN amounts.in ELSE 0
       /\ Part(r.assetOut, amounts.out, t) = IF tokenOut = t THEN amounts.out ELSE 0
  BY DEF Part
<1> HIDE DEF tokenIn, tokenOut
<1>14. CASE t = tokenIn
  BY <1>3, <1>6, <1>9, <1>10, <1>11, <1>12, <1>13, <1>14
<1>15. CASE t = tokenOut
  BY <1>3, <1>6, <1>9, <1>10, <1>11, <1>12, <1>13, <1>15
<1>16. CASE t \notin {tokenIn, tokenOut}
  BY <1>10, <1>11, <1>12, <1>13, <1>16
<1> QED BY <1>14, <1>15, <1>16

\* swap returns.
LEMMA SwapReturnMoney ==
  ASSUME IInv, RInv, MInv, NEW calculated \in Amounts, SwapReturn(calculated)
  PROVE  MInv'
<1> DEFINE request == frame.request
           amounts == getAmounts(frame.swapKind, request.amount, calculated)
           amountsIn == [NoAmounts EXCEPT ![request.assetIn] = amounts.in]
           amountsOut == [NoAmounts EXCEPT ![request.assetOut] = amounts.out]
<1>1. SwapFrame(frame) /\ frame.kind = "swap"
  BY FrameKinds DEF SwapReturn, IInv
<1>2. /\ frame.sender \in Users /\ frame.recipient \in Users
      /\ frame.fromInternal \in BOOLEAN /\ frame.toInternal \in BOOLEAN
      /\ Request(request) /\ request # NoRequest
  BY <1>1 DEF SwapFrame, Request, NoRequest
<1>3. /\ request.amount \in Nat /\ calculated \in Nat
      /\ request.assetIn \in Assets /\ request.assetOut \in Assets
  BY <1>2, VaultAssumption DEF Request
<1>4. amounts \in [in: Nat, out: Nat]
  BY <1>3, AmountsTyped
<1>5. /\ ProcessSwapRequest(request, amounts)
      /\ TransferAssets(frame.sender, amountsIn, frame.fromInternal, frame.recipient,
                        amountsOut, frame.toInternal, NoTokens, frame.value)
      /\ Leave /\ UNCHANGED donated
  BY DEF SwapReturn, ghostVars
<1> HIDE DEF amounts
<1>6. amountsIn \in [Assets -> Nat] /\ amountsOut \in [Assets -> Nat]
  <2> HIDE DEF request
  <2> QED BY <1>4 DEF NoAmounts
<1>7. NoTokens \in [Tokens -> Nat]
  BY DEF NoTokens
<1>8. ASSUME NEW t \in Tokens
      PROVE  PoolsCash(balances', t) =
               PoolsCash(balances, t) - Pending(t) + Net(amountsIn, t) - Net(amountsOut, t)
                 - NoTokens[t]
  <2>1. PoolsCash(balances', t) = PoolsCash(balances, t)
           + Part(request.assetIn, amounts.in, t) - Part(request.assetOut, amounts.out, t)
    BY <1>1, <1>2, <1>4, <1>5, SwapStores
  <2>2. /\ Net(amountsIn, t) = Part(request.assetIn, amounts.in, t)
        /\ Net(amountsOut, t) = Part(request.assetOut, amounts.out, t)
    BY <1>3, <1>4, NetOfOne DEF Part
  <2>3. Pending(t) = 0 /\ NoTokens[t] = 0
    BY <1>1 DEF Pending, NoTokens
  <2>4. PoolsCash(balances, t) \in Int /\ Net(amountsIn, t) \in Int /\ Net(amountsOut, t) \in Int
    <3>1. amountsIn \in [Assets -> Int] /\ amountsOut \in [Assets -> Int]
      BY <1>6
    <3> QED BY <3>1, SumsNow, NetTyped DEF IInv
  <2> HIDE DEF amountsIn, amountsOut, request
  <2> QED BY <2>1, <2>2, <2>3, <2>4
<1> HIDE DEF amountsIn, amountsOut, request
<1> QED BY <1>2, <1>5, <1>6, <1>7, <1>8, ReturnBalances
-----------------------------------------------------------------------------
\* A hop adds to the deltas what its Pool takes and gives.
LEMMA DeltasFollow ==
  ASSUME NEW deltas \in [Assets -> Int], NEW r, r.assetIn \in Assets, r.assetOut \in Assets,
         translate(r.assetIn) # translate(r.assetOut), NEW amounts \in [in: Nat, out: Nat]
  PROVE  /\ deltasAfter(deltas, r, amounts) \in [Assets -> Int]
         /\ \A a \in Assets \ {r.assetIn, r.assetOut} :
              deltasAfter(deltas, r, amounts)[a] = deltas[a]
         /\ \A t \in Tokens : Net(deltasAfter(deltas, r, amounts), t) =
              Net(deltas, t) + Part(r.assetIn, amounts.in, t) - Part(r.assetOut, amounts.out, t)
<1> DEFINE after == deltasAfter(deltas, r, amounts)
<1>1. r.assetIn # r.assetOut /\ amounts.in \in Nat /\ amounts.out \in Nat
  OBVIOUS
<1>2. /\ after \in [Assets -> Int]
      /\ \A a \in Assets :
           after[a] = deltas[a] + (IF a = r.assetIn THEN amounts.in ELSE 0)
                                - (IF a = r.assetOut THEN amounts.out ELSE 0)
  <2> DEFINE once == [deltas EXCEPT ![r.assetIn] = @ + amounts.in]
  <2>1. once \in [Assets -> Int] /\ once[r.assetIn] = deltas[r.assetIn] + amounts.in
        /\ \A a \in Assets \ {r.assetIn} : once[a] = deltas[a]
    BY <1>1
  <2>2. after = [once EXCEPT ![r.assetOut] = @ - amounts.out]
    BY DEF deltasAfter
  <2> HIDE DEF once, after
  <2>3. \A a \in Assets : deltas[a] \in Int /\ once[a] \in Int
    BY <2>1
  <2> QED BY <1>1, <2>1, <2>2, <2>3
<1> HIDE DEF after
<1>3. \A a \in Assets : deltas[a] \in Int
  OBVIOUS
<1>4. ASSUME NEW t \in Tokens
      PROVE  Net(after, t) = Net(deltas, t) + Part(r.assetIn, amounts.in, t)
                                            - Part(r.assetOut, amounts.out, t)
  <2>1. t \in Assets /\ ETH \in Assets /\ t # ETH
    BY Inputs
  <2>2. deltas[t] \in Int /\ deltas[ETH] \in Int
    BY <1>3, <2>1
  <2>3. CASE t = WETH
    BY <1>1, <1>2, <2>1, <2>2, <2>3 DEF Net, AsToken, Part, translate
  <2>4. CASE t # WETH
    BY <1>1, <1>2, <2>1, <2>2, <2>4 DEF Net, AsToken, Part, translate
  <2> QED BY <2>3, <2>4
<1>5. after \in [Assets -> Int] /\ \A a \in Assets \ {r.assetIn, r.assetOut} : after[a] = deltas[a]
  BY <1>1, <1>2, <1>3
<1> QED BY <1>4, <1>5 DEF after

\* A hop calls its Pool's hook: between two tokens that the batch limits.
LEMMA BatchStepMoney ==
  ASSUME IInv, MInv, NEW p \in Pools, NEW assetIn \in InputAssets,
         NEW assetOut \in InputAssets, NEW amount \in Amounts,
         BatchSwapStep(p, assetIn, assetOut, amount)
  PROVE  MInv'
<1> DEFINE request == SwapRequest(p, assetIn, assetOut, givenAmount(amount))
<1>1. BatchFrame(frame) /\ frame.kind = "batchSwap"
  BY FrameKinds DEF BatchSwapStep, IInv
<1>2. /\ frame' = [frame EXCEPT !.request = request]
      /\ UNCHANGED <<balances, internal, held, donated, saved>>
      /\ {assetIn, assetOut} \subseteq DOMAIN frame.limits
      /\ translate(assetIn) # translate(assetOut)
  BY DEF BatchSwapStep, MaySwap, tokenVars, ghostVars
<1>3. request.assetIn = assetIn /\ request.assetOut = assetOut
  BY DEF SwapRequest
<1> HIDE DEF request
<1>4. /\ frame'.kind = "batchSwap" /\ frame'.limits = frame.limits
      /\ frame'.deltas = frame.deltas /\ frame'.request = request
      /\ frame # Idle
  BY <1>1, <1>2 DEF BatchFrame, Idle
<1>5. CallLedger'
  <2>1. SavedBacked' /\ StoredAtReturn'
    BY <1>1, <1>2, <1>4 DEF MInv, CallLedger, SavedBacked, StoredAtReturn
  <2>2. LoanAsMade' /\ AllTokensLimited'
    BY <1>4 DEF LoanAsMade, AllTokensLimited, PoolBalanceChangeKinds
  <2>3. HopBetweenTwo'
    BY <1>2, <1>3, <1>4 DEF HopBetweenTwo
  <2>4. BatchAddsUp'
    BY <1>1, <1>2, <1>3, <1>4 DEF MInv, CallLedger, BatchAddsUp
  <2> QED BY <2>1, <2>2, <2>3, <2>4 DEF CallLedger
<1>6. ASSUME NEW t \in Tokens PROVE Pending(t)' = Pending(t) /\ Claims(t)' = Claims(t)
  BY <1>1, <1>2, <1>4 DEF Pending, Claims
<1> QED BY <1>2, <1>5, <1>6 DEF MInv, Backed

\* The hook returns: the Pool's new balances and the deltas say the same.
LEMMA BatchStepReturnMoney ==
  ASSUME IInv, RInv, MInv, NEW calculated \in Amounts, BatchSwapStepReturn(calculated)
  PROVE  MInv'
<1> DEFINE request == frame.request
           amounts == getAmounts(frame.swapKind, request.amount, calculated)
           deltas == deltasAfter(frame.deltas, request, amounts)
<1>1. BatchFrame(frame) /\ frame.kind = "batchSwap" /\ request # NoRequest
  BY FrameKinds DEF BatchSwapStepReturn, IInv
<1>2. Request(request) /\ frame.deltas \in [Assets -> Int]
  BY <1>1 DEF BatchFrame
<1>3. /\ request.amount \in Nat /\ calculated \in Nat
      /\ request.assetIn \in Assets /\ request.assetOut \in Assets
  BY <1>2, VaultAssumption DEF Request
<1>4. amounts \in [in: Nat, out: Nat]
  BY <1>3, AmountsTyped
<1>5. /\ ProcessSwapRequest(request, amounts)
      /\ UNCHANGED <<internal, held, donated, saved>>
      /\ frame'.kind = "batchSwap" /\ frame'.limits = frame.limits
      /\ frame'.deltas = deltas /\ frame'.request = NoRequest
  BY <1>1 DEF BatchSwapStepReturn, BatchFrame, tokenVars, ghostVars
<1> HIDE DEF amounts
<1>6. ASSUME NEW t \in Tokens
      PROVE  PoolsCash(balances', t) = PoolsCash(balances, t)
               + Part(request.assetIn, amounts.in, t) - Part(request.assetOut, amounts.out, t)
  BY <1>1, <1>2, <1>4, <1>5, SwapStores
<1>7. /\ deltas \in [Assets -> Int]
      /\ \A a \in Assets \ {request.assetIn, request.assetOut} : deltas[a] = frame.deltas[a]
      /\ \A t \in Tokens : Net(deltas, t) = Net(frame.deltas, t)
           + Part(request.assetIn, amounts.in, t) - Part(request.assetOut, amounts.out, t)
  <2>1. translate(request.assetIn) # translate(request.assetOut)
    BY <1>1 DEF MInv, CallLedger, HopBetweenTwo
  <2> HIDE DEF request
  <2> QED BY <1>2, <1>3, <1>4, <2>1, DeltasFollow
<1> HIDE DEF deltas
<1>8. /\ IsFiniteSet(DOMAIN frame.limits)
      /\ \A t \in Tokens :
           PoolsCash(balances, t) - PoolsCash(saved.balances, t) = Net(frame.deltas, t)
      /\ \A a \in Assets \ DOMAIN frame.limits : frame.deltas[a] = 0
      /\ {request.assetIn, request.assetOut} \subseteq DOMAIN frame.limits
  BY <1>1 DEF MInv, CallLedger, BatchAddsUp
<1>9. ASSUME NEW t \in Tokens
      PROVE  /\ Part(request.assetIn, amounts.in, t) \in Int
             /\ Part(request.assetOut, amounts.out, t) \in Int
             /\ Net(frame.deltas, t) \in Int /\ PoolsCash(balances, t) \in Int
             /\ PoolsCash(saved.balances, t) \in Int
             /\ held[t] \in Int /\ donated[t] \in Int /\ UsersBalance(internal, t) \in Int
  <2>1. amounts.in \in Int /\ amounts.out \in Int
    BY <1>4
  <2>2. frame # Idle
    BY <1>1 DEF Idle
  <2> QED BY <1>2, <2>1, <2>2, NetTyped, SumsNow DEF Part, IInv
<1> HIDE DEF request
<1>10. BatchAddsUp'
  <2>1. \A t \in Tokens :
          PoolsCash(balances', t) - PoolsCash(saved'.balances, t) = Net(deltas, t)
    <3> SUFFICES ASSUME NEW t \in Tokens
                 PROVE  PoolsCash(balances', t) - PoolsCash(saved'.balances, t) = Net(deltas, t)
      OBVIOUS
    <3>1. saved' = saved
      BY <1>5
    <3>2. PoolsCash(balances, t) - PoolsCash(saved.balances, t) = Net(frame.deltas, t)
      BY <1>8
    <3> QED BY <1>6, <1>7, <1>9, <3>1, <3>2
  <2>2. \A a \in Assets \ DOMAIN frame.limits : deltas[a] = 0
    BY <1>7, <1>8
  <2> QED BY <1>5, <1>8, <2>1, <2>2 DEF BatchAddsUp
<1>11. CallLedger'
  <2>1. SavedBacked' /\ StoredAtReturn'
    BY <1>1, <1>5 DEF MInv, CallLedger, SavedBacked, StoredAtReturn, Idle
  <2>2. LoanAsMade' /\ AllTokensLimited' /\ HopBetweenTwo'
    BY <1>5 DEF LoanAsMade, AllTokensLimited, HopBetweenTwo, PoolBalanceChangeKinds
  <2> QED BY <1>10, <2>1, <2>2 DEF CallLedger
<1>12. ASSUME NEW t \in Tokens
       PROVE  held'[t] + Pending(t)' = Claims(t)' + donated'[t]
  <2>1. Pending(t) = Net(frame.deltas, t) /\ Pending(t)' = Net(deltas, t)
    BY <1>1, <1>5 DEF Pending, Net
  <2>2. held[t] + Pending(t) = PoolsCash(balances, t) + UsersBalance(internal, t) + donated[t]
    BY DEF MInv, Backed, Claims
  <2>3. held'[t] = held[t] /\ donated'[t] = donated[t] /\ internal' = internal
    BY <1>5
  <2>4. held[t] + Net(deltas, t) =
          PoolsCash(balances', t) + UsersBalance(internal, t) + donated[t]
    BY <1>6, <1>7, <1>9, <2>1, <2>2
  <2> QED BY <2>1, <2>3, <2>4 DEF Claims
<1> QED BY <1>11, <1>12 DEF MInv, Backed

\* batchSwap returns: the differences are transferred, and no longer pending.
LEMMA BatchReturnMoney == ASSUME IInv, MInv, BatchSwapReturn PROVE MInv'
<1> DEFINE owed == [a \in Assets |-> IF frame.deltas[a] > 0 THEN frame.deltas[a] ELSE 0]
           due == [a \in Assets |-> IF frame.deltas[a] < 0 THEN -frame.deltas[a] ELSE 0]
<1>1. BatchFrame(frame) /\ frame.kind = "batchSwap"
  BY FrameKinds DEF BatchSwapReturn, IInv
<1>2. /\ frame.sender \in Users /\ frame.recipient \in Users
      /\ frame.fromInternal \in BOOLEAN /\ frame.toInternal \in BOOLEAN
      /\ frame.deltas \in [Assets -> Int]
  BY <1>1 DEF BatchFrame
<1>3. owed \in [Assets -> Nat] /\ due \in [Assets -> Nat] /\ NoTokens \in [Tokens -> Nat]
  BY <1>2 DEF NoTokens
<1>4. /\ TransferAssets(frame.sender, owed, frame.fromInternal, frame.recipient, due,
                        frame.toInternal, NoTokens, frame.value)
      /\ Leave /\ UNCHANGED <<balances, donated>>
  BY DEF BatchSwapReturn, ghostVars
<1>5. ASSUME NEW t \in Tokens
      PROVE  PoolsCash(balances', t) =
               PoolsCash(balances, t) - Pending(t) + Net(owed, t) - Net(due, t) - NoTokens[t]
  <2>1. Pending(t) = Net(frame.deltas, t) /\ NoTokens[t] = 0
    BY <1>1 DEF Pending, Net, NoTokens
  <2>2. t \in Assets /\ ETH \in Assets /\ frame.deltas[t] \in Int /\ frame.deltas[ETH] \in Int
    BY <1>2, Inputs
  <2>3. Net(owed, t) - Net(due, t) = Net(frame.deltas, t) /\ Net(owed, t) \in Int
        /\ Net(due, t) \in Int /\ Net(frame.deltas, t) \in Int
    <3>1. \A a \in Assets : frame.deltas[a] \in Int =>
            owed[a] - due[a] = frame.deltas[a] /\ owed[a] \in Int /\ due[a] \in Int
      OBVIOUS
    <3> HIDE DEF owed, due
    <3> QED BY <2>2, <3>1 DEF Net, AsToken
  <2>4. PoolsCash(balances, t) \in Int
    BY SumsNow DEF IInv
  <2>5. balances' = balances
    BY <1>4
  <2> HIDE DEF owed, due
  <2> QED BY <2>1, <2>3, <2>4, <2>5
<1> HIDE DEF owed, due
<1> QED BY <1>2, <1>3, <1>4, <1>5, ReturnBalances
-----------------------------------------------------------------------------
\* A loan returns: what it lent is back, and what came on top is not a donation.
LEMMA LoanReturnMoney == ASSUME IInv, MInv, FlashLoanReturn PROVE MInv'
<1>1. LoanFrame(frame) /\ frame.kind = "flashLoan" /\ frame # Idle
  BY FrameKinds DEF FlashLoanReturn, IInv, Idle
<1>2. CallLedger' /\ \A t : Pending(t)' = 0
  BY CallOver DEF FlashLoanReturn, Leave
<1>3. balances = saved.balances /\ internal = saved.internal
  BY <1>1 DEF MInv, CallLedger, StoredAtReturn
<1>4. ASSUME NEW t \in Tokens PROVE held'[t] + Pending(t)' = Claims(t)' + donated'[t]
  <2>1. /\ held[t] \in Int /\ donated[t] \in Int /\ saved.held[t] \in Int
        /\ saved.donated[t] \in Int /\ Claims(t) \in Int
    BY <1>1, SumsNow DEF IInv, Claims
  <2>2. Claims(t)' = Claims(t)
    BY DEF FlashLoanReturn, Claims
  <2>3. CASE t \in DOMAIN frame.amounts
    <3>1. frame.preLoan[t] = saved.held[t]
      BY <1>1, <2>3 DEF MInv, CallLedger, LoanAsMade
    <3>2. held'[t] = held[t] - (held[t] - frame.preLoan[t]) /\ donated'[t] = saved.donated[t]
      BY <2>3 DEF FlashLoanReturn, FeePaid
    <3>3. saved.held[t] = Claims(t) + saved.donated[t]
      BY <1>1, <1>3 DEF MInv, CallLedger, SavedBacked, Claims
    <3> QED BY <1>2, <2>1, <2>2, <3>1, <3>2, <3>3
  <2>4. CASE t \notin DOMAIN frame.amounts
    <3>1. held'[t] = held[t] - 0 /\ donated'[t] = donated[t]
      BY <2>4 DEF FlashLoanReturn, FeePaid
    <3>2. held[t] + Pending(t) = Claims(t) + donated[t] /\ Pending(t) = 0
      BY <1>1, <2>4 DEF MInv, Backed, Pending
    <3> QED BY <1>2, <2>1, <2>2, <3>1, <3>2
  <2> QED BY <2>3, <2>4
<1> QED BY <1>2, <1>4 DEF MInv, Backed

\* Internal Balance deposited or withdrawn comes with the token.
LEMMA UserOperationNets ==
  ASSUME IInv, NEW kind \in UserBalanceOpKinds, NEW asset \in InputAssets,
         NEW amount \in Amounts, NEW sender \in Users, NEW recipient \in Users,
         UserBalanceOp(kind, asset, amount, sender, recipient), NEW t \in Tokens
  PROVE  /\ held'[t] - UsersBalance(internal', t) = held[t] - UsersBalance(internal, t)
         /\ held'[t] \in Int /\ UsersBalance(internal', t) \in Int
<1>1. internal \in [Users -> [Tokens -> Nat]] /\ held \in [Tokens -> Nat]
  BY DEF IInv, TypeOK, InternalTyped, TokensTyped
<1>2. internal' \in [Users -> [Tokens -> Nat]] /\ held' \in [Tokens -> Nat]
  BY UserOperationMoves DEF InternalTyped, TokensTyped
<1>3. internal \in [Users -> [Tokens -> Int]] /\ internal' \in [Users -> [Tokens -> Int]]
  BY <1>1, <1>2
<1>4. amount \in Nat /\ translate(asset) \in Tokens
  BY VaultAssumption, Inputs
<1>5. /\ UsersBalance(internal, t) \in Int /\ UsersBalance(internal', t) \in Int
      /\ held[t] \in Int /\ held'[t] \in Int
  BY <1>1, <1>2, SumsTyped DEF Accounts
<1> DEFINE moved == IF t = translate(asset) THEN amount ELSE 0
<1>6. moved \in Int
  BY <1>4
<1>7. CASE kind = "DEPOSIT_INTERNAL"
  <2>1. deposit(asset, amount, recipient)
    BY <1>7 DEF UserBalanceOp
  <2>2. /\ internal' = [internal EXCEPT ![recipient][translate(asset)] = @ + amount]
        /\ held' = [held EXCEPT ![translate(asset)] = @ + amount]
    BY <2>1 DEF deposit, Credit
  <2>3. /\ \A v \in Users \ {recipient} : internal'[v][t] = internal[v][t]
        /\ internal'[recipient][t] = internal[recipient][t] + moved
        /\ held'[t] = held[t] + moved
    BY <1>1, <1>4, <2>2
  <2> HIDE DEF moved
  <2>4. /\ UsersBalance(internal', t) =
             UsersBalance(internal, t) - internal[recipient][t] + internal'[recipient][t]
        /\ internal[recipient][t] \in Int
    BY <1>3, <2>3, UsersBalanceFollows
  <2> QED BY <1>5, <1>6, <2>3, <2>4
<1>8. CASE kind = "WITHDRAW_INTERNAL"
  <2>1. withdraw(asset, amount, sender)
    BY <1>8 DEF UserBalanceOp
  <2>2. /\ internal' = [internal EXCEPT ![sender][translate(asset)] = @ - amount]
        /\ held' = [held EXCEPT ![translate(asset)] = @ - amount]
    BY <2>1 DEF withdraw, Debit
  <2>3. /\ \A v \in Users \ {sender} : internal'[v][t] = internal[v][t]
        /\ internal'[sender][t] = internal[sender][t] - moved
        /\ held'[t] = held[t] - moved
    BY <1>1, <1>4, <2>2
  <2> HIDE DEF moved
  <2>4. /\ UsersBalance(internal', t) =
             UsersBalance(internal, t) - internal[sender][t] + internal'[sender][t]
        /\ internal[sender][t] \in Int
    BY <1>3, <2>3, UsersBalanceFollows
  <2> QED BY <1>5, <1>6, <2>3, <2>4
<1>9. CASE kind = "TRANSFER_INTERNAL"
  <2> DEFINE n == [NoTokens EXCEPT ![asset] = amount]
  <2>1. transferInternal(asset, amount, sender, recipient)
    BY <1>9 DEF UserBalanceOp
  <2>2. internal' = InternalAfter(sender, n, recipient, n) /\ held' = held
    BY <2>1 DEF transferInternal
  <2>3. n \in [Tokens -> Nat]
    BY <1>4 DEF NoTokens
  <2>4. n[t] \in Int
    BY <2>3
  <2> HIDE DEF n
  <2>5. UsersBalance(internal', t) = UsersBalance(internal, t) - n[t] + n[t]
    BY <2>2, <2>3, UsersBalanceTransfer DEF IInv
  <2> QED BY <1>5, <2>2, <2>4, <2>5
<1>10. CASE kind = "TRANSFER_EXTERNAL"
  <2>1. UNCHANGED <<internal, held>>
    BY <1>10 DEF UserBalanceOp
  <2> QED BY <1>5, <2>1
<1> QED BY <1>7, <1>8, <1>9, <1>10 DEF UserBalanceOpKinds

LEMMA UserOperationMoney ==
  ASSUME IInv, MInv, NEW kind \in UserBalanceOpKinds, NEW asset \in InputAssets,
         NEW amount \in Amounts, NEW sender \in Users, NEW recipient \in Users,
         UserBalanceOp(kind, asset, amount, sender, recipient)
  PROVE  MInv'
<1>1. frame \in UserFrames /\ frame.kind = "manageUserBalance" /\ frame # Idle
  BY FrameKinds DEF UserBalanceOp, IInv, Idle
<1>2. frame'.kind = "manageUserBalance" /\ UNCHANGED <<balances, donated, saved>>
  BY <1>1 DEF UserBalanceOp, UserFrames, ghostVars
<1>3. CallLedger'
  <2>1. SavedBacked' /\ StoredAtReturn'
    BY <1>1, <1>2 DEF MInv, CallLedger, SavedBacked, StoredAtReturn
  <2>2. LoanAsMade' /\ AllTokensLimited' /\ HopBetweenTwo' /\ BatchAddsUp'
    BY <1>2 DEF LoanAsMade, AllTokensLimited, HopBetweenTwo, BatchAddsUp,
       PoolBalanceChangeKinds
  <2> QED BY <2>1, <2>2 DEF CallLedger
<1>4. ASSUME NEW t \in Tokens PROVE held'[t] + Pending(t)' = Claims(t)' + donated'[t]
  <2>1. Pending(t) = 0 /\ Pending(t)' = 0
    BY <1>1, <1>2 DEF Pending
  <2>2. held[t] + 0 = PoolsCash(balances, t) + UsersBalance(internal, t) + donated[t]
    BY <2>1 DEF MInv, Backed, Claims
  <2>3. /\ Claims(t)' = PoolsCash(balances, t) + UsersBalance(internal', t)
        /\ donated'[t] = donated[t]
    BY <1>2 DEF Claims
  <2>4. /\ held'[t] - UsersBalance(internal', t) = held[t] - UsersBalance(internal, t)
        /\ held'[t] \in Int /\ UsersBalance(internal', t) \in Int
    BY UserOperationNets
  <2>5. /\ PoolsCash(balances, t) \in Int /\ UsersBalance(internal, t) \in Int
        /\ held[t] \in Int /\ donated[t] \in Int
    BY SumsNow DEF IInv
  <2> QED BY <2>1, <2>2, <2>3, <2>4, <2>5
<1> QED BY <1>3, <1>4 DEF MInv, Backed

\* Storing one token's balance, as managers do, leaves the others' cash.
LEMMA StoredOneCash ==
  ASSUME IInv, NEW p \in Pools, NEW t \in Tokens, NEW b \in Balance, StoreBalance(p, t, b),
         NEW u \in Tokens
  PROVE  PoolsCash(balances', u) =
           PoolsCash(balances, u) + IF u = t THEN b.cash - balances[p][t].cash ELSE 0
<1>1. balances \in Ledgers /\ BalancesTyped
  BY DEF IInv, TypeOK, BalancesTyped, Ledgers
<1>2. balances' \in Ledgers
  BY <1>1, StoredOne DEF BalancesTyped, Ledgers
<1>3. /\ \A q \in Pools \ {p} : balances'[q][u] = balances[q][u]
      /\ u = t => balances'[p][u] = b
      /\ u # t => \/ balances'[p][u] = balances[p][u]
                  \/ balances'[p][u] = sharingBlock(balances[p][u], b)
  BY <1>1 DEF StoreBalance, Ledgers
<1>4. balances[p][u] \in Balance
  BY <1>1 DEF Ledgers
<1>5. u # t => balances'[p][u].cash = balances[p][u].cash
  BY <1>3, <1>4 DEF sharingBlock, Balance
<1>6. \A q \in Pools \ {p} : balances'[q][u].cash = balances[q][u].cash
  BY <1>3
<1>7. /\ PoolsCash(balances', u) =
           PoolsCash(balances, u) - balances[p][u].cash + balances'[p][u].cash
      /\ PoolsCash(balances, u) \in Int /\ balances[p][u].cash \in Int
      /\ balances'[p][u].cash \in Int
  BY <1>1, <1>2, <1>6, PoolsCashFollows
<1> QED BY <1>3, <1>5, <1>7

\* Cash that a manager takes or brings back comes with the token.
LEMMA ManagerOperationNets ==
  ASSUME IInv, NEW kind \in PoolBalanceOpKinds, NEW p \in Pools, NEW t \in Tokens,
         NEW amount \in Amounts, PoolBalanceOp(kind, p, t, amount), NEW u \in Tokens
  PROVE  held'[u] - PoolsCash(balances', u) = held[u] - PoolsCash(balances, u)
<1>1. balances[p][t] \in Balance /\ amount \in Nat /\ clock \in Nat
  BY VaultAssumption DEF IInv, TypeOK, BalancesTyped, PauseTyped
<1>2. balances[p][t].cash \in Int
  BY <1>1, TotalCapAssumption DEF Balance
<1>3. held \in [Tokens -> Nat] /\ PoolsCash(balances, u) \in Int
  BY SumsNow DEF IInv, TypeOK, TokensTyped
<1>4. CASE kind = "WITHDRAW"
  <2> DEFINE b == cashToManaged(balances[p][t], amount)
  <2>1. Fits(b) /\ StoreBalance(p, t, b) /\ held' = [held EXCEPT ![t] = @ - amount]
    BY <1>4 DEF PoolBalanceOp, withdrawPoolBalance
  <2>2. b \in Balance
    BY <1>1, <2>1, BalanceOperations
  <2>3. b.cash = balances[p][t].cash - amount
    BY DEF cashToManaged, toBalance
  <2> HIDE DEF b
  <2>4. PoolsCash(balances', u) =
          PoolsCash(balances, u) + IF u = t THEN b.cash - balances[p][t].cash ELSE 0
    BY <2>1, <2>2, StoredOneCash
  <2> QED BY <1>1, <1>2, <1>3, <2>1, <2>3, <2>4
<1>5. CASE kind = "DEPOSIT"
  <2> DEFINE b == managedToCash(balances[p][t], amount)
  <2>1. Fits(b) /\ StoreBalance(p, t, b) /\ held' = [held EXCEPT ![t] = @ + amount]
    BY <1>5 DEF PoolBalanceOp, depositPoolBalance
  <2>2. b \in Balance
    BY <1>1, <2>1, BalanceOperations
  <2>3. b.cash = balances[p][t].cash + amount
    BY DEF managedToCash, toBalance
  <2> HIDE DEF b
  <2>4. PoolsCash(balances', u) =
          PoolsCash(balances, u) + IF u = t THEN b.cash - balances[p][t].cash ELSE 0
    BY <2>1, <2>2, StoredOneCash
  <2> QED BY <1>1, <1>2, <1>3, <2>1, <2>3, <2>4
<1>6. CASE kind = "UPDATE"
  <2> DEFINE b == setManaged(balances[p][t], amount, clock)
  <2>1. Fits(b) /\ StoreBalance(p, t, b) /\ held' = held
    BY <1>6 DEF PoolBalanceOp, updateManagedBalance
  <2>2. b \in Balance
    BY <1>1, <2>1, BalanceOperations
  <2>3. b.cash = balances[p][t].cash
    BY DEF setManaged, toBalance
  <2> HIDE DEF b
  <2>4. PoolsCash(balances', u) =
          PoolsCash(balances, u) + IF u = t THEN b.cash - balances[p][t].cash ELSE 0
    BY <2>1, <2>2, StoredOneCash
  <2> QED BY <1>1, <1>2, <1>3, <2>1, <2>3, <2>4
<1> QED BY <1>4, <1>5, <1>6 DEF PoolBalanceOpKinds

LEMMA ManagerOperationMoney ==
  ASSUME IInv, MInv, NEW kind \in PoolBalanceOpKinds, NEW p \in Pools, NEW t \in Tokens,
         NEW amount \in Amounts, PoolBalanceOp(kind, p, t, amount)
  PROVE  MInv'
<1>1. frame \in ManagerFrames /\ frame.kind = "managePoolBalance" /\ frame # Idle
  BY FrameKinds DEF PoolBalanceOp, IInv, Idle
<1>2. frame'.kind = "managePoolBalance" /\ UNCHANGED <<internal, donated, saved>>
  BY <1>1 DEF PoolBalanceOp, ManagerFrames, ghostVars
<1>3. CallLedger'
  <2>1. SavedBacked' /\ StoredAtReturn'
    BY <1>1, <1>2 DEF MInv, CallLedger, SavedBacked, StoredAtReturn
  <2>2. LoanAsMade' /\ AllTokensLimited' /\ HopBetweenTwo' /\ BatchAddsUp'
    BY <1>2 DEF LoanAsMade, AllTokensLimited, HopBetweenTwo, BatchAddsUp,
       PoolBalanceChangeKinds
  <2> QED BY <2>1, <2>2 DEF CallLedger
<1>4. balances' \in Ledgers /\ held' \in [Tokens -> Nat]
  <2>1. TokensTyped' /\ BalancesTyped'
    BY ManagerOperationMoves, StoredOne DEF IInv, TypeOK
  <2> QED BY <2>1 DEF TokensTyped, BalancesTyped, Ledgers
<1>5. ASSUME NEW u \in Tokens PROVE held'[u] + Pending(u)' = Claims(u)' + donated'[u]
  <2>1. Pending(u) = 0 /\ Pending(u)' = 0
    BY <1>1, <1>2 DEF Pending
  <2>2. held[u] + 0 = PoolsCash(balances, u) + UsersBalance(internal, u) + donated[u]
    BY <2>1 DEF MInv, Backed, Claims
  <2>3. /\ Claims(u)' = PoolsCash(balances', u) + UsersBalance(internal, u)
        /\ donated'[u] = donated[u]
    BY <1>2 DEF Claims
  <2>4. PoolsCash(balances', u) \in Int /\ held'[u] \in Int
    BY <1>4, SumsTyped
  <2>5. held'[u] - PoolsCash(balances', u) = held[u] - PoolsCash(balances, u)
    BY ManagerOperationNets
  <2> QED BY <2>1, <2>2, <2>3, <2>4, <2>5, SumsNow DEF IInv
<1> QED BY <1>3, <1>5 DEF MInv, Backed

\* The lists of operations end with nothing pending.
LEMMA ListReturnMoney ==
  ASSUME IInv, MInv, ManageUserBalanceReturn \/ ManagePoolBalanceReturn
  PROVE  MInv'
<1>1. /\ frame.kind \in {"manageUserBalance", "managePoolBalance"} /\ frame' = Idle
      /\ UNCHANGED <<balances, internal, held, donated>>
  BY DEF ManageUserBalanceReturn, ManagePoolBalanceReturn, Leave, tokenVars, ghostVars
<1>2. CallLedger' /\ \A t : Pending(t)' = 0 /\ Pending(t) = 0
  <2>1. \A t : Pending(t) = 0
    BY <1>1 DEF Pending
  <2> QED BY <1>1, <2>1, CallOver
<1>3. \A t : Claims(t)' = Claims(t)
  BY <1>1 DEF Claims
<1> QED BY <1>1, <1>2, <1>3 DEF MInv, Backed
-----------------------------------------------------------------------------
\* Tokens are deregistered without a balance: no claim goes with them.
LEMMA RegistryMoney == ASSUME IInv, MInv, Registry PROVE MInv'
<1>1. /\ frame = Idle /\ frame' = Idle /\ UNCHANGED <<internal, held, donated>>
      /\ \A t \in Tokens : PoolsCash(balances', t) = PoolsCash(balances, t)
  <2>1. ASSUME NEW p \in Pools,
               \/ registerPool(p)
               \/ \E ts, manager : registerTokens(p, ts, manager)
        PROVE  frame = Idle /\ UNCHANGED <<balances, internal, held, donated, callVars>>
    BY <2>1 DEF registerPool, registerTokens, MayCall, NotEntered, tokenVars, ghostVars
  <2>2. ASSUME NEW p \in Pools, NEW ts \in SUBSET Tokens, deregisterTokens(p, ts)
        PROVE  /\ frame = Idle /\ UNCHANGED <<internal, held, donated, callVars>>
               /\ \A t \in Tokens : PoolsCash(balances', t) = PoolsCash(balances, t)
    <3>1. frame = Idle /\ UNCHANGED <<internal, held, donated, callVars>>
      BY <2>2 DEF deregisterTokens, MayCall, NotEntered, tokenVars, ghostVars
    <3>2. balances \in [Pools -> [Tokens -> Balance]]
      BY DEF IInv, TypeOK, BalancesTyped
    <3>3. \A q \in Pools, t \in Tokens :
            balances'[q][t] = IF q = p /\ t \in ts THEN EmptyBalance ELSE balances[q][t]
      BY <2>2, <3>2 DEF deregisterTokens
    <3>4. \A t \in ts : balances[p][t].cash = 0
      BY <2>2 DEF deregisterTokens, MayDeregister, isZero
    <3>5. \A q \in Pools, t \in Tokens : balances'[q][t].cash = balances[q][t].cash
      BY <3>3, <3>4 DEF EmptyBalance
    <3> QED BY <3>1, <3>5, PoolsCashStays
  <2>3. CASE \E p \in Pools : \/ registerPool(p)
                              \/ \E ts, manager : registerTokens(p, ts, manager)
    BY <2>1, <2>3 DEF callVars
  <2>4. CASE \E p \in Pools, ts \in SUBSET Tokens : deregisterTokens(p, ts)
    BY <2>2, <2>4 DEF callVars
  <2> QED BY <2>3, <2>4 DEF Registry
<1>2. CallLedger' /\ \A t : Pending(t)' = 0 /\ Pending(t) = 0
  BY <1>1, CallOver, NothingPending
<1>3. \A t \in Tokens : Claims(t)' = Claims(t)
  BY <1>1 DEF Claims
<1> QED BY <1>1, <1>2, <1>3 DEF MInv, Backed

\* What goes on besides calls: a donation is noted as such.
LEMMA BystandersMoney ==
  ASSUME IInv, MInv, Collector \/ Administration \/ World \/ UNCHANGED vars
  PROVE  MInv'
<1>1. held \in [Tokens -> Nat] /\ donated \in [Tokens -> Nat]
  BY DEF IInv, TypeOK, TokensTyped, GhostTyped
<1>2. CASE Collector
  <2>1. UNCHANGED <<balances, internal, callVars, held, donated>>
    BY <1>2 DEF Collector, withdrawCollectedFees, setFlashLoanFeePercentage,
       setFlashLoanFeeDiscount, tokenVars, ghostVars
  <2> QED BY <1>1, <2>1, MoneyStays
<1>3. CASE Administration
  <2>1. UNCHANGED <<balances, internal, callVars, held, donated>>
    BY <1>3 DEF Administration, setRelayerApproval, setPaused, tokenVars, ghostVars
  <2> QED BY <1>1, <2>1, MoneyStays
<1>4. ASSUME NEW t \in Tokens, NEW amount \in Amounts, Donate(t, amount)
      PROVE  MInv'
  <2>1. /\ UNCHANGED <<balances, internal, callVars>> /\ amount \in Nat
        /\ held' = [held EXCEPT ![t] = @ + amount]
        /\ donated' = [donated EXCEPT ![t] = @ + amount]
    BY <1>4, VaultAssumption DEF Donate
  <2>2. held' \in [Tokens -> Nat] /\ donated' \in [Tokens -> Nat]
    BY <1>1, <2>1, TokenMoved
  <2>3. ASSUME NEW s \in Tokens PROVE held'[s] - donated'[s] = held[s] - donated[s]
    <3>1. held[s] \in Int /\ donated[s] \in Int
      BY <1>1
    <3>2. /\ held'[s] = held[s] + (IF s = t THEN amount ELSE 0)
          /\ donated'[s] = donated[s] + (IF s = t THEN amount ELSE 0)
      BY <1>1, <2>1, <3>1
    <3> QED BY <2>1, <3>1, <3>2
  <2> QED BY <2>1, <2>2, <2>3, MoneyStays
<1>5. CASE World /\ ~\E t \in Tokens, amount \in Amounts : Donate(t, amount)
  <2>1. UNCHANGED <<balances, internal, callVars, held, donated>>
    BY <1>5 DEF World, Distribute, ForceEth, AuthorizerChanges, Sign, NextBlock, tokenVars,
       ghostVars
  <2> QED BY <1>1, <2>1, MoneyStays
<1>6. CASE UNCHANGED vars
  <2>1. UNCHANGED <<balances, internal, callVars, held, donated>>
    BY <1>6 DEF vars, tokenVars, ghostVars
  <2> QED BY <1>1, <2>1, MoneyStays
<1> QED BY <1>2, <1>3, <1>4, <1>5, <1>6 DEF World

\* A revert stores what was backed when the call began.
LEMMA RevertMoney == ASSUME IInv, MInv, Revert PROVE MInv'
<1>1. CallLedger' /\ \A t : Pending(t)' = 0
  BY CallOver DEF Revert, Leave
<1>2. ASSUME NEW t \in Tokens PROVE held'[t] + Pending(t)' = Claims(t)' + donated'[t]
  <2>1. /\ held' = saved.held /\ donated' = saved.donated /\ frame # Idle
        /\ balances' = saved.balances /\ internal' = saved.internal
    BY DEF Revert
  <2>2. saved.held[t] = PoolsCash(saved.balances, t) + UsersBalance(saved.internal, t)
                          + saved.donated[t]
    BY <2>1 DEF MInv, CallLedger, SavedBacked
  <2>3. saved.held[t] \in Int
    BY <2>1, SumsNow DEF IInv
  <2> QED BY <1>1, <2>1, <2>2, <2>3 DEF Claims
<1> QED BY <1>1, <1>2 DEF MInv, Backed
-----------------------------------------------------------------------------
\* Every step keeps the money accounted for.
LEMMA MoneyInductive == MInv /\ RInv /\ IInv /\ [Next]_vars => MInv'
<1> SUFFICES ASSUME MInv, RInv, IInv, [Next]_vars PROVE MInv'
  OBVIOUS
<1>1. CASE Registry
  BY <1>1, RegistryMoney
<1>2. CASE JoinsAndExits
  BY <1>2, JoinOrExitMoney, JoinReturnMoney, ExitReturnMoney DEF JoinsAndExits
<1>3. CASE SwapCalls
  <2>1. PICK caller, sender, recipient, kind, fromInternal, toInternal, deadline, value :
          \/ \E p \in Pools, assetIn, assetOut \in InputAssets, amount \in Amounts,
                limit \in Limits :
               swap(caller, sender, recipient, p, kind, assetIn, assetOut, amount,
                    limit, fromInternal, toInternal, deadline, value)
          \/ \E limits \in [InputAssets -> DeltaLimits] :
               batchSwap(caller, sender, recipient, kind, limits, fromInternal,
                         toInternal, deadline, value)
    BY <1>3 DEF SwapCalls
  <2> QED BY <2>1, SwapMoney, BatchMoney
<1>4. CASE SwapReturns
  BY <1>4, SwapReturnMoney, BatchStepMoney, BatchStepReturnMoney, BatchReturnMoney
  DEF SwapReturns
<1>5. CASE Loans
  BY <1>5, LoanMoney, LoanReturnMoney DEF Loans
<1>6. CASE UserOperations
  BY <1>6, ListMoney, UserOperationMoney, ListReturnMoney DEF UserOperations
<1>7. CASE ManagerOperations
  BY <1>7, ListMoney, ManagerOperationMoney, ListReturnMoney DEF ManagerOperations
<1>8. CASE Collector \/ Administration \/ World \/ UNCHANGED vars
  BY <1>8, BystandersMoney
<1>9. CASE Revert
  BY <1>9, RevertMoney
<1> QED BY <1>1, <1>2, <1>3, <1>4, <1>5, <1>6, <1>7, <1>8, <1>9 DEF Next

\* The constructor: there is no money yet.
LEMMA MoneyInitial == Init => MInv
<1> SUFFICES ASSUME Init PROVE MInv
  OBVIOUS
<1>1. frame = Idle /\ held = NoTokens /\ donated = NoTokens
  BY DEF Init
<1>2. CallLedger /\ \A t : Pending(t) = 0
  BY <1>1, NothingPending
<1>3. ASSUME NEW t \in Tokens PROVE Claims(t) = 0
  <2> DEFINE f == [p \in Pools |-> balances[p][t].cash]
             g == [u \in Users |-> internal[u][t]]
  <2>1. f \in [Pools -> Int] /\ \A p \in Pools : f[p] = 0
    BY DEF Init, EmptyBalance
  <2>2. g \in [Users -> Int] /\ \A u \in Users : g[u] = 0
    BY DEF Init, NoTokens
  <2>3. IsFiniteSet(Pools) /\ IsFiniteSet(Users)
    BY VaultAssumption
  <2> HIDE DEF f, g
  <2>4. SumFunction(f) = 0 /\ SumFunction(g) = 0
    BY <2>1, <2>2, <2>3, SumOfZeros
  <2> QED BY <2>4 DEF f, g, Claims, PoolsCash, UsersBalance
<1>4. \A t \in Tokens : held[t] = 0 /\ donated[t] = 0
  BY <1>1 DEF NoTokens
<1> QED BY <1>2, <1>3, <1>4 DEF MInv, Backed

LEMMA MoneyInvariance == Spec => []MInv
BY MoneyInitial, MoneyInductive, RegistryInvariance, Invariance, PTL DEF Spec

(***************************************************************************)
(* The Vault is solvent: for any number of Pools and users, what it holds, *)
(* with what a loan or a batch in progress owes it, is what it owes Pools  *)
(* and users, and what it was given, to the unit.                          *)
(***************************************************************************)
THEOREM Solvent == Spec => []Backed
BY MoneyInvariance, PTL DEF MInv
-----------------------------------------------------------------------------
\* A revert undoes the call,
LEMMA RevertUndoes == ASSUME IInv, Revert PROVE Undone
<1>1. saved \in Snapshots
  BY DEF Revert, IInv, TypeOK, CallTyped
<1>2. saved = [balances |-> saved.balances, internal |-> saved.internal,
               signatures |-> saved.signatures, held |-> saved.held,
               collected |-> saved.collected, forwarder |-> saved.forwarder,
               outside |-> saved.outside, ethHeld |-> saved.ethHeld,
               ethOutside |-> saved.ethOutside, donated |-> saved.donated,
               ethForced |-> saved.ethForced, flashLoanFee |-> saved.flashLoanFee,
               discounted |-> saved.discounted, relayerRoles |-> saved.relayerRoles]
  BY <1>1 DEF Snapshots
<1>3. Snapshot' = [balances |-> saved.balances, internal |-> saved.internal,
               signatures |-> saved.signatures, held |-> saved.held,
               collected |-> saved.collected, forwarder |-> saved.forwarder,
               outside |-> saved.outside, ethHeld |-> saved.ethHeld,
               ethOutside |-> saved.ethOutside, donated |-> saved.donated,
               ethForced |-> saved.ethForced, flashLoanFee |-> saved.flashLoanFee,
               discounted |-> saved.discounted, relayerRoles |-> saved.relayerRoles]
  BY DEF Revert, Snapshot
<1>4. frame # Idle /\ frame' = Idle
  BY DEF Revert, Leave
<1> QED BY <1>2, <1>3, <1>4 DEF Undone

\* and a call that is not undone ends with the step that returns from it.
CallReturns ==
  \/ frame.kind = "joinPool" /\ \E amounts, fees \in [DOMAIN frame.cached -> Amounts] :
       JoinPoolReturn(amounts, fees)
  \/ frame.kind = "exitPool" /\ \E amounts, fees \in [DOMAIN frame.cached -> Amounts] :
       ExitPoolReturn(amounts, fees)
  \/ frame.kind = "swap" /\ \E calculated \in Amounts : SwapReturn(calculated)
  \/ frame.kind = "batchSwap" /\ BatchSwapReturn
  \/ frame.kind = "flashLoan" /\ FlashLoanReturn
  \/ frame.kind \in {"manageUserBalance", "managePoolBalance"}

LEMMA HowCallsEnd ==
  ASSUME IInv, [Next]_vars, frame # Idle, frame' = Idle, ~Undone
  PROVE  CallReturns
<1>1. CASE Registry
  BY <1>1 DEF Registry, registerPool, registerTokens, deregisterTokens, MayCall, NotEntered
<1>2. CASE JoinsAndExits
  <2>1. ASSUME NEW kind, NEW caller, NEW sender, NEW recipient, NEW p, NEW limits,
               NEW useInternalBalance, NEW useEth, NEW value,
               JoinOrExit(kind, caller, sender, recipient, p, limits, useInternalBalance,
                          useEth, value)
        PROVE  FALSE
    BY <2>1 DEF JoinOrExit, Enter, MayCall, NotEntered
  <2>2. PICK amounts, fees \in [DOMAIN frame.cached -> Amounts] :
          JoinPoolReturn(amounts, fees) \/ ExitPoolReturn(amounts, fees)
    BY <1>2, <2>1 DEF JoinsAndExits
  <2>3. CASE JoinPoolReturn(amounts, fees)
    <3>1. frame.kind = "joinPool"
      BY <2>3 DEF JoinPoolReturn
    <3> QED BY <2>3, <3>1 DEF CallReturns
  <2>4. CASE ExitPoolReturn(amounts, fees)
    <3>1. frame.kind = "exitPool"
      BY <2>4 DEF ExitPoolReturn
    <3> QED BY <2>4, <3>1 DEF CallReturns
  <2> QED BY <2>2, <2>3, <2>4
<1>3. CASE SwapCalls
  BY <1>3 DEF SwapCalls, swap, batchSwap, Enter, MayCall, NotEntered
<1>4. CASE SwapReturns
  <2>1. ASSUME NEW p, NEW assetIn, NEW assetOut, NEW amount,
               BatchSwapStep(p, assetIn, assetOut, amount)
        PROVE  FALSE
    <3>1. BatchFrame(frame) /\ frame.kind = "batchSwap"
      BY <2>1, FrameKinds DEF BatchSwapStep, IInv
    <3>2. frame'.kind = "batchSwap"
      BY <2>1, <3>1 DEF BatchSwapStep, BatchFrame
    <3> QED BY <3>2 DEF Idle
  <2>2. ASSUME NEW calculated, BatchSwapStepReturn(calculated) PROVE FALSE
    <3>1. BatchFrame(frame) /\ frame.kind = "batchSwap"
      BY <2>2, FrameKinds DEF BatchSwapStepReturn, IInv
    <3>2. frame'.kind = "batchSwap"
      BY <2>2, <3>1 DEF BatchSwapStepReturn, BatchFrame
    <3> QED BY <3>2 DEF Idle
  <2>3. ASSUME NEW calculated \in Amounts, SwapReturn(calculated) PROVE CallReturns
    <3>1. frame.kind = "swap"
      BY <2>3 DEF SwapReturn
    <3> QED BY <2>3, <3>1 DEF CallReturns
  <2>4. ASSUME BatchSwapReturn PROVE CallReturns
    <3>1. frame.kind = "batchSwap"
      BY <2>4 DEF BatchSwapReturn
    <3> QED BY <2>4, <3>1 DEF CallReturns
  <2> QED BY <1>4, <2>1, <2>2, <2>3, <2>4 DEF SwapReturns
<1>5. CASE Loans
  <2>1. ASSUME NEW caller, NEW amounts, flashLoan(caller, amounts) PROVE FALSE
    BY <2>1 DEF flashLoan, Enter, MayCall, NotEntered
  <2>2. FlashLoanReturn /\ frame.kind = "flashLoan"
    BY <1>5, <2>1 DEF Loans, FlashLoanReturn
  <2> QED BY <2>2 DEF CallReturns
<1>6. CASE UserOperations
  <2>1. ASSUME NEW caller, NEW value, manageUserBalance(caller, value) PROVE FALSE
    BY <2>1 DEF manageUserBalance, Enter, MayCall, NotEntered
  <2>2. ASSUME NEW kind, NEW asset, NEW amount, NEW sender, NEW recipient,
               UserBalanceOp(kind, asset, amount, sender, recipient)
        PROVE  frame.kind = "manageUserBalance"
    BY <2>2 DEF UserBalanceOp
  <2>3. frame.kind = "manageUserBalance"
    BY <1>6, <2>1, <2>2 DEF UserOperations, ManageUserBalanceReturn
  <2> QED BY <2>3 DEF CallReturns
<1>7. CASE ManagerOperations
  <2>1. ASSUME NEW caller, managePoolBalance(caller) PROVE FALSE
    BY <2>1 DEF managePoolBalance, Enter, MayCall, NotEntered
  <2>2. frame.kind = "managePoolBalance"
    BY <1>7, <2>1 DEF ManagerOperations, PoolBalanceOp, ManagePoolBalanceReturn
  <2> QED BY <2>2 DEF CallReturns
<1>8. CASE Collector \/ Administration \/ World \/ UNCHANGED vars
  <2>1. UNCHANGED frame
    BY <1>8 DEF Collector, withdrawCollectedFees, setFlashLoanFeePercentage,
       setFlashLoanFeeDiscount, Administration, setRelayerApproval, setPaused,
       World, Donate, Distribute, ForceEth, AuthorizerChanges, Sign, NextBlock,
       vars, callVars
  <2> QED BY <2>1
<1>9. CASE Revert
  BY <1>9, RevertUndoes
<1> QED BY <1>1, <1>2, <1>3, <1>4, <1>5, <1>6, <1>7, <1>8, <1>9 DEF Next
-----------------------------------------------------------------------------
\* A loan returns only with what it lent, and the fee goes to the collector.
LEMMA LoanRepaid ==
  ASSUME IInv, MInv, FlashLoanReturn, NEW t \in DOMAIN frame.amounts
  PROVE  /\ held'[t] = saved.held[t]
         /\ collected'[t] - collected[t] >= LoanFee(frame.amounts[t])
<1>1. LoanFrame(frame) /\ frame.kind = "flashLoan"
  BY FrameKinds DEF FlashLoanReturn, IInv
<1>2. t \in Tokens /\ frame.preLoan[t] \in Int /\ frame.fees[t] \in Int
  BY <1>1 DEF LoanFrame, OfTokens
<1>3. held[t] \in Int /\ collected[t] \in Int
  BY <1>2 DEF IInv, TypeOK, TokensTyped
<1>4. /\ frame.preLoan[t] = saved.held[t]
      /\ frame.fees[t] = LoanFee(frame.amounts[t])
  BY <1>1 DEF MInv, CallLedger, LoanAsMade
<1>5. /\ held'[t] = held[t] - (held[t] - frame.preLoan[t])
      /\ collected'[t] = collected[t] + (held[t] - frame.preLoan[t])
      /\ held[t] - frame.preLoan[t] >= frame.fees[t]
  BY <1>2 DEF FlashLoanReturn, FeePaid, FeeReceived
<1> QED BY <1>2, <1>3, <1>4, <1>5

(***************************************************************************)
(* A flash loan that returns was repaid in full and paid the fee due when  *)
(* it was made, whatever its receiver did meanwhile: the collector's fee   *)
(* and discounts may change during the loan, the Vault may receive tokens, *)
(* and the collector may be emptied.                                       *)
(***************************************************************************)
THEOREM LoansAreRepaid == Spec => LoansRepaidWithFee
<1>1. MInv /\ IInv /\ [Next]_vars =>
        [Returns("flashLoan") =>
           \A t \in DOMAIN frame.amounts :
             /\ held'[t] = saved.held[t]
             /\ collected'[t] - collected[t] >= LoanFee(frame.amounts[t])]_vars
  <2> SUFFICES ASSUME MInv, IInv, [Next]_vars, Returns("flashLoan"),
                      NEW t \in DOMAIN frame.amounts
               PROVE  /\ held'[t] = saved.held[t]
                      /\ collected'[t] - collected[t] >= LoanFee(frame.amounts[t])
    OBVIOUS
  <2>1. frame # Idle /\ frame' = Idle /\ ~Undone /\ frame.kind = "flashLoan"
    BY DEF Returns, Idle
  <2>2. FlashLoanReturn
    BY <2>1, HowCallsEnd DEF CallReturns
  <2> QED BY <2>2, LoanRepaid
<1> QED BY <1>1, MoneyInvariance, Invariance, PTL DEF Spec, LoansRepaidWithFee
-----------------------------------------------------------------------------
\* Limits of a swap.
LEMMA SwapIsLimited ==
  ASSUME IInv, RInv, MInv, NEW calculated \in Amounts, SwapReturn(calculated)
  PROVE  SwapWithinLimit
<1> DEFINE request == frame.request
           amounts == getAmounts(frame.swapKind, request.amount, calculated)
           tokenIn == translate(request.assetIn)
           tokenOut == translate(request.assetOut)
<1>1. SwapFrame(frame) /\ frame.kind = "swap"
  BY FrameKinds DEF SwapReturn, IInv
<1>2. Request(request) /\ request # NoRequest /\ frame.limit \in Nat
  BY <1>1 DEF SwapFrame, Request, NoRequest
<1>3. /\ request.amount \in Nat /\ calculated \in Nat
      /\ tokenIn \in Tokens /\ tokenOut \in Tokens
  BY <1>2, VaultAssumption, Inputs DEF Request
<1>4. amounts \in [in: Nat, out: Nat]
  BY <1>3, AmountsTyped
<1>5. /\ ProcessSwapRequest(request, amounts)
      /\ withinLimit(frame.swapKind, amounts, frame.limit)
  BY DEF SwapReturn
<1>6. tokenIn # tokenOut /\ balances = saved.balances
  BY <1>1, <1>2 DEF MInv, CallLedger, HopBetweenTwo, StoredAtReturn
<1> HIDE DEF amounts
<1>7. \A t \in Tokens : PoolsCash(balances', t) = PoolsCash(balances, t)
        + Part(request.assetIn, amounts.in, t) - Part(request.assetOut, amounts.out, t)
  BY <1>1, <1>2, <1>4, <1>5, SwapStores
<1>8. /\ Part(request.assetIn, amounts.in, tokenIn) = amounts.in
      /\ Part(request.assetOut, amounts.out, tokenIn) = 0
      /\ Part(request.assetIn, amounts.in, tokenOut) = 0
      /\ Part(request.assetOut, amounts.out, tokenOut) = amounts.out
  BY <1>6 DEF Part
<1>9. PoolsCash(balances, tokenIn) \in Int /\ PoolsCash(balances, tokenOut) \in Int
  BY <1>3, SumsNow DEF IInv
<1>10. amounts.in \in Int /\ amounts.out \in Int
  BY <1>4
<1>11. Gain(tokenIn) = amounts.in /\ Gain(tokenOut) = -amounts.out
  <2> HIDE DEF tokenIn, tokenOut, request
  <2>1. PoolsCash(balances', tokenIn) = PoolsCash(balances, tokenIn) + amounts.in - 0
    BY <1>3, <1>7, <1>8
  <2>2. PoolsCash(balances', tokenOut) = PoolsCash(balances, tokenOut) + 0 - amounts.out
    BY <1>3, <1>7, <1>8
  <2> QED BY <1>6, <1>9, <1>10, <2>1, <2>2 DEF Gain
<1>12. CASE frame.swapKind = "GIVEN_IN"
  <2>1. amounts.out >= frame.limit
    BY <1>5, <1>12 DEF withinLimit
  <2>2. Gain(tokenOut) <= -frame.limit
    <3> HIDE DEF tokenOut
    <3> QED BY <1>2, <1>10, <1>11, <2>1
  <2> QED BY <1>12, <2>2 DEF SwapWithinLimit
<1>13. CASE frame.swapKind # "GIVEN_IN"
  <2>1. amounts.in <= frame.limit
    BY <1>5, <1>13 DEF withinLimit
  <2>2. Gain(tokenIn) <= frame.limit
    <3> HIDE DEF tokenIn
    <3> QED BY <1>2, <1>10, <1>11, <2>1
  <2> QED BY <1>13, <2>2 DEF SwapWithinLimit
<1> QED BY <1>12, <1>13

\* Limits of a join and of an exit: the fees go to the forwarder.
LEMMA JoinIsLimited ==
  ASSUME IInv, RInv, MInv, NEW amountsIn \in [DOMAIN frame.cached -> Amounts],
         NEW fees \in [DOMAIN frame.cached -> Amounts], JoinPoolReturn(amountsIn, fees)
  PROVE  JoinWithinLimits
<1>1. JoinExitFrame(frame) /\ frame.kind = "joinPool"
  BY FrameKinds DEF JoinPoolReturn, PoolBalanceChangeKinds, IInv
<1>2. DOMAIN frame.limits = DOMAIN frame.cached /\ balances = saved.balances
  BY <1>1 DEF MInv, CallLedger, AllTokensLimited, StoredAtReturn, PoolBalanceChangeKinds
<1>3. ASSUME NEW t \in DOMAIN frame.limits
      PROVE  Gain(t) + forwarder'[t] - forwarder[t] <= frame.limits[t]
  <2>1. t \in Tokens /\ frame.limits[t] \in Int
    BY <1>1 DEF JoinExitFrame, OfTokens
  <2>2. amountsIn[t] \in Int /\ fees[t] \in Int
    <3>1. t \in DOMAIN frame.cached /\ Amounts \subseteq Int
      BY <1>2, VaultAssumption
    <3> QED BY <3>1
  <2>3. FeesOf(amountsIn)[t] = amountsIn[t] /\ FeesOf(fees)[t] = fees[t]
    BY <1>2, <2>1 DEF FeesOf
  <2>4. PoolsCash(balances', t) = PoolsCash(balances, t) + amountsIn[t] - fees[t]
    BY <2>1, <2>3, JoinStores
  <2>5. forwarder'[t] = forwarder[t] + fees[t] /\ amountsIn[t] <= frame.limits[t]
    BY <1>2, <2>1, <2>3 DEF JoinPoolReturn, TransferAssets, WithinMaxIn
  <2>6. PoolsCash(balances, t) \in Int /\ forwarder[t] \in Int
    BY <2>1, SumsNow DEF IInv
  <2> QED BY <1>2, <2>1, <2>2, <2>4, <2>5, <2>6 DEF Gain
<1> QED BY <1>3 DEF JoinWithinLimits

LEMMA ExitIsLimited ==
  ASSUME IInv, RInv, MInv, NEW amountsOut \in [DOMAIN frame.cached -> Amounts],
         NEW fees \in [DOMAIN frame.cached -> Amounts], ExitPoolReturn(amountsOut, fees)
  PROVE  ExitWithinLimits
<1>1. JoinExitFrame(frame) /\ frame.kind = "exitPool"
  BY FrameKinds DEF ExitPoolReturn, PoolBalanceChangeKinds, IInv
<1>2. DOMAIN frame.limits = DOMAIN frame.cached /\ balances = saved.balances
  BY <1>1 DEF MInv, CallLedger, AllTokensLimited, StoredAtReturn, PoolBalanceChangeKinds
<1>3. ASSUME NEW t \in DOMAIN frame.limits
      PROVE  Gain(t) + forwarder'[t] - forwarder[t] <= -frame.limits[t]
  <2>1. t \in Tokens /\ frame.limits[t] \in Int
    BY <1>1 DEF JoinExitFrame, OfTokens
  <2>2. amountsOut[t] \in Int /\ fees[t] \in Int
    <3>1. t \in DOMAIN frame.cached /\ Amounts \subseteq Int
      BY <1>2, VaultAssumption
    <3> QED BY <3>1
  <2>3. FeesOf(amountsOut)[t] = amountsOut[t] /\ FeesOf(fees)[t] = fees[t]
    BY <1>2, <2>1 DEF FeesOf
  <2>4. PoolsCash(balances', t) = PoolsCash(balances, t) - amountsOut[t] - fees[t]
    BY <2>1, <2>3, ExitStores
  <2>5. forwarder'[t] = forwarder[t] + fees[t] /\ amountsOut[t] >= frame.limits[t]
    BY <1>2, <2>1, <2>3 DEF ExitPoolReturn, TransferAssets, AboveMinOut
  <2>6. PoolsCash(balances, t) \in Int /\ forwarder[t] \in Int
    BY <2>1, SumsNow DEF IInv
  <2> QED BY <1>2, <2>1, <2>2, <2>4, <2>5, <2>6 DEF Gain
<1> QED BY <1>3 DEF ExitWithinLimits

\* A sum changes with the one value that does, if it is of the sum at all.
LEMMA SumWithOne ==
  ASSUME NEW D, IsFiniteSet(D), NEW x, NEW f \in [D -> Int], NEW h \in [D -> Int],
         \A a \in D \ {x} : h[a] = f[a]
  PROVE  SumFunction(h) = SumFunction(f) + IF x \in D THEN h[x] - f[x] ELSE 0
<1>1. SumFunction(f) \in Int /\ SumFunction(h) \in Int
  BY SumTyped
<1>2. CASE x \in D
  <2>1. SumFunction(h) = SumFunction(f) - f[x] + h[x]
    BY <1>2, SumExcept
  <2>2. f[x] \in Int /\ h[x] \in Int
    BY <1>2
  <2> QED BY <1>1, <1>2, <2>1, <2>2
<1>3. CASE x \notin D
  <2>1. h = f
    BY <1>3
  <2> QED BY <1>1, <1>3, <2>1
<1> QED BY <1>2, <1>3

\* The deltas of a batch, asset by asset, add up to what they are in tokens.
LEMMA DeltasAddUp ==
  ASSUME NEW deltas \in [Assets -> Int], NEW D \in SUBSET Assets, IsFiniteSet(D),
         \A a \in Assets \ D : deltas[a] = 0, NEW t \in Tokens
  PROVE  SumFunction([a \in D |-> Part(a, deltas[a], t)]) = Net(deltas, t)
<1> DEFINE zeros == [a \in D |-> 0]
           token == [a \in D |-> IF a = t THEN deltas[a] ELSE 0]
           parts == [a \in D |-> Part(a, deltas[a], t)]
<1>1. \A a \in D : a \in Assets /\ deltas[a] \in Int
  OBVIOUS
<1>2. /\ zeros \in [D -> Int] /\ token \in [D -> Int] /\ parts \in [D -> Int]
      /\ \A a \in D : zeros[a] = 0
  BY <1>1 DEF Part
<1>3. t \in Assets /\ ETH \in Assets /\ t # ETH /\ deltas[t] \in Int /\ deltas[ETH] \in Int
  BY Inputs
<1>4. /\ \A a \in D \ {t} : token[a] = zeros[a]
      /\ t \in D => token[t] - zeros[t] = deltas[t]
  BY <1>3
<1>5. /\ \A a \in D \ {ETH} : parts[a] = token[a]
      /\ ETH \in D => parts[ETH] - token[ETH] = AsToken(t, deltas[ETH])
  BY <1>1, <1>3 DEF Part, translate, AsToken
<1> HIDE DEF zeros, token, parts
<1>6. SumFunction(zeros) = 0
  BY <1>2, SumOfZeros
<1>7. SumFunction(token) = SumFunction(zeros) + IF t \in D THEN token[t] - zeros[t] ELSE 0
  BY <1>2, <1>4, SumWithOne
<1>8. SumFunction(parts) = SumFunction(token) + IF ETH \in D THEN parts[ETH] - token[ETH] ELSE 0
  BY <1>2, <1>5, SumWithOne
<1>9. SumFunction(token) = deltas[t]
  BY <1>3, <1>4, <1>6, <1>7
<1>10. SumFunction(parts) = deltas[t] + AsToken(t, deltas[ETH])
  <2>1. CASE ETH \in D
    BY <1>5, <1>8, <1>9, <2>1
  <2>2. CASE ETH \notin D
    <3>1. deltas[ETH] = 0
      BY <1>3, <2>2
    <3> QED BY <1>3, <1>8, <1>9, <2>2, <3>1 DEF AsToken
  <2> QED BY <2>1, <2>2
<1> QED BY <1>10 DEF parts, Net

\* Limits of a batch: on each asset's delta, and so on each token's.
LEMMA BatchIsLimited ==
  ASSUME IInv, MInv, BatchSwapReturn
  PROVE  BatchWithinLimits
<1>1. BatchFrame(frame) /\ frame.kind = "batchSwap"
  BY FrameKinds DEF BatchSwapReturn, IInv
<1> DEFINE D == DOMAIN frame.limits
<1>2. /\ frame.deltas \in [Assets -> Int] /\ D \in SUBSET Assets
      /\ frame.limits \in [D -> Int]
  BY <1>1 DEF BatchFrame
<1>3. /\ IsFiniteSet(D) /\ \A a \in Assets \ D : frame.deltas[a] = 0
      /\ \A t \in Tokens :
           PoolsCash(balances, t) - PoolsCash(saved.balances, t) = Net(frame.deltas, t)
  BY <1>1 DEF MInv, CallLedger, BatchAddsUp
<1>4. balances' = balances /\ \A a \in D : frame.deltas[a] <= frame.limits[a]
  BY DEF BatchSwapReturn, withinLimits
<1>5. ASSUME NEW t \in Tokens
      PROVE  Gain(t) <= SumFunction([a \in D |-> IF translate(a) = t THEN frame.limits[a] ELSE 0])
  <2> DEFINE parts == [a \in D |-> Part(a, frame.deltas[a], t)]
             bounds == [a \in D |-> IF translate(a) = t THEN frame.limits[a] ELSE 0]
  <2>1. \A a \in D : frame.deltas[a] \in Int /\ frame.limits[a] \in Int
    BY <1>2
  <2>2. parts \in [D -> Int] /\ bounds \in [D -> Int] /\ \A a \in D : parts[a] <= bounds[a]
    <3> HIDE DEF D
    <3> QED BY <1>4, <2>1 DEF Part
  <2>3. Gain(t) = Net(frame.deltas, t)
    BY <1>3, <1>4 DEF Gain
  <2>4. SumFunction(parts) = Net(frame.deltas, t)
    <3> HIDE DEF D
    <3> QED BY <1>2, <1>3, DeltasAddUp
  <2> HIDE DEF parts, bounds, D
  <2>5. SumFunction(parts) <= SumFunction(bounds)
    BY <1>3, <2>2, SumMonotone
  <2>6. Gain(t) <= SumFunction(bounds)
    BY <2>3, <2>4, <2>5
  <2> QED BY <2>6 DEF bounds
<1> QED BY <1>5 DEF BatchWithinLimits

(***************************************************************************)
(* The limits a user sets hold for what all Pools together took and gave,  *)
(* with any number of hops, also where WETH goes as ETH, and fees included *)
(* where the Pool charges them: no answer of a hook gets around them.      *)
(***************************************************************************)
THEOREM LimitsBind == Spec => LimitsHonoured
<1>1. MInv /\ RInv /\ IInv /\ [Next]_vars =>
        [/\ Returns("swap") => SwapWithinLimit
         /\ Returns("batchSwap") => BatchWithinLimits
         /\ Returns("joinPool") => JoinWithinLimits
         /\ Returns("exitPool") => ExitWithinLimits]_vars
  <2> SUFFICES ASSUME MInv, RInv, IInv, [Next]_vars
               PROVE  /\ Returns("swap") => SwapWithinLimit
                      /\ Returns("batchSwap") => BatchWithinLimits
                      /\ Returns("joinPool") => JoinWithinLimits
                      /\ Returns("exitPool") => ExitWithinLimits
    OBVIOUS
  <2>1. ASSUME NEW kind \in {"swap", "batchSwap", "joinPool", "exitPool"}, Returns(kind)
        PROVE  CallReturns /\ frame.kind = kind
    <3>1. frame.kind = kind /\ frame' = Idle /\ frame # Idle /\ ~Undone
      BY <2>1 DEF Returns, Idle
    <3> QED BY <3>1, HowCallsEnd
  <2>2. Returns("swap") => SwapWithinLimit
    BY <2>1, SwapIsLimited DEF CallReturns
  <2>3. Returns("batchSwap") => BatchWithinLimits
    BY <2>1, BatchIsLimited DEF CallReturns
  <2>4. Returns("joinPool") => JoinWithinLimits
    BY <2>1, JoinIsLimited DEF CallReturns
  <2>5. Returns("exitPool") => ExitWithinLimits
    BY <2>1, ExitIsLimited DEF CallReturns
  <2> QED BY <2>2, <2>3, <2>4, <2>5
<1> QED BY <1>1, MoneyInvariance, RegistryInvariance, Invariance, PTL
        DEF Spec, LimitsHonoured

-----------------------------------------------------------------------------
\* What a step of the Vault may never do: spend somebody's Internal Balance against that
\* user's will, take anything in while the Vault is paused, change a total without
\* stamping its block.
(***************************************************************************)
(* What the code checks as a call begins it relies on until the call ends. *)
(* That holds because approvals and pauses change between calls only, and  *)
(* a signature used by the call is among those that were there before it.  *)
(***************************************************************************)
Willed ==
  frame.kind \in {"joinPool", "exitPool", "swap", "batchSwap"} =>
    \/ frame.caller = frame.sender
    \/ frame.caller \in approvedRelayers[frame.sender]
    \/ <<frame.sender, frame.caller>> \in saved.signatures
PauseBinds ==
  /\ frame.kind \in {"joinPool", "swap", "batchSwap", "flashLoan", "managePoolBalance"} =>
       NotPaused
  /\ frame.kind = "manageUserBalance" /\ frame.checkedNotPaused => NotPaused
Checked == Willed /\ PauseBinds

LEMMA CheckedBetweenCalls == ASSUME frame' = Idle PROVE Checked'
BY DEF Idle, Checked, Willed, PauseBinds

\* A call begins with its checks,
LEMMA CheckedWhenCallBegins ==
  ASSUME NEW entryPoint, NEW f, Enter(entryPoint, f),
         UNCHANGED <<approvedRelayers, pauseVars>>,
         f.kind \in {"joinPool", "exitPool", "swap", "batchSwap"} =>
           authenticateFor(f.caller, f.sender),
         f.kind \in {"joinPool", "swap", "batchSwap", "flashLoan", "managePoolBalance"} =>
           NotPaused,
         f.kind = "manageUserBalance" => ~f.checkedNotPaused
  PROVE  Checked'
<1>1. frame' = f /\ saved'.signatures = signatures
  BY DEF Enter, Snapshot
<1>2. NotPaused' = NotPaused
  BY DEF NotPaused, pauseVars
<1>3. Willed'
  BY <1>1 DEF Willed, authenticateFor
<1>4. PauseBinds'
  BY <1>1, <1>2 DEF PauseBinds
<1> QED BY <1>3, <1>4 DEF Checked

\* and they stand while it runs.
LEMMA CheckedWhileCallRuns ==
  ASSUME Checked, UNCHANGED <<approvedRelayers, pauseVars, saved>>, frame'.kind = frame.kind,
         frame.kind \in {"joinPool", "exitPool", "swap", "batchSwap"} =>
           frame'.caller = frame.caller /\ frame'.sender = frame.sender,
         frame.kind = "manageUserBalance" /\ frame'.checkedNotPaused =>
           frame.checkedNotPaused \/ NotPaused
  PROVE  Checked'
<1>1. NotPaused' = NotPaused
  BY DEF NotPaused, pauseVars
<1>2. Willed'
  BY DEF Checked, Willed
<1>3. PauseBinds'
  BY <1>1 DEF Checked, PauseBinds
<1> QED BY <1>2, <1>3 DEF Checked

LEMMA CheckedInductive == Checked /\ IInv /\ [Next]_vars => Checked'
<1> SUFFICES ASSUME Checked, IInv, [Next]_vars PROVE Checked'
  OBVIOUS
<1>1. CASE Registry
  <2>1. frame' = Idle
    BY <1>1 DEF Registry, registerPool, registerTokens, deregisterTokens, MayCall,
       NotEntered, callVars
  <2> QED BY <2>1, CheckedBetweenCalls
<1>2. CASE JoinsAndExits
  <2>1. ASSUME NEW kind \in PoolBalanceChangeKinds, NEW caller, NEW sender,
               NEW recipient, NEW p, NEW limits, NEW useInternalBalance, NEW useEth, NEW value,
               JoinOrExit(kind, caller, sender, recipient, p, limits, useInternalBalance,
                          useEth, value)
        PROVE  Checked'
    <3> DEFINE f == [kind |-> kind, caller |-> caller, sender |-> sender,
                     recipient |-> recipient, pool |-> p, limits |-> limits,
                     useInternalBalance |-> useInternalBalance,
                     useEth |-> useEth, value |-> value, cached |-> PoolBalancesOf(p)]
    <3>1. Enter(kind, f) /\ UNCHANGED <<approvedRelayers, pauseVars>>
      BY <2>1 DEF JoinOrExit
    <3>2. /\ f.kind \in {"joinPool", "exitPool"} /\ authenticateFor(f.caller, f.sender)
          /\ f.kind = "joinPool" => NotPaused
      BY <2>1 DEF JoinOrExit, pauseAllows, PoolBalanceChangeKinds
    <3> HIDE DEF f
    <3> QED BY <3>1, <3>2, CheckedWhenCallBegins
  <2>2. CASE \E amounts, fees \in [DOMAIN frame.cached -> Amounts] :
               JoinPoolReturn(amounts, fees) \/ ExitPoolReturn(amounts, fees)
    <3>1. frame' = Idle
      BY <2>2 DEF JoinPoolReturn, ExitPoolReturn, Leave
    <3> QED BY <3>1, CheckedBetweenCalls
  <2> QED BY <1>2, <2>1, <2>2 DEF JoinsAndExits
<1>3. CASE SwapCalls
  <2>1. ASSUME NEW caller, NEW sender, NEW recipient, NEW p, NEW kind, NEW assetIn,
               NEW assetOut, NEW amount, NEW limit, NEW fromInternal, NEW toInternal,
               NEW deadline, NEW value,
               swap(caller, sender, recipient, p, kind, assetIn, assetOut, amount,
                    limit, fromInternal, toInternal, deadline, value)
        PROVE  Checked'
    <3> DEFINE f == [kind |-> "swap", caller |-> caller, sender |-> sender,
                     recipient |-> recipient, fromInternal |-> fromInternal,
                     toInternal |-> toInternal, value |-> value,
                     swapKind |-> kind, limit |-> limit,
                     request |-> SwapRequest(p, assetIn, assetOut, amount)]
    <3>1. Enter("swap", f) /\ UNCHANGED <<approvedRelayers, pauseVars>>
      BY <2>1 DEF swap
    <3>2. f.kind = "swap" /\ authenticateFor(f.caller, f.sender) /\ NotPaused
      BY <2>1 DEF swap
    <3> HIDE DEF f
    <3> QED BY <3>1, <3>2, CheckedWhenCallBegins
  <2>2. ASSUME NEW caller, NEW sender, NEW recipient, NEW kind, NEW limits,
               NEW fromInternal, NEW toInternal, NEW deadline, NEW value,
               batchSwap(caller, sender, recipient, kind, limits, fromInternal,
                         toInternal, deadline, value)
        PROVE  Checked'
    <3> DEFINE f == [kind |-> "batchSwap", caller |-> caller, sender |-> sender,
                     recipient |-> recipient, fromInternal |-> fromInternal,
                     toInternal |-> toInternal, value |-> value, swapKind |-> kind,
                     limits |-> limits, deltas |-> NoAmounts, steps |-> 0,
                     previous |-> NoHop, request |-> NoRequest]
    <3>1. Enter("batchSwap", f) /\ UNCHANGED <<approvedRelayers, pauseVars>>
      BY <2>2 DEF batchSwap
    <3>2. f.kind = "batchSwap" /\ authenticateFor(f.caller, f.sender) /\ NotPaused
      BY <2>2 DEF batchSwap
    <3> HIDE DEF f
    <3> QED BY <3>1, <3>2, CheckedWhenCallBegins
  <2> QED BY <1>3, <2>1, <2>2 DEF SwapCalls
<1>4. CASE SwapReturns
  <2>1. ASSUME NEW p, NEW assetIn, NEW assetOut, NEW amount,
               BatchSwapStep(p, assetIn, assetOut, amount)
        PROVE  Checked'
    <3>1. BatchFrame(frame) /\ frame.kind = "batchSwap"
      BY <2>1, FrameKinds DEF BatchSwapStep, IInv
    <3>2. /\ frame'.kind = frame.kind /\ frame'.caller = frame.caller
          /\ frame'.sender = frame.sender
          /\ UNCHANGED <<approvedRelayers, pauseVars, saved>>
      BY <2>1, <3>1 DEF BatchSwapStep, BatchFrame, accessVars
    <3> QED BY <3>1, <3>2, CheckedWhileCallRuns
  <2>2. ASSUME NEW calculated, BatchSwapStepReturn(calculated) PROVE Checked'
    <3>1. BatchFrame(frame) /\ frame.kind = "batchSwap"
      BY <2>2, FrameKinds DEF BatchSwapStepReturn, IInv
    <3>2. /\ frame'.kind = frame.kind /\ frame'.caller = frame.caller
          /\ frame'.sender = frame.sender
          /\ UNCHANGED <<approvedRelayers, pauseVars, saved>>
      BY <2>2, <3>1 DEF BatchSwapStepReturn, BatchFrame, accessVars
    <3> QED BY <3>1, <3>2, CheckedWhileCallRuns
  <2>3. CASE BatchSwapReturn \/ \E calculated \in Amounts : SwapReturn(calculated)
    <3>1. frame' = Idle
      BY <2>3 DEF BatchSwapReturn, SwapReturn, Leave
    <3> QED BY <3>1, CheckedBetweenCalls
  <2> QED BY <1>4, <2>1, <2>2, <2>3 DEF SwapReturns
<1>5. CASE Loans
  <2>1. ASSUME NEW caller, NEW amounts, flashLoan(caller, amounts) PROVE Checked'
    <3>1. PICK f : Enter("flashLoan", f) /\ f.kind = "flashLoan"
      BY <2>1 DEF flashLoan
    <3>2. NotPaused /\ UNCHANGED <<approvedRelayers, pauseVars>>
      BY <2>1 DEF flashLoan, accessVars
    <3> QED BY <3>1, <3>2, CheckedWhenCallBegins
  <2>2. CASE FlashLoanReturn
    BY <2>2, CheckedBetweenCalls DEF FlashLoanReturn, Leave
  <2> QED BY <1>5, <2>1, <2>2 DEF Loans
<1>6. CASE UserOperations
  <2>1. ASSUME NEW caller, NEW value, manageUserBalance(caller, value) PROVE Checked'
    <3>1. PICK f : /\ Enter("manageUserBalance", f) /\ f.kind = "manageUserBalance"
                   /\ f.checkedNotPaused = FALSE
      BY <2>1 DEF manageUserBalance
    <3>2. UNCHANGED <<approvedRelayers, pauseVars>>
      BY <2>1 DEF manageUserBalance, accessVars
    <3> QED BY <3>1, <3>2, CheckedWhenCallBegins
  <2>2. ASSUME NEW kind, NEW asset, NEW amount, NEW sender, NEW recipient,
               UserBalanceOp(kind, asset, amount, sender, recipient)
        PROVE  Checked'
    <3>1. frame.kind = "manageUserBalance" /\ pauseCheck(kind)
          /\ UNCHANGED <<approvedRelayers, pauseVars, saved>>
      BY <2>2 DEF UserBalanceOp, accessVars
    <3>2. frame \in UserFrames
      BY <3>1, FrameKinds DEF IInv
    <3>3. /\ frame'.kind = "manageUserBalance"
          /\ frame'.checkedNotPaused =
               (frame.checkedNotPaused \/ kind # "WITHDRAW_INTERNAL")
      BY <2>2, <3>2 DEF UserBalanceOp, UserFrames
    <3>4. frame'.checkedNotPaused => frame.checkedNotPaused \/ NotPaused
      BY <3>1, <3>3 DEF pauseCheck
    <3> QED BY <3>1, <3>3, <3>4, CheckedWhileCallRuns
  <2>3. CASE ManageUserBalanceReturn
    BY <2>3, CheckedBetweenCalls DEF ManageUserBalanceReturn, Leave
  <2> QED BY <1>6, <2>1, <2>2, <2>3 DEF UserOperations
<1>7. CASE ManagerOperations
  <2>1. ASSUME NEW caller, managePoolBalance(caller) PROVE Checked'
    <3>1. PICK f : Enter("managePoolBalance", f) /\ f.kind = "managePoolBalance"
      BY <2>1 DEF managePoolBalance
    <3>2. NotPaused /\ UNCHANGED <<approvedRelayers, pauseVars>>
      BY <2>1 DEF managePoolBalance, accessVars
    <3> QED BY <3>1, <3>2, CheckedWhenCallBegins
  <2>2. ASSUME NEW kind, NEW p, NEW t, NEW amount, PoolBalanceOp(kind, p, t, amount)
        PROVE  Checked'
    <3>1. /\ frame.kind = "managePoolBalance" /\ frame' = [frame EXCEPT !.steps = @ + 1]
          /\ UNCHANGED <<approvedRelayers, pauseVars, saved>>
      BY <2>2 DEF PoolBalanceOp, accessVars
    <3>2. frame'.kind = "managePoolBalance"
      BY <3>1, FrameKinds DEF IInv, ManagerFrames
    <3> QED BY <3>1, <3>2, CheckedWhileCallRuns
  <2>3. CASE ManagePoolBalanceReturn
    BY <2>3, CheckedBetweenCalls DEF ManagePoolBalanceReturn, Leave
  <2> QED BY <1>7, <2>1, <2>2, <2>3 DEF ManagerOperations
<1>8. CASE Administration \/ NextBlock
  <2>1. frame' = Idle
    BY <1>8 DEF Administration, setRelayerApproval, setPaused, NextBlock, MayCall,
       NotEntered, callVars
  <2> QED BY <2>1, CheckedBetweenCalls
<1>9. CASE Collector \/ UNCHANGED vars
  <2>1. UNCHANGED <<approvedRelayers, pauseVars, frame, saved>>
    BY <1>9 DEF Collector, withdrawCollectedFees, setFlashLoanFeePercentage,
       setFlashLoanFeeDiscount, accessVars, callVars, vars
  <2> QED BY <2>1, CheckedWhileCallRuns
<1>10. CASE World /\ ~NextBlock
  <2>1. UNCHANGED <<approvedRelayers, pauseVars, frame, saved>>
    BY <1>10 DEF World, Donate, Distribute, ForceEth, AuthorizerChanges, Sign, accessVars,
       callVars
  <2> QED BY <2>1, CheckedWhileCallRuns
<1>11. CASE Revert
  BY <1>11, CheckedBetweenCalls DEF Revert, Leave
<1> QED BY <1>1, <1>2, <1>3, <1>4, <1>5, <1>6, <1>7, <1>8, <1>9, <1>10, <1>11 DEF Next

LEMMA CheckedInvariance == Spec => []Checked
<1>1. Init => Checked
  BY DEF Init, Idle, Checked, Willed, PauseBinds
<1> QED BY <1>1, CheckedInductive, Invariance, PTL DEF Spec
-----------------------------------------------------------------------------
(***************************************************************************)
(* The steps that touch what the Vault owes; every other one leaves it     *)
(* alone, unless it undoes a call.                                         *)
(***************************************************************************)
BalanceStep ==
  \/ \E p \in Pools, ts \in SUBSET Tokens : deregisterTokens(p, ts)
  \/ \E amounts, fees \in [DOMAIN frame.cached -> Amounts] :
       JoinPoolReturn(amounts, fees) \/ ExitPoolReturn(amounts, fees)
  \/ \E calculated \in Amounts : SwapReturn(calculated) \/ BatchSwapStepReturn(calculated)
  \/ BatchSwapReturn
  \/ \E kind \in UserBalanceOpKinds, asset \in InputAssets, amount \in Amounts,
        sender, recipient \in Users :
       UserBalanceOp(kind, asset, amount, sender, recipient)
  \/ \E kind \in PoolBalanceOpKinds, p \in Pools, t \in Tokens, amount \in Amounts :
       PoolBalanceOp(kind, p, t, amount)

LEMMA OnlyBalanceSteps ==
  ASSUME IInv, [Next]_vars, ~Undone
  PROVE  UNCHANGED <<balances, internal>> \/ BalanceStep
<1>1. CASE Registry
  <2>1. ASSUME NEW p, registerPool(p) PROVE UNCHANGED <<balances, internal>>
    BY <2>1 DEF registerPool
  <2>2. ASSUME NEW p, NEW ts, NEW manager, registerTokens(p, ts, manager)
        PROVE  UNCHANGED <<balances, internal>>
    BY <2>2 DEF registerTokens
  <2>3. ASSUME NEW p \in Pools, NEW ts \in SUBSET Tokens, deregisterTokens(p, ts)
        PROVE  BalanceStep
    BY <2>3 DEF BalanceStep
  <2> QED BY <1>1, <2>1, <2>2, <2>3 DEF Registry
<1>2. CASE JoinsAndExits
  <2>1. ASSUME NEW kind, NEW caller, NEW sender, NEW recipient, NEW p, NEW limits,
               NEW useInternalBalance, NEW useEth, NEW value,
               JoinOrExit(kind, caller, sender, recipient, p, limits, useInternalBalance,
                          useEth, value)
        PROVE  UNCHANGED <<balances, internal>>
    BY <2>1 DEF JoinOrExit
  <2>2. ASSUME NEW amounts \in [DOMAIN frame.cached -> Amounts],
               NEW fees \in [DOMAIN frame.cached -> Amounts],
               JoinPoolReturn(amounts, fees) \/ ExitPoolReturn(amounts, fees)
        PROVE  BalanceStep
    BY <2>2 DEF BalanceStep
  <2> QED BY <1>2, <2>1, <2>2 DEF JoinsAndExits
<1>3. CASE SwapCalls
  <2>1. ASSUME NEW caller, NEW sender, NEW recipient, NEW p, NEW kind, NEW assetIn,
               NEW assetOut, NEW amount, NEW limit, NEW fromInternal, NEW toInternal,
               NEW deadline, NEW value,
               swap(caller, sender, recipient, p, kind, assetIn, assetOut, amount,
                    limit, fromInternal, toInternal, deadline, value)
        PROVE  UNCHANGED <<balances, internal>>
    BY <2>1 DEF swap
  <2>2. ASSUME NEW caller, NEW sender, NEW recipient, NEW kind, NEW limits,
               NEW fromInternal, NEW toInternal, NEW deadline, NEW value,
               batchSwap(caller, sender, recipient, kind, limits, fromInternal,
                         toInternal, deadline, value)
        PROVE  UNCHANGED <<balances, internal>>
    BY <2>2 DEF batchSwap
  <2> QED BY <1>3, <2>1, <2>2 DEF SwapCalls
<1>4. CASE SwapReturns
  <2>1. ASSUME NEW p, NEW assetIn, NEW assetOut, NEW amount,
               BatchSwapStep(p, assetIn, assetOut, amount)
        PROVE  UNCHANGED <<balances, internal>>
    BY <2>1 DEF BatchSwapStep
  <2>2. ASSUME NEW calculated \in Amounts,
               SwapReturn(calculated) \/ BatchSwapStepReturn(calculated)
        PROVE  BalanceStep
    BY <2>2 DEF BalanceStep
  <2>3. ASSUME BatchSwapReturn PROVE BalanceStep
    BY <2>3 DEF BalanceStep
  <2> QED BY <1>4, <2>1, <2>2, <2>3 DEF SwapReturns
<1>5. CASE Loans
  BY <1>5 DEF Loans, flashLoan, FlashLoanReturn
<1>6. CASE UserOperations
  <2>1. ASSUME NEW caller, NEW value, manageUserBalance(caller, value)
        PROVE  UNCHANGED <<balances, internal>>
    BY <2>1 DEF manageUserBalance
  <2>2. ASSUME NEW kind \in UserBalanceOpKinds, NEW asset \in InputAssets,
               NEW amount \in Amounts, NEW sender \in Users, NEW recipient \in Users,
               UserBalanceOp(kind, asset, amount, sender, recipient)
        PROVE  BalanceStep
    BY <2>2 DEF BalanceStep
  <2>3. CASE ManageUserBalanceReturn
    BY <2>3 DEF ManageUserBalanceReturn
  <2> QED BY <1>6, <2>1, <2>2, <2>3 DEF UserOperations
<1>7. CASE ManagerOperations
  <2>1. ASSUME NEW caller, managePoolBalance(caller) PROVE UNCHANGED <<balances, internal>>
    BY <2>1 DEF managePoolBalance
  <2>2. ASSUME NEW kind \in PoolBalanceOpKinds, NEW p \in Pools, NEW t \in Tokens,
               NEW amount \in Amounts, PoolBalanceOp(kind, p, t, amount)
        PROVE  BalanceStep
    BY <2>2 DEF BalanceStep
  <2>3. CASE ManagePoolBalanceReturn
    BY <2>3 DEF ManagePoolBalanceReturn
  <2> QED BY <1>7, <2>1, <2>2, <2>3 DEF ManagerOperations
<1>8. CASE Collector \/ Administration \/ World \/ UNCHANGED vars
  BY <1>8 DEF Collector, withdrawCollectedFees, setFlashLoanFeePercentage,
     setFlashLoanFeeDiscount, Administration, setRelayerApproval, setPaused,
     World, Donate, Distribute, ForceEth, AuthorizerChanges, Sign, NextBlock, vars
<1>9. CASE Revert
  BY <1>9, RevertUndoes
<1> QED BY <1>1, <1>2, <1>3, <1>4, <1>5, <1>6, <1>7, <1>8, <1>9 DEF Next
-----------------------------------------------------------------------------
\* Transfers debit nobody but their sender and credit nobody but their recipient.
LEMMA TransferMoves ==
  ASSUME TypeOK, NEW sender \in Users, NEW recipient \in Users,
         NEW amountsIn \in [Assets -> Nat], NEW amountsOut \in [Assets -> Nat],
         NEW fromInternal \in BOOLEAN, NEW toInternal \in BOOLEAN,
         NEW feeAmounts \in [Tokens -> Nat], NEW value,
         TransferAssets(sender, amountsIn, fromInternal, recipient, amountsOut,
                        toInternal, feeAmounts, value),
         NEW u \in Users, NEW t \in Tokens
  PROVE  /\ internal'[u][t] < internal[u][t] => u = sender
         /\ internal'[u][t] > internal[u][t] => u = recipient
<1> DEFINE deducted == Deducted(sender, amountsIn, fromInternal)
           credited == [s \in Tokens |-> IF toInternal THEN amountsOut[s] ELSE 0]
<1>1. amountsIn[t] \in Nat /\ amountsOut[t] \in Nat
  BY Inputs
<1>2. internal[u][t] \in Nat /\ internal[sender][t] \in Nat
  BY DEF TypeOK, InternalTyped
<1>3. deducted[t] \in Nat /\ credited[t] \in Nat
  BY <1>1, <1>2 DEF Deducted, Smaller
<1>4. internal' = InternalAfter(sender, deducted, recipient, credited)
  BY DEF TransferAssets
<1> HIDE DEF deducted, credited
<1>5. internal'[u][t] = internal[u][t] - (IF u = sender THEN deducted[t] ELSE 0)
                          + (IF u = recipient THEN credited[t] ELSE 0)
  BY <1>4 DEF InternalAfter
<1> QED BY <1>2, <1>3, <1>5

\* So do the calls that end with them, of the users the calls name.
LEMMA PoolCallMoves ==
  ASSUME IInv,
         \/ \E amounts, fees \in [DOMAIN frame.cached -> Amounts] :
              JoinPoolReturn(amounts, fees) \/ ExitPoolReturn(amounts, fees)
         \/ \E calculated \in Amounts : SwapReturn(calculated)
         \/ BatchSwapReturn,
         NEW u \in Users, NEW t \in Tokens
  PROVE  /\ frame.kind \in {"joinPool", "exitPool", "swap", "batchSwap"}
         /\ internal'[u][t] < internal[u][t] => u = frame.sender
         /\ internal'[u][t] > internal[u][t] => u = frame.recipient
<1> DEFINE externally == FALSE
<1>1. externally \in BOOLEAN /\ TypeOK
  BY DEF IInv
<1>2. NoAmounts \in [Assets -> Nat] /\ NoTokens \in [Tokens -> Nat]
  BY DEF NoAmounts, NoTokens
<1> HIDE DEF externally
<1>3. ASSUME NEW amounts \in [DOMAIN frame.cached -> Amounts],
             NEW fees \in [DOMAIN frame.cached -> Amounts],
             JoinPoolReturn(amounts, fees) \/ ExitPoolReturn(amounts, fees)
      PROVE  /\ frame.kind \in {"joinPool", "exitPool"}
             /\ internal'[u][t] < internal[u][t] => u = frame.sender
             /\ internal'[u][t] > internal[u][t] => u = frame.recipient
  <2> DEFINE moved == AsAssets(amounts, frame.useEth)
             feeAmounts == FeesOf(fees)
  <2>1. JoinExitFrame(frame) /\ frame.kind \in {"joinPool", "exitPool"}
    BY <1>3, FrameKinds DEF JoinPoolReturn, ExitPoolReturn, PoolBalanceChangeKinds, IInv
  <2>2. /\ frame.sender \in Users /\ frame.recipient \in Users
        /\ frame.useInternalBalance \in BOOLEAN /\ frame.useEth \in BOOLEAN
        /\ OfTokens(frame.cached, Balance)
    BY <2>1 DEF JoinExitFrame
  <2>3. OfTokens(amounts, Nat) /\ OfTokens(fees, Nat)
    BY <2>2, VaultAssumption DEF OfTokens
  <2>4. moved \in [Assets -> Nat] /\ feeAmounts \in [Tokens -> Nat]
    BY <2>2, <2>3, AsAssetsTyped
  <2>5. \/ TransferAssets(frame.sender, moved, frame.useInternalBalance, frame.recipient,
                          NoAmounts, externally, feeAmounts, frame.value)
        \/ TransferAssets(frame.sender, NoAmounts, externally, frame.recipient, moved,
                          frame.useInternalBalance, feeAmounts, frame.value)
    BY <1>3 DEF JoinPoolReturn, ExitPoolReturn, externally
  <2> HIDE DEF moved, feeAmounts
  <2> QED BY <1>1, <1>2, <2>1, <2>2, <2>4, <2>5, TransferMoves
<1>4. ASSUME NEW calculated \in Amounts, SwapReturn(calculated)
      PROVE  /\ frame.kind = "swap"
             /\ internal'[u][t] < internal[u][t] => u = frame.sender
             /\ internal'[u][t] > internal[u][t] => u = frame.recipient
  <2> DEFINE request == frame.request
             amounts == getAmounts(frame.swapKind, request.amount, calculated)
             amountsIn == [NoAmounts EXCEPT ![request.assetIn] = amounts.in]
             amountsOut == [NoAmounts EXCEPT ![request.assetOut] = amounts.out]
  <2>1. SwapFrame(frame) /\ frame.kind = "swap"
    BY <1>4, FrameKinds DEF SwapReturn, IInv
  <2>2. /\ frame.sender \in Users /\ frame.recipient \in Users
        /\ frame.fromInternal \in BOOLEAN /\ frame.toInternal \in BOOLEAN
        /\ Request(request)
    BY <2>1 DEF SwapFrame
  <2>3. request.amount \in Nat /\ calculated \in Nat
    BY <2>2, VaultAssumption DEF Request
  <2>4. amounts \in [in: Nat, out: Nat]
    BY <2>3, AmountsTyped
  <2>5. TransferAssets(frame.sender, amountsIn, frame.fromInternal, frame.recipient,
                       amountsOut, frame.toInternal, NoTokens, frame.value)
    BY <1>4 DEF SwapReturn
  <2> HIDE DEF amounts
  <2>6. amountsIn \in [Assets -> Nat] /\ amountsOut \in [Assets -> Nat]
    <3> HIDE DEF request
    <3> QED BY <2>4 DEF NoAmounts
  <2> HIDE DEF amountsIn, amountsOut, request
  <2> QED BY <1>1, <1>2, <2>1, <2>2, <2>5, <2>6, TransferMoves
<1>5. ASSUME BatchSwapReturn
      PROVE  /\ frame.kind = "batchSwap"
             /\ internal'[u][t] < internal[u][t] => u = frame.sender
             /\ internal'[u][t] > internal[u][t] => u = frame.recipient
  <2> DEFINE owed == [a \in Assets |-> IF frame.deltas[a] > 0 THEN frame.deltas[a] ELSE 0]
             due == [a \in Assets |-> IF frame.deltas[a] < 0 THEN -frame.deltas[a] ELSE 0]
  <2>1. BatchFrame(frame) /\ frame.kind = "batchSwap"
    BY <1>5, FrameKinds DEF BatchSwapReturn, IInv
  <2>2. /\ frame.sender \in Users /\ frame.recipient \in Users
        /\ frame.fromInternal \in BOOLEAN /\ frame.toInternal \in BOOLEAN
        /\ frame.deltas \in [Assets -> Int]
    BY <2>1 DEF BatchFrame
  <2>3. owed \in [Assets -> Nat] /\ due \in [Assets -> Nat]
    BY <2>2
  <2>4. TransferAssets(frame.sender, owed, frame.fromInternal, frame.recipient, due,
                       frame.toInternal, NoTokens, frame.value)
    BY <1>5 DEF BatchSwapReturn
  <2> HIDE DEF owed, due
  <2> QED BY <1>1, <1>2, <2>1, <2>2, <2>3, <2>4, TransferMoves
<1> QED BY <1>3, <1>4, <1>5

\* An operation of manageUserBalance debits only the user it names, who is the caller
\* or approved it, and it credits nobody while the Vault is paused.
LEMMA UserOperationSpends ==
  ASSUME IInv, NEW kind \in UserBalanceOpKinds, NEW asset \in InputAssets,
         NEW amount \in Amounts, NEW sender \in Users, NEW recipient \in Users,
         UserBalanceOp(kind, asset, amount, sender, recipient),
         NEW u \in Users, NEW t \in Tokens
  PROVE  /\ internal'[u][t] < internal[u][t] =>
              u = frame.caller \/ frame.caller \in approvedRelayers[u]
         /\ internal'[u][t] > internal[u][t] => kind # "WITHDRAW_INTERNAL"
<1>1. internal \in [Users -> [Tokens -> Nat]] /\ internal[u][t] \in Nat
  BY DEF IInv, TypeOK, InternalTyped
<1>2. amount \in Nat /\ translate(asset) \in Tokens
  BY VaultAssumption, Inputs
<1>3. sender = frame.caller \/ frame.caller \in approvedRelayers[sender]
  BY DEF UserBalanceOp, validateUserBalanceOp
<1>4. CASE kind = "DEPOSIT_INTERNAL"
  <2>1. deposit(asset, amount, recipient)
    BY <1>4 DEF UserBalanceOp
  <2>2. internal' = [internal EXCEPT ![recipient][translate(asset)] = @ + amount]
    BY <2>1 DEF deposit, Credit
  <2>3. internal'[u][t] = internal[u][t] \/ internal'[u][t] = internal[u][t] + amount
    BY <1>1, <1>2, <2>2
  <2> QED BY <1>1, <1>2, <1>4, <2>3
<1>5. CASE kind = "WITHDRAW_INTERNAL"
  <2>1. withdraw(asset, amount, sender)
    BY <1>5 DEF UserBalanceOp
  <2>2. internal' = [internal EXCEPT ![sender][translate(asset)] = @ - amount]
    BY <2>1 DEF withdraw, Debit
  <2>3. /\ u # sender => internal'[u][t] = internal[u][t]
        /\ internal'[u][t] = internal[u][t] \/ internal'[u][t] = internal[u][t] - amount
    BY <1>1, <1>2, <2>2
  <2> QED BY <1>1, <1>2, <1>3, <2>3
<1>6. CASE kind = "TRANSFER_INTERNAL"
  <2> DEFINE n == [NoTokens EXCEPT ![asset] = amount]
  <2>1. transferInternal(asset, amount, sender, recipient)
    BY <1>6 DEF UserBalanceOp
  <2>2. internal' = InternalAfter(sender, n, recipient, n)
    BY <2>1 DEF transferInternal
  <2>3. n \in [Tokens -> Nat]
    BY <1>2 DEF NoTokens
  <2>4. n[t] \in Nat
    BY <2>3
  <2> HIDE DEF n
  <2>5. internal'[u][t] = internal[u][t] - (IF u = sender THEN n[t] ELSE 0)
                            + (IF u = recipient THEN n[t] ELSE 0)
    BY <2>2 DEF InternalAfter
  <2> QED BY <1>1, <1>3, <1>6, <2>4, <2>5
<1>7. CASE kind = "TRANSFER_EXTERNAL"
  <2>1. internal' = internal
    BY <1>7 DEF UserBalanceOp
  <2> QED BY <1>1, <2>1
<1> QED BY <1>4, <1>5, <1>6, <1>7 DEF UserBalanceOpKinds

(***************************************************************************)
(* Nobody's Internal Balance goes down but in a call made by that user, by *)
(* a relayer the user approved, or by an account the user signed for       *)
(* before the call; whatever else happens while the call runs, and         *)
(* although the check is made in one step and the spending in a later one. *)
(***************************************************************************)
THEOREM OnlyTheWillingSpend == Spec => SpentByUsersWill
<1>1. IInv /\ Checked /\ [Next]_vars =>
        [\A u \in Users, t \in Tokens :
           internal'[u][t] < internal[u][t] /\ ~Undone =>
             \/ frame.caller = u
             \/ frame.caller \in approvedRelayers[u]
             \/ <<u, frame.caller>> \in saved.signatures]_vars
  <2> SUFFICES ASSUME IInv, Checked, [Next]_vars, NEW u \in Users, NEW t \in Tokens,
                      internal'[u][t] < internal[u][t], ~Undone
               PROVE  \/ frame.caller = u
                      \/ frame.caller \in approvedRelayers[u]
                      \/ <<u, frame.caller>> \in saved.signatures
    OBVIOUS
  <2>1. ~UNCHANGED internal
    <3>1. internal[u][t] \in Nat
      BY DEF IInv, TypeOK, InternalTyped
    <3> QED BY <3>1
  <2>2. BalanceStep
    BY <2>1, OnlyBalanceSteps
  <2>3. CASE \E p \in Pools, ts \in SUBSET Tokens : deregisterTokens(p, ts)
    BY <2>1, <2>3 DEF deregisterTokens
  <2>4. CASE \/ \E amounts, fees \in [DOMAIN frame.cached -> Amounts] :
                  JoinPoolReturn(amounts, fees) \/ ExitPoolReturn(amounts, fees)
             \/ \E calculated \in Amounts : SwapReturn(calculated)
             \/ BatchSwapReturn
    <3>1. frame.kind \in {"joinPool", "exitPool", "swap", "batchSwap"} /\ u = frame.sender
      BY <2>4, PoolCallMoves
    <3> QED BY <3>1 DEF Checked, Willed
  <2>5. CASE \E calculated \in Amounts : BatchSwapStepReturn(calculated)
    BY <2>1, <2>5 DEF BatchSwapStepReturn
  <2>6. CASE \E kind \in UserBalanceOpKinds, asset \in InputAssets, amount \in Amounts,
                sender, recipient \in Users :
               UserBalanceOp(kind, asset, amount, sender, recipient)
    BY <2>6, UserOperationSpends
  <2>7. CASE \E kind \in PoolBalanceOpKinds, p \in Pools, s \in Tokens, amount \in Amounts :
               PoolBalanceOp(kind, p, s, amount)
    BY <2>1, <2>7 DEF PoolBalanceOp
  <2> QED BY <2>2, <2>3, <2>4, <2>5, <2>6, <2>7 DEF BalanceStep
<1> QED BY <1>1, CheckedInvariance, Invariance, PTL DEF Spec, SpentByUsersWill
-----------------------------------------------------------------------------
(***************************************************************************)
(* What the Pools' calls write: fitting balances, all with the current     *)
(* block.                                                                  *)
(***************************************************************************)
Stamped(p, changed) ==
  /\ p \in Pools /\ StoreBalances(p, changed)
  /\ DOMAIN changed \subseteq poolTokens[p] /\ poolTokens[p] \subseteq Tokens
  /\ \A t \in DOMAIN changed : changed[t] \in Balance /\ changed[t].lastChangeBlock = clock

LEMMA CachedByCall ==
  ASSUME IInv, RInv, frame.kind \in {"joinPool", "exitPool"}
  PROVE  /\ frame.pool \in Pools /\ OfTokens(frame.cached, Balance)
         /\ DOMAIN frame.cached = poolTokens[frame.pool]
         /\ poolTokens[frame.pool] \subseteq Tokens
         /\ \A t \in DOMAIN frame.cached :
              frame.cached[t] \in Balance /\ frame.cached[t] = balances[frame.pool][t]
<1>1. JoinExitFrame(frame)
  BY FrameKinds DEF PoolBalanceChangeKinds, IInv
<1>2. frame.pool \in Pools /\ OfTokens(frame.cached, Balance)
  BY <1>1 DEF JoinExitFrame
<1>3. frame.cached = PoolBalancesOf(frame.pool)
  BY DEF RInv, CachedBalancesCurrent
<1>4. poolTokens[frame.pool] \subseteq Tokens
  BY <1>2 DEF IInv, TypeOK, RegistryTyped
<1> QED BY <1>2, <1>3, <1>4 DEF PoolBalancesOf, OfTokens

LEMMA JoinStamps ==
  ASSUME IInv, RInv, NEW amountsIn \in [DOMAIN frame.cached -> Amounts],
         NEW fees \in [DOMAIN frame.cached -> Amounts], JoinPoolReturn(amountsIn, fees)
  PROVE  \E changed : Stamped(frame.pool, changed) /\ DOMAIN changed = poolTokens[frame.pool]
<1> DEFINE final == [s \in DOMAIN frame.cached |->
                       joinedBalance(frame.cached[s], amountsIn[s], fees[s])]
<1>1. /\ frame.pool \in Pools /\ DOMAIN frame.cached = poolTokens[frame.pool]
      /\ poolTokens[frame.pool] \subseteq Tokens
      /\ \A s \in DOMAIN frame.cached : frame.cached[s] \in Balance
  BY CachedByCall DEF JoinPoolReturn
<1>2. ASSUME NEW s \in DOMAIN frame.cached
      PROVE  final[s] \in Balance /\ final[s].lastChangeBlock = clock
  <2>1. Fits(joinedBalance(frame.cached[s], amountsIn[s], fees[s]))
    BY DEF JoinPoolReturn
  <2>2. frame.cached[s] \in Balance /\ clock \in Nat /\ amountsIn[s] \in Nat /\ fees[s] \in Nat
    <3>1. Amounts \subseteq Nat /\ clock \in Nat
      BY VaultAssumption DEF IInv, TypeOK, PauseTyped
    <3> QED BY <1>1, <3>1
  <2>3. CASE amountsIn[s] >= fees[s]
    <3>1. amountsIn[s] - fees[s] \in Nat
      BY <2>2, <2>3
    <3>2. final[s] = increaseCash(frame.cached[s], amountsIn[s] - fees[s], clock)
      BY <2>3 DEF joinedBalance
    <3>3. final[s].lastChangeBlock = clock
      BY <3>2 DEF increaseCash, toBalance
    <3> QED BY <2>1, <2>2, <3>1, <3>2, <3>3, BalanceOperations
  <2>4. CASE ~(amountsIn[s] >= fees[s])
    <3>1. fees[s] - amountsIn[s] \in Nat
      BY <2>2, <2>4
    <3>2. final[s] = decreaseCash(frame.cached[s], fees[s] - amountsIn[s], clock)
      BY <2>4 DEF joinedBalance
    <3>3. final[s].lastChangeBlock = clock
      BY <3>2 DEF decreaseCash, toBalance
    <3> QED BY <2>1, <2>2, <3>1, <3>2, <3>3, BalanceOperations
  <2> QED BY <2>3, <2>4
<1>3. StoreBalances(frame.pool, final) /\ DOMAIN final = DOMAIN frame.cached
  BY DEF JoinPoolReturn
<1> HIDE DEF final
<1> QED BY <1>1, <1>2, <1>3 DEF Stamped

\* An exit takes cash from the Pool and nothing else.
LEMMA ExitStamps ==
  ASSUME IInv, RInv, NEW amountsOut \in [DOMAIN frame.cached -> Amounts],
         NEW fees \in [DOMAIN frame.cached -> Amounts], ExitPoolReturn(amountsOut, fees)
  PROVE  \E changed : /\ Stamped(frame.pool, changed)
                      /\ DOMAIN changed = poolTokens[frame.pool]
                      /\ \A t \in DOMAIN changed :
                           /\ changed[t].cash <= balances[frame.pool][t].cash
                           /\ changed[t].managed = balances[frame.pool][t].managed
<1> DEFINE final == [s \in DOMAIN frame.cached |->
                       exitedBalance(frame.cached[s], amountsOut[s], fees[s])]
<1>1. /\ frame.pool \in Pools /\ DOMAIN frame.cached = poolTokens[frame.pool]
      /\ poolTokens[frame.pool] \subseteq Tokens
      /\ \A s \in DOMAIN frame.cached :
           frame.cached[s] \in Balance /\ frame.cached[s] = balances[frame.pool][s]
  BY CachedByCall DEF ExitPoolReturn
<1>2. ASSUME NEW s \in DOMAIN frame.cached
      PROVE  /\ final[s] \in Balance /\ final[s].lastChangeBlock = clock
             /\ final[s].cash <= balances[frame.pool][s].cash
             /\ final[s].managed = balances[frame.pool][s].managed
  <2>1. Fits(exitedBalance(frame.cached[s], amountsOut[s], fees[s]))
    BY DEF ExitPoolReturn
  <2>2. /\ frame.cached[s] \in Balance /\ clock \in Nat
        /\ amountsOut[s] \in Nat /\ fees[s] \in Nat
    <3>1. Amounts \subseteq Nat /\ clock \in Nat
      BY VaultAssumption DEF IInv, TypeOK, PauseTyped
    <3> QED BY <1>1, <3>1
  <2>3. amountsOut[s] + fees[s] \in Nat /\ frame.cached[s].cash \in Nat
    BY <2>2, TotalCapAssumption DEF Balance
  <2>4. final[s] = decreaseCash(frame.cached[s], amountsOut[s] + fees[s], clock)
    BY DEF exitedBalance
  <2>5. /\ final[s].lastChangeBlock = clock
        /\ final[s].cash = frame.cached[s].cash - (amountsOut[s] + fees[s])
        /\ final[s].managed = frame.cached[s].managed
    BY <2>4 DEF decreaseCash, toBalance
  <2>6. final[s] \in Balance
    BY <2>1, <2>2, <2>3, <2>4, BalanceOperations
  <2>7. final[s].cash <= frame.cached[s].cash
    BY <2>3, <2>5
  <2> QED BY <1>1, <2>5, <2>6, <2>7
<1>3. StoreBalances(frame.pool, final) /\ DOMAIN final = DOMAIN frame.cached
  BY DEF ExitPoolReturn
<1> HIDE DEF final
<1> QED BY <1>1, <1>2, <1>3 DEF Stamped

LEMMA SwapStamps ==
  ASSUME IInv, RInv, frame.kind \in {"swap", "batchSwap"}, frame.request # NoRequest,
         Request(frame.request), NEW amounts \in [in: Nat, out: Nat],
         ProcessSwapRequest(frame.request, amounts)
  PROVE  \E changed : /\ Stamped(frame.request.pool, changed)
                      /\ DOMAIN changed = {translate(frame.request.assetIn),
                                           translate(frame.request.assetOut)}
<1> DEFINE r == frame.request
           tokenIn  == translate(r.assetIn)
           tokenOut == translate(r.assetOut)
           final == [s \in {tokenIn, tokenOut} |->
                       IF s = tokenIn
                         THEN increaseCash(r.cached[s], amounts.in, clock)
                         ELSE decreaseCash(r.cached[s], amounts.out, clock)]
<1>1. /\ \A s \in {tokenIn, tokenOut} : Fits(final[s])
      /\ StoreBalances(r.pool, final)
  BY DEF ProcessSwapRequest
<1>2. r.pool \in Pools /\ poolTokens[r.pool] \subseteq Tokens
  BY DEF Request, IInv, TypeOK, RegistryTyped
<1>3. clock \in Nat /\ amounts.in \in Nat /\ amounts.out \in Nat
  BY VaultAssumption DEF IInv, TypeOK, PauseTyped
<1>4. DOMAIN r.cached = {tokenIn, tokenOut}
  BY DEF Request
<1>5. \A s \in {tokenIn, tokenOut} : r.cached[s] \in Balance
  BY <1>4 DEF Request, OfTokens
<1>6. {tokenIn, tokenOut} \subseteq poolTokens[r.pool]
  BY <1>4 DEF RInv, CachedBalancesCurrent
<1>7. \A s \in DOMAIN final : final[s] \in Balance
  <2> HIDE DEF tokenIn, tokenOut
  <2> QED BY <1>1, <1>3, <1>5, BalanceOperations
<1>8. \A s \in DOMAIN final : final[s].lastChangeBlock = clock
  <2> HIDE DEF tokenIn, tokenOut
  <2> QED BY DEF increaseCash, decreaseCash, toBalance
<1>9. DOMAIN final = {tokenIn, tokenOut}
  OBVIOUS
<1> HIDE DEF final
<1> QED BY <1>1, <1>2, <1>6, <1>7, <1>8, <1>9 DEF Stamped

\* Where a stamped write leaves the balances.
LEMMA StampedWrite ==
  ASSUME IInv, NEW p, NEW changed, Stamped(p, changed)
  PROVE  \A q \in Pools, t \in Tokens :
           balances'[q][t] = IF q = p /\ t \in DOMAIN changed THEN changed[t]
                                                              ELSE balances[q][t]
<1>1. /\ p \in Pools /\ StoreBalances(p, changed) /\ DOMAIN changed \subseteq Tokens
      /\ \A t \in DOMAIN changed : changed[t] \in Balance
  BY DEF Stamped
<1> QED BY <1>1, Stored DEF IInv, TypeOK
-----------------------------------------------------------------------------
(***************************************************************************)
(* While the Vault is paused Pools and users only get their tokens out.    *)
(* A call that began before the pause does not carry on through it, and    *)
(* the one check a list of operations makes covers all of them.            *)
(***************************************************************************)
THEOREM PauseStopsIntake == Spec => PausedOnlyPaysOut
<1>1. IInv /\ RInv /\ Checked /\ [Next]_vars =>
        [~NotPaused /\ ~Undone =>
           /\ \A p \in Pools, t \in Tokens :
                /\ balances'[p][t].cash <= balances[p][t].cash
                /\ balances'[p][t].managed = balances[p][t].managed
           /\ \A u \in Users, t \in Tokens :
                internal'[u][t] > internal[u][t] =>
                  frame.kind = "exitPool" /\ u = frame.recipient]_vars
  <2> SUFFICES ASSUME IInv, RInv, Checked, [Next]_vars, ~NotPaused, ~Undone
               PROVE  /\ \A p \in Pools, t \in Tokens :
                           /\ balances'[p][t].cash <= balances[p][t].cash
                           /\ balances'[p][t].managed = balances[p][t].managed
                      /\ \A u \in Users, t \in Tokens :
                           internal'[u][t] > internal[u][t] =>
                             frame.kind = "exitPool" /\ u = frame.recipient
    OBVIOUS
  <2>1. /\ \A p \in Pools, t \in Tokens : balances[p][t].cash \in Nat
        /\ \A u \in Users, t \in Tokens : internal[u][t] \in Nat
    BY TotalCapAssumption DEF IInv, TypeOK, BalancesTyped, InternalTyped, Balance
  <2>2. CASE UNCHANGED <<balances, internal>>
    BY <2>1, <2>2
  <2>3. ASSUME NEW p, NEW ts, deregisterTokens(p, ts) PROVE FALSE
    BY <2>3 DEF deregisterTokens
  <2>4. ASSUME NEW amounts \in [DOMAIN frame.cached -> Amounts],
               NEW fees \in [DOMAIN frame.cached -> Amounts], JoinPoolReturn(amounts, fees)
        PROVE  FALSE
    BY <2>4 DEF JoinPoolReturn, Checked, PauseBinds
  <2>5. ASSUME NEW calculated, SwapReturn(calculated) \/ BatchSwapStepReturn(calculated)
        PROVE  FALSE
    BY <2>5 DEF SwapReturn, BatchSwapStepReturn, Checked, PauseBinds
  <2>6. ASSUME BatchSwapReturn PROVE FALSE
    BY <2>6 DEF BatchSwapReturn, Checked, PauseBinds
  <2>7. ASSUME NEW kind, NEW p, NEW t, NEW amount, PoolBalanceOp(kind, p, t, amount)
        PROVE  FALSE
    BY <2>7 DEF PoolBalanceOp, Checked, PauseBinds
  <2>8. ASSUME NEW amounts \in [DOMAIN frame.cached -> Amounts],
               NEW fees \in [DOMAIN frame.cached -> Amounts], ExitPoolReturn(amounts, fees)
        PROVE  /\ \A p \in Pools, t \in Tokens :
                    /\ balances'[p][t].cash <= balances[p][t].cash
                    /\ balances'[p][t].managed = balances[p][t].managed
               /\ \A u \in Users, t \in Tokens :
                    internal'[u][t] > internal[u][t] =>
                      frame.kind = "exitPool" /\ u = frame.recipient
    <3>1. PICK changed : /\ Stamped(frame.pool, changed)
                         /\ \A t \in DOMAIN changed :
                              /\ changed[t].cash <= balances[frame.pool][t].cash
                              /\ changed[t].managed = balances[frame.pool][t].managed
      BY <2>8, ExitStamps
    <3>2. frame.kind = "exitPool"
      BY <2>8 DEF ExitPoolReturn
    <3> QED BY <2>1, <2>8, <3>1, <3>2, StampedWrite, PoolCallMoves
  <2>9. ASSUME NEW kind \in UserBalanceOpKinds, NEW asset \in InputAssets,
               NEW amount \in Amounts, NEW sender \in Users, NEW recipient \in Users,
               UserBalanceOp(kind, asset, amount, sender, recipient)
        PROVE  /\ \A p \in Pools, t \in Tokens :
                    /\ balances'[p][t].cash <= balances[p][t].cash
                    /\ balances'[p][t].managed = balances[p][t].managed
               /\ \A u \in Users, t \in Tokens :
                    internal'[u][t] > internal[u][t] =>
                      frame.kind = "exitPool" /\ u = frame.recipient
    <3>1. /\ frame.kind = "manageUserBalance" /\ pauseCheck(kind)
          /\ UNCHANGED balances
      BY <2>9 DEF UserBalanceOp
    <3>2. kind = "WITHDRAW_INTERNAL"
      BY <3>1 DEF pauseCheck, Checked, PauseBinds
    <3> QED BY <2>1, <2>9, <3>1, <3>2, UserOperationSpends
  <2> QED BY <2>2, <2>3, <2>4, <2>5, <2>6, <2>7, <2>8, <2>9, OnlyBalanceSteps DEF BalanceStep
<1> QED BY <1>1, CheckedInvariance, RegistryInvariance, Invariance, PTL
    DEF Spec, PausedOnlyPaysOut
-----------------------------------------------------------------------------
\* An Asset Manager's operation writes one balance: its own moves keep the total and
\* its block, its reports stamp the block.
LEMMA ManagerWrites ==
  ASSUME IInv, NEW kind \in PoolBalanceOpKinds, NEW p \in Pools, NEW t \in Tokens,
         NEW amount \in Amounts, PoolBalanceOp(kind, p, t, amount)
  PROVE  \E b \in Balance :
           /\ StoreBalance(p, t, b)
           /\ \/ /\ total(b) = total(balances[p][t])
                 /\ b.lastChangeBlock = balances[p][t].lastChangeBlock
              \/ b.lastChangeBlock = clock /\ held' = held
<1>1. amount \in Nat /\ balances[p][t] \in Balance /\ clock \in Nat
  BY VaultAssumption DEF IInv, TypeOK, BalancesTyped, PauseTyped
<1>2. balances[p][t].cash \in Int /\ balances[p][t].managed \in Int
  BY <1>1, TotalCapAssumption DEF Balance
<1>3. CASE kind = "WITHDRAW"
  <2> DEFINE b == cashToManaged(balances[p][t], amount)
  <2>1. Fits(b) /\ StoreBalance(p, t, b)
    BY <1>3 DEF PoolBalanceOp, withdrawPoolBalance
  <2>2. b \in Balance
    BY <1>1, <2>1, BalanceOperations
  <2>3. /\ b.cash = balances[p][t].cash - amount /\ b.managed = balances[p][t].managed + amount
        /\ b.lastChangeBlock = balances[p][t].lastChangeBlock
    BY DEF cashToManaged, toBalance
  <2> HIDE DEF b
  <2>4. total(b) = total(balances[p][t])
    BY <1>1, <1>2, <2>3 DEF total
  <2> QED BY <2>1, <2>2, <2>3, <2>4
<1>4. CASE kind = "DEPOSIT"
  <2> DEFINE b == managedToCash(balances[p][t], amount)
  <2>1. Fits(b) /\ StoreBalance(p, t, b)
    BY <1>4 DEF PoolBalanceOp, depositPoolBalance
  <2>2. b \in Balance
    BY <1>1, <2>1, BalanceOperations
  <2>3. /\ b.cash = balances[p][t].cash + amount /\ b.managed = balances[p][t].managed - amount
        /\ b.lastChangeBlock = balances[p][t].lastChangeBlock
    BY DEF managedToCash, toBalance
  <2> HIDE DEF b
  <2>4. total(b) = total(balances[p][t])
    BY <1>1, <1>2, <2>3 DEF total
  <2> QED BY <2>1, <2>2, <2>3, <2>4
<1>5. CASE kind = "UPDATE"
  <2> DEFINE b == setManaged(balances[p][t], amount, clock)
  <2>1. Fits(b) /\ StoreBalance(p, t, b) /\ held' = held
    BY <1>5 DEF PoolBalanceOp, updateManagedBalance
  <2>2. b \in Balance
    BY <1>1, <2>1, BalanceOperations
  <2>3. b.lastChangeBlock = clock
    BY DEF setManaged, toBalance
  <2> HIDE DEF b
  <2> QED BY <2>1, <2>2, <2>3
<1> QED BY <1>3, <1>4, <1>5 DEF PoolBalanceOpKinds

\* The other token of a Two Token Pool takes over the later block, nothing else.
Shares(p, t, u) == Specialization[p] = "TWO_TOKEN" /\ u # t /\ u \in poolTokens[p]
LEMMA StoredOneWhere ==
  ASSUME IInv, NEW p \in Pools, NEW t \in Tokens, NEW b \in Balance, StoreBalance(p, t, b),
         NEW q \in Pools, NEW u \in Tokens
  PROVE  /\ q = p /\ u = t => balances'[q][u] = b
         /\ q = p /\ Shares(p, t, u) =>
              /\ total(balances'[q][u]) = total(balances[q][u])
              /\ balances'[q][u].lastChangeBlock =
                   IF b.lastChangeBlock > balances[q][u].lastChangeBlock
                     THEN b.lastChangeBlock ELSE balances[q][u].lastChangeBlock
         /\ ~(q = p /\ u = t) /\ ~(q = p /\ Shares(p, t, u)) =>
              balances'[q][u] = balances[q][u]
<1>1. balances \in [Pools -> [Tokens -> Balance]] /\ balances[q][u] \in Balance
  BY DEF IInv, TypeOK, BalancesTyped
<1>2. balances'[q][u] = IF q = p
                          THEN IF u = t THEN b
                               ELSE IF Specialization[p] = "TWO_TOKEN" /\ u \in poolTokens[p]
                                 THEN sharingBlock(balances[q][u], b) ELSE balances[q][u]
                          ELSE balances[q][u]
  BY <1>1 DEF StoreBalance
<1>3. /\ total(sharingBlock(balances[q][u], b)) = total(balances[q][u])
      /\ sharingBlock(balances[q][u], b).lastChangeBlock =
           IF b.lastChangeBlock > balances[q][u].lastChangeBlock
             THEN b.lastChangeBlock ELSE balances[q][u].lastChangeBlock
  BY <1>1 DEF sharingBlock, total, Balance
<1> QED BY <1>2, <1>3 DEF Shares

\* Writes of Pools' calls: a swap's as well as a join's or an exit's.
PoolWrites ==
  \/ \E amounts, fees \in [DOMAIN frame.cached -> Amounts] :
       JoinPoolReturn(amounts, fees) \/ ExitPoolReturn(amounts, fees)
  \/ \E calculated \in Amounts : SwapReturn(calculated) \/ BatchSwapStepReturn(calculated)

LEMMA PoolWritesStamp ==
  ASSUME IInv, RInv, MInv, PoolWrites
  PROVE  /\ UNCHANGED <<poolVars, pauseVars>> /\ frame # Idle
         /\ \E p, changed :
              /\ Stamped(p, changed)
              /\ \/ DOMAIN changed = poolTokens[p]
                 \/ \E t, u \in poolTokens[p] : t # u /\ DOMAIN changed = {t, u}
<1>1. ASSUME NEW amounts \in [DOMAIN frame.cached -> Amounts],
             NEW fees \in [DOMAIN frame.cached -> Amounts],
             JoinPoolReturn(amounts, fees) \/ ExitPoolReturn(amounts, fees)
      PROVE  /\ UNCHANGED <<poolVars, pauseVars>> /\ frame # Idle
             /\ \E p, changed : Stamped(p, changed) /\ DOMAIN changed = poolTokens[p]
  <2>1. \E p, changed : Stamped(p, changed) /\ DOMAIN changed = poolTokens[p]
    BY <1>1, JoinStamps, ExitStamps
  <2>2. UNCHANGED <<poolVars, pauseVars>> /\ frame.kind \in {"joinPool", "exitPool"}
    BY <1>1 DEF JoinPoolReturn, ExitPoolReturn
  <2> QED BY <2>1, <2>2 DEF Idle
<1>2. ASSUME NEW calculated \in Amounts,
             SwapReturn(calculated) \/ BatchSwapStepReturn(calculated)
      PROVE  /\ UNCHANGED <<poolVars, pauseVars>> /\ frame # Idle
             /\ \E p, changed : Stamped(p, changed)
                  /\ \E t, u \in poolTokens[p] : t # u /\ DOMAIN changed = {t, u}
  <2> DEFINE request == frame.request
             amounts == getAmounts(frame.swapKind, request.amount, calculated)
  <2>1. /\ frame.kind \in {"swap", "batchSwap"} /\ UNCHANGED <<poolVars, pauseVars>>
        /\ ProcessSwapRequest(request, amounts)
    BY <1>2 DEF SwapReturn, BatchSwapStepReturn
  <2>2. frame.kind = "batchSwap" => request # NoRequest
    BY <1>2 DEF SwapReturn, BatchSwapStepReturn
  <2>3. Request(request) /\ request # NoRequest
    BY <2>1, <2>2, FrameKinds DEF IInv, SwapFrame, BatchFrame, Request, NoRequest
  <2>4. request.amount \in Nat /\ calculated \in Nat
    BY <2>3, VaultAssumption DEF Request
  <2>5. amounts \in [in: Nat, out: Nat]
    BY <2>4, AmountsTyped
  <2> HIDE DEF amounts
  <2>6. PICK changed : /\ Stamped(request.pool, changed)
                       /\ DOMAIN changed = {translate(request.assetIn),
                                            translate(request.assetOut)}
    BY <2>1, <2>3, <2>5, SwapStamps
  <2>7. translate(request.assetIn) # translate(request.assetOut)
    BY <2>1, <2>3 DEF MInv, CallLedger, HopBetweenTwo
  <2>8. {translate(request.assetIn), translate(request.assetOut)} \subseteq poolTokens[request.pool]
    BY <2>6 DEF Stamped
  <2>9. frame # Idle
    BY <2>1 DEF Idle
  <2>10. \E t, u \in poolTokens[request.pool] : t # u /\ DOMAIN changed = {t, u}
    BY <2>6, <2>7, <2>8
  <2> HIDE DEF request
  <2> QED BY <2>1, <2>6, <2>9, <2>10
<1> QED BY <1>1, <1>2 DEF PoolWrites

(***************************************************************************)
(* A total never changes but together with its lastChangeBlock, which      *)
(* becomes the current block: in joins, exits, swaps and every hop of a    *)
(* batch, in a manager's report, for either token of a Two Token Pool; and *)
(* what a deregistration deletes had no total.                             *)
(***************************************************************************)
THEOREM BlocksFollowTotals == Spec => TotalChangesStampBlock
<1>1. IInv /\ RInv /\ MInv /\ [Next]_vars =>
        [\A p \in Pools, t \in Tokens :
           ~Undone /\ total(balances'[p][t]) # total(balances[p][t]) =>
             balances'[p][t].lastChangeBlock = clock]_vars
  <2> SUFFICES ASSUME IInv, RInv, MInv, [Next]_vars, NEW p \in Pools, NEW t \in Tokens,
                      ~Undone, total(balances'[p][t]) # total(balances[p][t])
               PROVE  balances'[p][t].lastChangeBlock = clock
    OBVIOUS
  <2>1. BalanceStep /\ balances' # balances
    BY OnlyBalanceSteps
  <2>2. ASSUME NEW q \in Pools, NEW ts \in SUBSET Tokens, deregisterTokens(q, ts) PROVE FALSE
    <3>1. balances \in [Pools -> [Tokens -> Balance]]
      BY DEF IInv, TypeOK, BalancesTyped
    <3>2. /\ p = q /\ t \in ts => balances'[p][t] = EmptyBalance
          /\ ~(p = q /\ t \in ts) => balances'[p][t] = balances[p][t]
      BY <2>2, <3>1 DEF deregisterTokens
    <3>3. p = q /\ t \in ts => isZero(balances[p][t])
      BY <2>2 DEF deregisterTokens, MayDeregister
    <3> QED BY <3>2, <3>3 DEF isZero, total, EmptyBalance
  <2>3. CASE PoolWrites
    <3>1. PICK q, changed : Stamped(q, changed)
      BY <2>3, PoolWritesStamp
    <3> QED BY <3>1, StampedWrite DEF Stamped
  <2>4. ASSUME NEW kind \in PoolBalanceOpKinds, NEW q \in Pools, NEW u \in Tokens,
               NEW amount \in Amounts, PoolBalanceOp(kind, q, u, amount)
        PROVE  balances'[p][t].lastChangeBlock = clock
    <3>1. PICK b \in Balance :
            /\ StoreBalance(q, u, b)
            /\ \/ total(b) = total(balances[q][u])
               \/ b.lastChangeBlock = clock
      BY <2>4, ManagerWrites
    <3> QED BY <3>1, StoredOneWhere
  <2>5. CASE \/ BatchSwapReturn
             \/ \E kind \in UserBalanceOpKinds, asset \in InputAssets, amount \in Amounts,
                   sender, recipient \in Users :
                  UserBalanceOp(kind, asset, amount, sender, recipient)
    <3>1. ASSUME BatchSwapReturn PROVE balances' = balances
      BY <3>1 DEF BatchSwapReturn
    <3>2. ASSUME NEW kind, NEW asset, NEW amount, NEW sender, NEW recipient,
                 UserBalanceOp(kind, asset, amount, sender, recipient)
          PROVE  balances' = balances
      BY <3>2 DEF UserBalanceOp
    <3> QED BY <2>1, <2>5, <3>1, <3>2
  <2> QED BY <2>1, <2>2, <2>3, <2>4, <2>5 DEF BalanceStep, PoolWrites
<1> QED BY <1>1, MoneyInvariance, RegistryInvariance, Invariance, PTL
    DEF Spec, TotalChangesStampBlock
-----------------------------------------------------------------------------
(***************************************************************************)
(* The invariant behind quiet managers.  A manager of a Two Token Pool's   *)
(* token writes the block of the other token too.  That this is the block  *)
(* it has already takes an invariant: the two always agree, no block is in *)
(* the future, there are only two of them, and all this is true as well of *)
(* the balances a revert would bring back.                                 *)
(***************************************************************************)
NoLaterBlock(stored) ==
  \A p \in Pools, t \in Tokens : stored[p][t].lastChangeBlock <= clock
OneBlock(stored) ==
  \A p \in Pools : Specialization[p] = "TWO_TOKEN" =>
    \A t, u \in poolTokens[p] : stored[p][t].lastChangeBlock = stored[p][u].lastChangeBlock
TwoTokens ==
  \A p \in Pools : Specialization[p] = "TWO_TOKEN" =>
    \A t, u, v \in poolTokens[p] : t = u \/ t = v \/ u = v
BlockInv ==
  /\ NoLaterBlock(balances) /\ OneBlock(balances) /\ TwoTokens
  /\ frame # Idle => NoLaterBlock(saved.balances) /\ OneBlock(saved.balances)

\* Who changes registrations and the clock, and when snapshots are taken.
LEMMA CallsAndTheirSnapshots ==
  ASSUME IInv, [Next]_vars
  PROVE  /\ Registry \/ NextBlock \/ UNCHANGED <<poolVars, clock>>
         /\ Registry \/ NextBlock => frame = Idle
         /\ \/ frame' = Idle
            \/ saved' = Snapshot /\ UNCHANGED balances
            \/ frame # Idle /\ UNCHANGED saved
<1> DEFINE Quiet == UNCHANGED <<poolVars, clock>>
           Begins == saved' = Snapshot /\ UNCHANGED balances
           GoesOn == frame # Idle /\ UNCHANGED saved
           Goal == (Registry \/ NextBlock \/ Quiet) /\ (frame' = Idle \/ Begins \/ GoesOn)
<1>1. Registry \/ NextBlock => frame = Idle /\ frame' = Idle
  BY DEF Registry, registerPool, registerTokens, deregisterTokens, NextBlock, MayCall,
     NotEntered, callVars
<1>2. ASSUME JoinsAndExits PROVE Goal
  <2>1. ASSUME NEW kind, NEW caller, NEW sender, NEW recipient, NEW p, NEW limits,
               NEW useInternalBalance, NEW useEth, NEW value,
               JoinOrExit(kind, caller, sender, recipient, p, limits, useInternalBalance,
                          useEth, value)
        PROVE  Quiet /\ Begins
    BY <2>1 DEF JoinOrExit, Enter, pauseVars
  <2>2. ASSUME NEW amounts, NEW fees,
               JoinPoolReturn(amounts, fees) \/ ExitPoolReturn(amounts, fees)
        PROVE  Quiet /\ frame' = Idle
    BY <2>2 DEF JoinPoolReturn, ExitPoolReturn, Leave, pauseVars
  <2> HIDE DEF Quiet, Begins, GoesOn
  <2> QED BY <1>2, <2>1, <2>2 DEF JoinsAndExits
<1>3. ASSUME SwapCalls PROVE Goal
  <2>1. ASSUME NEW caller, NEW sender, NEW recipient, NEW p, NEW kind, NEW assetIn,
               NEW assetOut, NEW amount, NEW limit, NEW fromInternal, NEW toInternal,
               NEW deadline, NEW value,
               swap(caller, sender, recipient, p, kind, assetIn, assetOut, amount,
                    limit, fromInternal, toInternal, deadline, value)
        PROVE  Quiet /\ Begins
    BY <2>1 DEF swap, Enter, pauseVars
  <2>2. ASSUME NEW caller, NEW sender, NEW recipient, NEW kind, NEW limits,
               NEW fromInternal, NEW toInternal, NEW deadline, NEW value,
               batchSwap(caller, sender, recipient, kind, limits, fromInternal,
                         toInternal, deadline, value)
        PROVE  Quiet /\ Begins
    BY <2>2 DEF batchSwap, Enter, pauseVars
  <2> HIDE DEF Quiet, Begins, GoesOn
  <2> QED BY <1>3, <2>1, <2>2 DEF SwapCalls
<1>4. ASSUME SwapReturns PROVE Goal
  <2>1. ASSUME NEW p, NEW assetIn, NEW assetOut, NEW amount,
               BatchSwapStep(p, assetIn, assetOut, amount)
        PROVE  Quiet /\ GoesOn
    BY <2>1 DEF BatchSwapStep, pauseVars, Idle
  <2>2. ASSUME NEW calculated, SwapReturn(calculated) PROVE Quiet /\ frame' = Idle
    BY <2>2 DEF SwapReturn, Leave, pauseVars
  <2>3. ASSUME NEW calculated, BatchSwapStepReturn(calculated) PROVE Quiet /\ GoesOn
    BY <2>3 DEF BatchSwapStepReturn, pauseVars, Idle
  <2>4. ASSUME BatchSwapReturn PROVE Quiet /\ frame' = Idle
    BY <2>4 DEF BatchSwapReturn, Leave, pauseVars
  <2> HIDE DEF Quiet, Begins, GoesOn
  <2> QED BY <1>4, <2>1, <2>2, <2>3, <2>4 DEF SwapReturns
<1>5. ASSUME Loans PROVE Goal
  <2>1. ASSUME NEW caller, NEW amounts, flashLoan(caller, amounts) PROVE Quiet /\ Begins
    BY <2>1 DEF flashLoan, Enter, pauseVars
  <2>2. ASSUME FlashLoanReturn PROVE Quiet /\ frame' = Idle
    BY <2>2 DEF FlashLoanReturn, Leave, pauseVars
  <2> HIDE DEF Quiet, Begins, GoesOn
  <2> QED BY <1>5, <2>1, <2>2 DEF Loans
<1>6. ASSUME UserOperations PROVE Goal
  <2>1. ASSUME NEW caller, NEW value, manageUserBalance(caller, value) PROVE Quiet /\ Begins
    BY <2>1 DEF manageUserBalance, Enter, pauseVars
  <2>2. ASSUME NEW kind, NEW asset, NEW amount, NEW sender, NEW recipient,
               UserBalanceOp(kind, asset, amount, sender, recipient)
        PROVE  Quiet /\ GoesOn
    BY <2>2 DEF UserBalanceOp, pauseVars, Idle
  <2>3. ASSUME ManageUserBalanceReturn PROVE Quiet /\ frame' = Idle
    BY <2>3 DEF ManageUserBalanceReturn, Leave, pauseVars
  <2> HIDE DEF Quiet, Begins, GoesOn
  <2> QED BY <1>6, <2>1, <2>2, <2>3 DEF UserOperations
<1>7. ASSUME ManagerOperations PROVE Goal
  <2>1. ASSUME NEW caller, managePoolBalance(caller) PROVE Quiet /\ Begins
    BY <2>1 DEF managePoolBalance, Enter, pauseVars
  <2>2. ASSUME NEW kind, NEW p, NEW t, NEW amount, PoolBalanceOp(kind, p, t, amount)
        PROVE  Quiet /\ GoesOn
    BY <2>2 DEF PoolBalanceOp, pauseVars, Idle
  <2>3. ASSUME ManagePoolBalanceReturn PROVE Quiet /\ frame' = Idle
    BY <2>3 DEF ManagePoolBalanceReturn, Leave, pauseVars
  <2> HIDE DEF Quiet, Begins, GoesOn
  <2> QED BY <1>7, <2>1, <2>2, <2>3 DEF ManagerOperations
<1>8. ASSUME Collector \/ Administration \/ (World /\ ~NextBlock) \/ UNCHANGED vars PROVE Goal
  <2>1. UNCHANGED <<frame, saved>> /\ Quiet
    BY <1>8 DEF Collector, withdrawCollectedFees, setFlashLoanFeePercentage,
       setFlashLoanFeeDiscount, Administration, setRelayerApproval, setPaused,
       World, Donate, Distribute, ForceEth, AuthorizerChanges, Sign, vars, callVars,
       poolVars, pauseVars
  <2> QED BY <2>1
<1>9. ASSUME Revert PROVE Goal
  BY <1>9 DEF Revert, Leave, pauseVars
<1>10. Goal
  BY <1>1, <1>2, <1>3, <1>4, <1>5, <1>6, <1>7, <1>8, <1>9 DEF Next
<1> QED BY <1>1, <1>10

\* Registrations and the clock apart, it is the balances written that matter.
LEMMA BlocksCarryOver ==
  ASSUME BlockInv, UNCHANGED <<poolVars, clock>>,
         NoLaterBlock(balances)', OneBlock(balances)',
         \/ frame' = Idle
         \/ saved' = Snapshot /\ UNCHANGED balances
         \/ frame # Idle /\ UNCHANGED saved
  PROVE  BlockInv'
<1>1. TwoTokens'
  BY DEF BlockInv, TwoTokens, poolVars
<1>2. CASE saved' = Snapshot /\ UNCHANGED balances
  <2>1. saved'.balances = balances /\ UNCHANGED <<poolTokens, clock>>
    BY <1>2 DEF Snapshot, poolVars
  <2>2. NoLaterBlock(saved.balances)' /\ OneBlock(saved.balances)'
    BY <2>1 DEF BlockInv, NoLaterBlock, OneBlock
  <2> QED BY <1>1, <2>2 DEF BlockInv
<1>3. CASE frame # Idle /\ UNCHANGED saved
  <2>1. saved' = saved /\ UNCHANGED <<poolTokens, clock>>
    BY <1>3 DEF poolVars
  <2>2. NoLaterBlock(saved.balances)' /\ OneBlock(saved.balances)'
    BY <1>3, <2>1 DEF BlockInv, NoLaterBlock, OneBlock
  <2> QED BY <1>1, <2>2 DEF BlockInv
<1>4. CASE frame' = Idle
  BY <1>1, <1>4 DEF BlockInv
<1> QED BY <1>2, <1>3, <1>4

\* A Pool's call stamps both tokens of a Two Token Pool.
LEMMA PoolWriteBlocks ==
  ASSUME IInv, RInv, MInv, BlockInv, PoolWrites
  PROVE  NoLaterBlock(balances)' /\ OneBlock(balances)'
<1>1. /\ UNCHANGED <<poolTokens, clock>>
      /\ \E p, changed :
           /\ Stamped(p, changed)
           /\ \/ DOMAIN changed = poolTokens[p]
              \/ \E t, u \in poolTokens[p] : t # u /\ DOMAIN changed = {t, u}
  BY PoolWritesStamp DEF poolVars, pauseVars
<1>2. PICK p, changed :
        /\ Stamped(p, changed)
        /\ \/ DOMAIN changed = poolTokens[p]
           \/ \E t, u \in poolTokens[p] : t # u /\ DOMAIN changed = {t, u}
  BY <1>1
<1>3. /\ p \in Pools /\ poolTokens \in [Pools -> SUBSET Tokens] /\ clock \in Nat
      /\ \A t \in DOMAIN changed : changed[t].lastChangeBlock = clock
  BY <1>2 DEF Stamped, IInv, TypeOK, RegistryTyped, PauseTyped
<1>4. \A q \in Pools, t \in Tokens :
        balances'[q][t] = IF q = p /\ t \in DOMAIN changed THEN changed[t]
                                                           ELSE balances[q][t]
  BY <1>2, StampedWrite
<1>5. NoLaterBlock(balances)'
  BY <1>1, <1>3, <1>4 DEF BlockInv, NoLaterBlock
<1>6. Specialization[p] = "TWO_TOKEN" => poolTokens[p] \subseteq DOMAIN changed
  BY <1>2, <1>3 DEF BlockInv, TwoTokens
<1>7. ASSUME NEW q \in Pools, Specialization[q] = "TWO_TOKEN",
             NEW t \in poolTokens[q], NEW u \in poolTokens[q]
      PROVE  balances'[q][t].lastChangeBlock = balances'[q][u].lastChangeBlock
  <2>1. t \in Tokens /\ u \in Tokens
    BY <1>3
  <2>2. CASE q = p
    BY <1>3, <1>4, <1>6, <1>7, <2>1, <2>2
  <2>3. CASE q # p
    BY <1>4, <1>7, <2>1, <2>3 DEF BlockInv, OneBlock
  <2> QED BY <2>2, <2>3
<1>8. OneBlock(balances)'
  BY <1>1, <1>7 DEF OneBlock
<1> QED BY <1>5, <1>8

\* A manager's operation keeps the block that the Pool's tokens share, or gives both
\* the current one.
LEMMA ManagerBlocks ==
  ASSUME IInv, BlockInv, NEW kind \in PoolBalanceOpKinds, NEW p \in Pools, NEW t \in Tokens,
         NEW amount \in Amounts, PoolBalanceOp(kind, p, t, amount)
  PROVE  NoLaterBlock(balances)' /\ OneBlock(balances)'
<1>1. PICK b \in Balance :
        /\ StoreBalance(p, t, b)
        /\ \/ b.lastChangeBlock = balances[p][t].lastChangeBlock
           \/ b.lastChangeBlock = clock
  BY ManagerWrites
<1>2. t \in poolTokens[p] /\ UNCHANGED <<poolTokens, clock>>
  BY DEF PoolBalanceOp, poolVars, pauseVars
<1>3. /\ \A q \in Pools, u \in Tokens : balances[q][u].lastChangeBlock \in Nat
      /\ clock \in Nat /\ b.lastChangeBlock \in Nat
      /\ poolTokens \in [Pools -> SUBSET Tokens]
  BY DEF IInv, TypeOK, BalancesTyped, RegistryTyped, PauseTyped, Balance
<1>4. \A q \in Pools, u \in Tokens : balances[q][u].lastChangeBlock <= clock
  BY DEF BlockInv, NoLaterBlock
<1>5. b.lastChangeBlock <= clock
  BY <1>1, <1>3, <1>4
<1>6. ASSUME NEW q \in Pools, NEW u \in Tokens
      PROVE  /\ q = p /\ u = t => balances'[q][u].lastChangeBlock = b.lastChangeBlock
             /\ q = p /\ Shares(p, t, u) =>
                  balances'[q][u].lastChangeBlock =
                    IF b.lastChangeBlock > balances[q][u].lastChangeBlock
                      THEN b.lastChangeBlock ELSE balances[q][u].lastChangeBlock
             /\ ~(q = p /\ u = t) /\ ~(q = p /\ Shares(p, t, u)) =>
                  balances'[q][u].lastChangeBlock = balances[q][u].lastChangeBlock
  BY <1>1, StoredOneWhere
<1>7. \A q \in Pools, u \in Tokens : balances'[q][u].lastChangeBlock <= clock
  BY <1>3, <1>4, <1>5, <1>6
<1>8. ASSUME NEW u \in poolTokens[p], Specialization[p] = "TWO_TOKEN"
      PROVE  balances'[p][u].lastChangeBlock = b.lastChangeBlock
  <2>1. u \in Tokens /\ balances[p][u].lastChangeBlock = balances[p][t].lastChangeBlock
    BY <1>2, <1>3, <1>8 DEF BlockInv, OneBlock
  <2>2. balances[p][u].lastChangeBlock <= b.lastChangeBlock
    BY <1>1, <1>3, <1>4, <2>1
  <2>3. CASE u = t
    BY <1>6, <2>1, <2>3
  <2>4. CASE u # t
    <3>1. Shares(p, t, u)
      BY <1>8, <2>4 DEF Shares
    <3>2. balances'[p][u].lastChangeBlock =
            IF b.lastChangeBlock > balances[p][u].lastChangeBlock
              THEN b.lastChangeBlock ELSE balances[p][u].lastChangeBlock
      BY <1>6, <2>1, <3>1
    <3>3. balances[p][u].lastChangeBlock \in Nat
      BY <1>3, <2>1
    <3> QED BY <1>3, <2>2, <3>2, <3>3
  <2> QED BY <2>3, <2>4
<1>9. ASSUME NEW q \in Pools, Specialization[q] = "TWO_TOKEN",
             NEW u \in poolTokens[q], NEW v \in poolTokens[q]
      PROVE  balances'[q][u].lastChangeBlock = balances'[q][v].lastChangeBlock
  <2>1. CASE q = p
    BY <1>8, <1>9, <2>1
  <2>2. CASE q # p
    BY <1>3, <1>6, <1>9, <2>2 DEF BlockInv, OneBlock
  <2> QED BY <2>1, <2>2
<1>10. NoLaterBlock(balances)'
  BY <1>2, <1>7 DEF NoLaterBlock
<1>11. OneBlock(balances)'
  BY <1>2, <1>9 DEF OneBlock
<1> QED BY <1>10, <1>11

\* Two tokens registered together are the only ones.
LEMMA PairOfTokens ==
  ASSUME NEW ts \in SUBSET Tokens, Cardinality(ts) = 2,
         NEW t \in ts, NEW u \in ts, NEW v \in ts
  PROVE  t = u \/ t = v \/ u = v
<1> SUFFICES ASSUME t # u, t # v, u # v PROVE FALSE
  OBVIOUS
<1>1. IsFiniteSet(ts)
  BY VaultAssumption, FS_Subset
<1>2. IsFiniteSet(ts \ {t}) /\ Cardinality(ts \ {t}) = 1
  BY <1>1, FS_RemoveElement
<1>3. PICK w : ts \ {t} = {w}
  BY <1>2, FS_Singleton
<1> QED BY <1>3

\* Registering gives the two tokens of a Pool the same block, the one of nothing.
LEMMA RegistryBlocks == ASSUME IInv, RInv, BlockInv, Registry PROVE BlockInv'
<1>1. /\ balances \in [Pools -> [Tokens -> Balance]] /\ poolTokens \in [Pools -> SUBSET Tokens]
      /\ clock \in Nat
  BY DEF IInv, TypeOK, BalancesTyped, RegistryTyped, PauseTyped
<1>2. frame' = Idle /\ clock' = clock
  BY DEF Registry, registerPool, registerTokens, deregisterTokens, MayCall, NotEntered,
     callVars, pauseVars
<1>3. ASSUME NEW p \in Pools, registerPool(p) PROVE BlockInv'
  <2>1. UNCHANGED <<balances, poolTokens>>
    BY <1>3 DEF registerPool
  <2> QED BY <1>2, <2>1 DEF BlockInv, NoLaterBlock, OneBlock, TwoTokens
<1>4. ASSUME NEW p \in Pools, NEW ts \in SUBSET Tokens,
             NEW manager \in [ts -> Managers \union {NoManager}],
             registerTokens(p, ts, manager)
      PROVE  BlockInv'
  <2>1. /\ balances' = balances
        /\ \A q \in Pools : poolTokens'[q] = IF q = p THEN poolTokens[p] \union ts
                                                      ELSE poolTokens[q]
        /\ Specialization[p] = "TWO_TOKEN" => Cardinality(ts) = 2 /\ poolTokens[p] = {}
    BY <1>1, <1>4 DEF registerTokens, MayRegister
  <2>2. Specialization[p] = "TWO_TOKEN" => poolTokens'[p] = ts
    BY <2>1
  <2>3. TwoTokens'
    <3> SUFFICES ASSUME NEW q \in Pools, Specialization[q] = "TWO_TOKEN",
                        NEW t \in poolTokens'[q], NEW u \in poolTokens'[q],
                        NEW v \in poolTokens'[q]
                 PROVE  t = u \/ t = v \/ u = v
      BY DEF TwoTokens
    <3>1. CASE q = p
      <4>1. t \in ts /\ u \in ts /\ v \in ts /\ Cardinality(ts) = 2
        BY <2>1, <2>2, <3>1
      <4> QED BY <4>1, PairOfTokens
    <3>2. CASE q # p
      <4>1. t \in poolTokens[q] /\ u \in poolTokens[q] /\ v \in poolTokens[q]
        BY <2>1, <3>2
      <4> QED BY <4>1 DEF BlockInv, TwoTokens
    <3> QED BY <3>1, <3>2
  <2>4. OneBlock(balances)'
    <3> SUFFICES ASSUME NEW q \in Pools, Specialization[q] = "TWO_TOKEN",
                        NEW t \in poolTokens'[q], NEW u \in poolTokens'[q]
                 PROVE  balances'[q][t].lastChangeBlock = balances'[q][u].lastChangeBlock
      BY DEF OneBlock
    <3>1. CASE q = p
      <4>1. t \in Tokens \ poolTokens[p] /\ u \in Tokens \ poolTokens[p]
        BY <2>1, <2>2, <3>1
      <4>2. balances[p][t] = EmptyBalance /\ balances[p][u] = EmptyBalance
        BY <4>1 DEF RInv, RegistryConsistent
      <4> QED BY <2>1, <3>1, <4>2
    <3>2. CASE q # p
      <4>1. t \in poolTokens[q] /\ u \in poolTokens[q]
        BY <2>1, <3>2
      <4> QED BY <2>1, <4>1 DEF BlockInv, OneBlock
    <3> QED BY <3>1, <3>2
  <2>5. NoLaterBlock(balances)'
    BY <1>2, <2>1 DEF BlockInv, NoLaterBlock
  <2> QED BY <1>2, <2>3, <2>4, <2>5 DEF BlockInv
<1>5. ASSUME NEW p \in Pools, NEW ts \in SUBSET Tokens, deregisterTokens(p, ts)
      PROVE  BlockInv'
  <2>1. /\ \A q \in Pools, t \in Tokens :
             balances'[q][t] = IF q = p /\ t \in ts THEN EmptyBalance ELSE balances[q][t]
        /\ \A q \in Pools : poolTokens'[q] = IF q = p THEN poolTokens[p] \ ts
                                                      ELSE poolTokens[q]
    BY <1>1, <1>5 DEF deregisterTokens
  <2>2. TwoTokens'
    BY <2>1 DEF BlockInv, TwoTokens
  <2>3. \A q \in Pools : \A t \in poolTokens'[q] :
          t \in poolTokens[q] /\ balances'[q][t] = balances[q][t]
    BY <1>1, <2>1
  <2>4. OneBlock(balances)'
    BY <2>3 DEF BlockInv, OneBlock
  <2>5. NoLaterBlock(balances)'
    BY <1>1, <1>2, <2>1 DEF BlockInv, NoLaterBlock, EmptyBalance
  <2> QED BY <1>2, <2>2, <2>4, <2>5 DEF BlockInv
<1> QED BY <1>3, <1>4, <1>5 DEF Registry

LEMMA BlocksInductive == BlockInv /\ MInv /\ RInv /\ IInv /\ [Next]_vars => BlockInv'
<1> SUFFICES ASSUME BlockInv, MInv, RInv, IInv, [Next]_vars PROVE BlockInv'
  OBVIOUS
<1>1. /\ Registry \/ NextBlock \/ UNCHANGED <<poolVars, clock>>
      /\ Registry \/ NextBlock => frame = Idle
      /\ \/ frame' = Idle
         \/ saved' = Snapshot /\ UNCHANGED balances
         \/ frame # Idle /\ UNCHANGED saved
  BY CallsAndTheirSnapshots
<1>2. CASE Registry
  BY <1>2, RegistryBlocks
<1>3. CASE NextBlock
  <2>1. /\ UNCHANGED <<poolTokens, balances>> /\ clock' = clock + 1 /\ frame' = Idle
    BY <1>3 DEF NextBlock, poolVars, callVars, NotEntered
  <2>2. /\ clock \in Nat
        /\ \A p \in Pools, t \in Tokens : balances[p][t].lastChangeBlock \in Nat
    BY DEF IInv, TypeOK, PauseTyped, BalancesTyped, Balance
  <2> QED BY <2>1, <2>2 DEF BlockInv, NoLaterBlock, OneBlock, TwoTokens
<1>4. CASE UNCHANGED <<poolVars, clock>> /\ NoLaterBlock(balances)' /\ OneBlock(balances)'
  BY <1>1, <1>4, BlocksCarryOver
<1>5. ASSUME UNCHANGED <<poolVars, clock>>
      PROVE  NoLaterBlock(balances)' /\ OneBlock(balances)'
  <2>1. UNCHANGED <<poolTokens, clock>>
    BY <1>5 DEF poolVars
  <2>2. CASE UNCHANGED balances
    BY <2>1, <2>2 DEF BlockInv, NoLaterBlock, OneBlock
  <2>3. CASE Undone
    <3>1. balances' = saved.balances /\ frame # Idle
      BY <2>3 DEF Undone, Snapshot
    <3> QED BY <2>1, <3>1 DEF BlockInv, NoLaterBlock, OneBlock
  <2>4. CASE PoolWrites
    BY <2>4, PoolWriteBlocks
  <2>5. ASSUME NEW kind \in PoolBalanceOpKinds, NEW p \in Pools, NEW t \in Tokens,
               NEW amount \in Amounts, PoolBalanceOp(kind, p, t, amount)
        PROVE  NoLaterBlock(balances)' /\ OneBlock(balances)'
    BY <2>5, ManagerBlocks
  <2>6. ASSUME NEW p \in Pools, NEW ts \in SUBSET Tokens, deregisterTokens(p, ts)
        PROVE  NoLaterBlock(balances)' /\ OneBlock(balances)'
    <3>1. balances \in [Pools -> [Tokens -> Balance]] /\ clock \in Nat
      BY DEF IInv, TypeOK, BalancesTyped, PauseTyped
    <3>2. \A q \in Pools, t \in Tokens :
            balances'[q][t] = IF q = p /\ t \in ts THEN EmptyBalance ELSE balances[q][t]
      BY <2>6, <3>1 DEF deregisterTokens
    <3>3. \A q \in Pools : poolTokens'[q] = IF q = p THEN poolTokens[p] \ ts ELSE poolTokens[q]
      BY <2>6 DEF deregisterTokens, IInv, TypeOK, RegistryTyped
    <3>4. \A q \in Pools : poolTokens[q] \subseteq Tokens
      BY DEF IInv, TypeOK, RegistryTyped
    <3>5. \A q \in Pools : \A t \in poolTokens[q] : balances'[q][t] = balances[q][t]
      BY <2>1, <3>2, <3>3, <3>4
    <3> QED BY <2>1, <3>1, <3>2, <3>5 DEF BlockInv, NoLaterBlock, OneBlock, EmptyBalance
  <2>7. ASSUME BatchSwapReturn PROVE UNCHANGED balances
    BY <2>7 DEF BatchSwapReturn
  <2>8. ASSUME NEW kind, NEW asset, NEW amount, NEW sender, NEW recipient,
               UserBalanceOp(kind, asset, amount, sender, recipient)
        PROVE  UNCHANGED balances
    BY <2>8 DEF UserBalanceOp
  <2> QED BY <2>2, <2>3, <2>4, <2>5, <2>6, <2>7, <2>8, OnlyBalanceSteps
          DEF BalanceStep, PoolWrites
<1> QED BY <1>1, <1>2, <1>3, <1>4, <1>5

LEMMA BlocksInvariance == Spec => []BlockInv
<1>1. Init => BlockInv
  BY DEF Init, BlockInv, NoLaterBlock, OneBlock, TwoTokens, EmptyBalance
<1> QED BY <1>1, BlocksInductive, MoneyInvariance, RegistryInvariance, Invariance, PTL DEF Spec

(***************************************************************************)
(* An Asset Manager that takes tokens out of the Vault or brings them back *)
(* changes no total and no block: not of its token, nor of the token that  *)
(* shares a Two Token Pool, and a report it makes in the same call counts  *)
(* as of its own step.                                                     *)
(***************************************************************************)
THEOREM ManagersLeavePrices == Spec => ManagersMoveQuietly
<1>1. IInv /\ BlockInv /\ [Next]_vars =>
        [\A p \in Pools, t \in Tokens :
           frame.kind = "managePoolBalance" /\ held' # held /\ ~Undone =>
             /\ total(balances'[p][t]) = total(balances[p][t])
             /\ balances'[p][t].lastChangeBlock = balances[p][t].lastChangeBlock]_vars
  <2> SUFFICES ASSUME IInv, BlockInv, [Next]_vars, NEW p \in Pools, NEW t \in Tokens,
                      frame.kind = "managePoolBalance", held' # held, ~Undone
               PROVE  /\ total(balances'[p][t]) = total(balances[p][t])
                      /\ balances'[p][t].lastChangeBlock = balances[p][t].lastChangeBlock
    OBVIOUS
  <2>1. ASSUME NEW kind \in PoolBalanceOpKinds, NEW q \in Pools, NEW u \in Tokens,
               NEW amount \in Amounts, PoolBalanceOp(kind, q, u, amount)
        PROVE  /\ total(balances'[p][t]) = total(balances[p][t])
               /\ balances'[p][t].lastChangeBlock = balances[p][t].lastChangeBlock
    <3>1. PICK b \in Balance :
            /\ StoreBalance(q, u, b)
            /\ total(b) = total(balances[q][u])
            /\ b.lastChangeBlock = balances[q][u].lastChangeBlock
      BY <2>1, ManagerWrites
    <3>2. u \in poolTokens[q]
      BY <2>1 DEF PoolBalanceOp
    <3>3. CASE p = q /\ Shares(q, u, t)
      <4>1. balances[q][t].lastChangeBlock = balances[q][u].lastChangeBlock
        BY <3>2, <3>3 DEF BlockInv, OneBlock, Shares
      <4> QED BY <3>1, <3>3, <4>1, StoredOneWhere
    <3>4. CASE ~(p = q /\ Shares(q, u, t))
      BY <3>1, <3>4, StoredOneWhere
    <3> QED BY <3>3, <3>4
  <2>2. ASSUME NEW q, NEW ts, deregisterTokens(q, ts) PROVE FALSE
    BY <2>2 DEF deregisterTokens, MayCall, NotEntered, Idle
  <2>3. ASSUME NEW amounts, NEW fees,
               JoinPoolReturn(amounts, fees) \/ ExitPoolReturn(amounts, fees)
        PROVE  FALSE
    BY <2>3 DEF JoinPoolReturn, ExitPoolReturn
  <2>4. ASSUME NEW calculated, SwapReturn(calculated) \/ BatchSwapStepReturn(calculated)
        PROVE  FALSE
    BY <2>4 DEF SwapReturn, BatchSwapStepReturn
  <2>5. ASSUME BatchSwapReturn PROVE FALSE
    BY <2>5 DEF BatchSwapReturn
  <2>6. ASSUME NEW kind, NEW asset, NEW amount, NEW sender, NEW recipient,
               UserBalanceOp(kind, asset, amount, sender, recipient)
        PROVE  FALSE
    BY <2>6 DEF UserBalanceOp
  <2> QED BY <2>1, <2>2, <2>3, <2>4, <2>5, <2>6, OnlyBalanceSteps DEF BalanceStep
<1> QED BY <1>1, BlocksInvariance, Invariance, PTL DEF Spec, ManagersMoveQuietly

=============================================================================
