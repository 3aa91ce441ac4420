---------------------- MODULE MinimalSwapInfoPoolsBalance ----------------------
(***************************************************************************)
(* The layout of a Minimal Swap Info Pool: the tokens as an EnumerableSet, *)
(* the balances in a mapping beside it.  A balance that is not zero stands *)
(* for its token's registration, so that most reads need one slot only.    *)
(***************************************************************************)
EXTENDS BalanceAllocation, Sequences

VARIABLES
  minimalPoolTokens,    \* _minimalSwapInfoPoolsTokens of the Pool
  minimalPoolBalances   \* _minimalSwapInfoPoolsBalances of the Pool

TokenSet == INSTANCE EnumerableSet

SetsAdding(start, tokens) ==
  LET after[n \in 0..Len(tokens)] ==
        IF n = 0 THEN start ELSE TokenSet!add(after[n - 1], tokens[n])
  IN after

\* The mapping is not touched: it holds zero for tokens that are not registered.
registerMinimalSwapInfoPoolTokens(tokens) ==
  LET after == SetsAdding(minimalPoolTokens, tokens)
  IN /\ \A n \in 1..Len(tokens) : ~TokenSet!contains(after[n - 1], tokens[n])
     /\ minimalPoolTokens' = after[Len(tokens)]
     /\ UNCHANGED minimalPoolBalances

SetsRemoving(start, tokens) ==
  LET after[n \in 0..Len(tokens)] ==
        IF n = 0 THEN start ELSE TokenSet!remove(after[n - 1], tokens[n])
  IN after

deregisterMinimalSwapInfoPoolTokens(tokens) ==
  LET after == SetsRemoving(minimalPoolTokens, tokens)
  IN /\ \A n \in 1..Len(tokens) :
          /\ isZero(minimalPoolBalances[tokens[n]])
          /\ TokenSet!contains(after[n - 1], tokens[n])
     /\ minimalPoolTokens' = after[Len(tokens)]
     /\ minimalPoolBalances' = [t \in DOMAIN minimalPoolBalances |->
          IF \E n \in 1..Len(tokens) : tokens[n] = t
            THEN EmptyBalance ELSE minimalPoolBalances[t]]

setMinimalSwapInfoPoolBalances(tokens, newBalances) ==
  /\ minimalPoolBalances' = [t \in DOMAIN minimalPoolBalances |->
       IF \E i \in DOMAIN tokens : tokens[i] = t
         THEN newBalances[CHOOSE i \in DOMAIN tokens : tokens[i] = t]
         ELSE minimalPoolBalances[t]]
  /\ UNCHANGED minimalPoolTokens

\* _getMinimalSwapInfoPoolBalance reverts otherwise.
hasMinimalSwapInfoPoolBalance(token) ==
  ~isZero(minimalPoolBalances[token]) \/ TokenSet!contains(minimalPoolTokens, token)

updateMinimalSwapInfoPoolBalance(token, mutation, amount, n) ==
  /\ hasMinimalSwapInfoPoolBalance(token)
  /\ LET new == mutate(mutation, minimalPoolBalances[token], amount, n)
     IN /\ Fits(new)
        /\ minimalPoolBalances' = [minimalPoolBalances EXCEPT ![token] = new]
  /\ UNCHANGED minimalPoolTokens

getMinimalSwapInfoPoolTokens ==
  [i \in 1..Len(minimalPoolTokens.values) |->
     [token   |-> minimalPoolTokens.values[i],
      balance |-> minimalPoolBalances[minimalPoolTokens.values[i]]]]
-----------------------------------------------------------------------------
\* _processMinimalSwapInfoPoolSwapRequest, before the hook and after it.
minimalPoolSwapReads(tokenIn, tokenOut) ==
  [in |-> minimalPoolBalances[tokenIn], out |-> minimalPoolBalances[tokenOut]]

mayMinimalPoolSwap(tokenIn, tokenOut) ==
  hasMinimalSwapInfoPoolBalance(tokenIn) /\ hasMinimalSwapInfoPoolBalance(tokenOut)

writeMinimalPoolSwap(tokenIn, tokenOut, newIn, newOut) ==
  /\ minimalPoolBalances' =
       [minimalPoolBalances EXCEPT ![tokenIn] = newIn, ![tokenOut] = newOut]
  /\ UNCHANGED minimalPoolTokens
=============================================================================
