-------------------------- MODULE GeneralPoolsBalance --------------------------
(***************************************************************************)
(* The layout of a General Pool: one EnumerableMap from tokens to          *)
(* balances, whose order is the order in which the Pool sees its tokens.   *)
(***************************************************************************)
EXTENDS BalanceAllocation, Sequences

VARIABLE generalPoolBalances   \* _generalPoolsBalances of the Pool

Map == INSTANCE EnumerableMap

\* The loop: map after each iteration, from map `start' on.
MapsAdding(start, tokens) ==
  LET after[n \in 0..Len(tokens)] ==
        IF n = 0 THEN start ELSE Map!set(after[n - 1], tokens[n], EmptyBalance)
  IN after

registerGeneralPoolTokens(tokens) ==
  LET after == MapsAdding(generalPoolBalances, tokens)
  IN /\ \A n \in 1..Len(tokens) : ~Map!contains(after[n - 1], tokens[n])
     /\ generalPoolBalances' = after[Len(tokens)]

MapsRemoving(start, tokens) ==
  LET after[n \in 0..Len(tokens)] ==
        IF n = 0 THEN start ELSE Map!remove(after[n - 1], tokens[n])
  IN after

deregisterGeneralPoolTokens(tokens) ==
  LET after == MapsRemoving(generalPoolBalances, tokens)
  IN /\ \A n \in 1..Len(tokens) :
          /\ Map!contains(after[n - 1], tokens[n])
          /\ isZero(Map!get(after[n - 1], tokens[n]))
     /\ generalPoolBalances' = after[Len(tokens)]

\* Written by position, as they were listed when the call began.
setGeneralPoolBalances(newBalances) ==
  generalPoolBalances' = [generalPoolBalances EXCEPT !.entries =
    [i \in DOMAIN @ |-> IF i \in DOMAIN newBalances
                          THEN [@[i] EXCEPT !.value = newBalances[i]] ELSE @[i]]]

\* Asset Managers, in block n.
updateGeneralPoolBalance(token, mutation, amount, n) ==
  /\ Map!contains(generalPoolBalances, token)
  /\ LET new == mutate(mutation, Map!get(generalPoolBalances, token), amount, n)
     IN /\ Fits(new)
        /\ generalPoolBalances' = Map!set(generalPoolBalances, token, new)

getGeneralPoolTokens ==
  [i \in 1..Len(generalPoolBalances.entries) |->
     [token   |-> generalPoolBalances.entries[i].key,
      balance |-> generalPoolBalances.entries[i].value]]
-----------------------------------------------------------------------------
\* _processGeneralPoolSwapRequest, before the hook and after it.
generalPoolSwapReads(tokenIn, tokenOut) ==
  LET map == generalPoolBalances
  IN [indexIn  |-> map.indexes[tokenIn],
      indexOut |-> map.indexes[tokenOut],
      in       |-> Map!get(map, tokenIn),
      out      |-> Map!get(map, tokenOut)]

mayGeneralPoolSwap(tokenIn, tokenOut) ==
  /\ generalPoolBalances.indexes[tokenIn] # 0
  /\ generalPoolBalances.indexes[tokenOut] # 0

writeGeneralPoolSwap(read, newIn, newOut) ==
  generalPoolBalances' =
    Map!unchecked_setAt(Map!unchecked_setAt(generalPoolBalances, read.indexIn, newIn),
                        read.indexOut, newOut)
=============================================================================
