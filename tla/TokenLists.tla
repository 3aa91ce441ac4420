------------------------------- MODULE TokenLists -------------------------------
(***************************************************************************)
(* The lists of tokens that the models of Pools are built on.  A token is  *)
(* its contract's address and kind, and a symbol; a TokenList is a         *)
(* sequence of tokens.  Indices count from 0, as in the code.              *)
(***************************************************************************)
EXTENDS Integers, Sequences, SequencesExt

\* What is a value or a list of values (NAry, in the code).
One(x) == [list |-> FALSE, items |-> <<x>>]
Many(s) == [list |-> TRUE, items |-> s]
IsMany(items) == items.list
toList(items) == Many(items.items)

\* A token named by its place in a list, or by itself.
ByIndex(i) == [index |-> i, token |-> 0]
ByToken(token) == [index |-> -1, token |-> token]
IsIndex(which) == which.index # -1

-----------------------------------------------------------------------------
addresses(list) == [i \in DOMAIN list |-> list[i].address]
position(list, x) ==
  IF \E i \in DOMAIN list : list[i] = x THEN (CHOOSE i \in DOMAIN list : list[i] = x) - 1 ELSE -1
indexOf(list, which) == IF IsIndex(which) THEN which.index ELSE position(list, which.token)
indicesOf(list, which, another) == <<indexOf(list, which), indexOf(list, another)>>
CanGet(list, which) == IsIndex(which) => which.index < Len(list)
get(list, which) == IF IsIndex(which) THEN list[which.index + 1] ELSE which.token
subset(list, length, offset) == SubSeq(list, offset + 1, offset + length)
findIndexBySymbol(list, symbol) == position([i \in DOMAIN list |-> list[i].symbol], symbol)
findBySymbol(list, symbol) == list[findIndexBySymbol(list, symbol) + 1]
Before(a, b) == a.address < b.address
InOrder(list) == \A i \in 1..(Len(list) - 1) : Before(list[i], list[i + 1])
\* There is but one: no two tokens have the same address.
sort(list) == {sorted \in [DOMAIN list -> ToSet(list)] :
                 InOrder(sorted) /\ ToSet(sorted) = ToSet(list)}

-----------------------------------------------------------------------------
\* Contracts get their addresses as they are mined.  Those named WETH are of another
\* kind, and minted by a deposit.
deployToken(symbol, address) ==
  [address |-> address, symbol |-> symbol,
   contract |-> IF symbol = "WETH" THEN "TestWETH" ELSE "TestToken"]
CanMint(token) == token.symbol = "WETH" => token.contract = "TestWETH"

\* A request is for the symbols of a list.  Those of a sorted one are given after its
\* deployment, which asks for as many unnamed tokens.
trimParamsForSortedDeploy(symbols) == [i \in DOMAIN symbols |-> "TK"]
sortTokensDeployment(tokens, symbols) ==
  {[i \in DOMAIN symbols |-> [sorted[i] EXCEPT !.symbol = symbols[i]]] : sorted \in sort(tokens)}
DeployTokens(symbols, minedAt, sorted) ==
  LET asked == IF sorted THEN trimParamsForSortedDeploy(symbols) ELSE symbols
      tokens == [i \in DOMAIN asked |-> deployToken(asked[i], minedAt[i])]
  IN  IF sorted THEN sortTokensDeployment(tokens, symbols) ELSE {tokens}

-----------------------------------------------------------------------------
\* Who gets tokens from whom, and who may spend whose.
MintersMatch(to, from) == IF to.list THEN from.list => Len(from.items) = Len(to.items) ELSE ~from.list
toTokenMints(to, from) ==
  {[to |-> to.items[i], from |-> IF from.list THEN from.items[i] ELSE from.items[1]]
     : i \in DOMAIN to.items}
toTokenApprovals(to, from) ==
  {[to |-> spender, from |-> holder]
     : spender \in {to.items[i] : i \in DOMAIN to.items},
       holder \in {from.items[i] : i \in DOMAIN from.items}}
mint(list, to, from) ==
  {<<m.to, list[i].address>> : m \in toTokenMints(to, from), i \in DOMAIN list}
approve(list, to, from) ==
  {<<a.from, list[i].address>> : a \in toTokenApprovals(to, from), i \in DOMAIN list}

=============================================================================
