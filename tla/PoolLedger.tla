------------------------------- MODULE PoolLedger -------------------------------
(***************************************************************************)
(* What the Vault promises of a Pool's tokens and balances, whatever their *)
(* layout: the Pool has a set of tokens, each with a balance of its own    *)
(* that starts empty, changes only by joins, exits, swaps and its Asset    *)
(* Manager, and must be zero for the token to leave.  This is how module   *)
(* Vault sees the balances of a Pool.                                      *)
(***************************************************************************)
EXTENDS BalanceAllocation, FiniteSets

CONSTANTS
  Tokens,
  Amounts,     \* amounts of changes
  MaxBlock     \* bound of the clock

VARIABLES
  twoTokens,   \* the Pool takes two tokens together; they share their block
  ledger,      \* its balances, a function whose domain are its tokens
  block        \* block.number

ledgerVars == <<twoTokens, ledger, block>>

LedgerInit ==
  /\ twoTokens \in BOOLEAN
  /\ ledger = [t \in {} |-> EmptyBalance]
  /\ block = 0

Register(ts) ==
  /\ ts \intersect DOMAIN ledger = {}
  /\ twoTokens => Cardinality(ts) = 2 /\ DOMAIN ledger = {}
  /\ ledger' = [t \in DOMAIN ledger \union ts |->
                  IF t \in ts THEN EmptyBalance ELSE ledger[t]]

Deregister(ts) ==
  /\ ts \subseteq DOMAIN ledger
  /\ \A t \in ts : isZero(ledger[t])
  /\ twoTokens => Cardinality(ts) = 2
  /\ ledger' = [t \in DOMAIN ledger \ ts |-> ledger[t]]

\* The ledger once the tokens in the domain of `new' have new balances.
Write(new) ==
  /\ \A t \in DOMAIN new : Fits(new[t])
  /\ ledger' = [t \in DOMAIN ledger |-> IF t \in DOMAIN new THEN new[t] ELSE ledger[t]]

Signed == Amounts \union {-a : a \in Amounts}

\* A join or exit changes the cash of every token.
JoinOrExit ==
  /\ DOMAIN ledger # {}
  /\ \E change \in [DOMAIN ledger -> Signed] :
       Write([t \in DOMAIN ledger |-> increaseCash(ledger[t], change[t], block)])

\* A swap changes two.
Swap(tokenIn, tokenOut, amountIn, amountOut) ==
  /\ {tokenIn, tokenOut} \subseteq DOMAIN ledger
  /\ tokenIn # tokenOut
  /\ Write([t \in {tokenIn, tokenOut} |->
              IF t = tokenIn THEN increaseCash(ledger[t], amountIn, block)
                             ELSE decreaseCash(ledger[t], amountOut, block)])

\* The Asset Manager of token t moves it, or reports what it holds.
Manage(t, amount) ==
  /\ t \in DOMAIN ledger
  /\ \/ Write([u \in {t} |-> cashToManaged(ledger[t], amount)])
     \/ Write([u \in {t} |-> managedToCash(ledger[t], amount)])
     \/ Write([u \in DOMAIN ledger |->
                 IF u = t THEN setManaged(ledger[t], amount, block)
                 ELSE IF twoTokens THEN [ledger[u] EXCEPT !.lastChangeBlock = block]
                 ELSE ledger[u]])

NextBlock == block < MaxBlock /\ block' = block + 1 /\ UNCHANGED ledger

LedgerNext ==
  /\ UNCHANGED twoTokens
  /\ \/ NextBlock
     \/ /\ UNCHANGED block
        /\ \/ \E ts \in SUBSET Tokens : Register(ts) \/ Deregister(ts)
           \/ JoinOrExit
           \/ \E tokenIn, tokenOut \in Tokens, amountIn, amountOut \in Amounts :
                Swap(tokenIn, tokenOut, amountIn, amountOut)
           \/ \E t \in Tokens, amount \in Amounts : Manage(t, amount)

LedgerSpec == LedgerInit /\ [][LedgerNext]_ledgerVars
=============================================================================
