--------------------------- MODULE BalanceAllocation ---------------------------
(***************************************************************************)
(* A Pool's balance of one token, pkg/vault/.../balances/BalanceAllocation.*)
(* The Vault splits it into `cash' (tokens the Vault holds) and `managed'  *)
(* (tokens an Asset Manager took out), with the last block in which their  *)
(* total changed.  The library packs the three into one 256 bit word; here *)
(* a balance is a record and the operations are the library's functions.   *)
(*                                                                         *)
(* A Solidity function that reverts has no result.  The operators below    *)
(* return the record the function would compute, and Fits says when it     *)
(* does not revert: SafeMath rejects a negative cash or managed, toBalance *)
(* rejects a total of 2^112 (TotalCap) or more.  An action that uses one of*)
(* them has Fits of the result among its guards.                           *)
(***************************************************************************)
EXTENDS Integers

CONSTANT TotalCap   \* 2^112 in the code: the least total that does not fit

ASSUME TotalCapAssumption == TotalCap \in Nat \ {0}

Balance == [cash: 0..(TotalCap - 1), managed: 0..(TotalCap - 1),
            lastChangeBlock: Nat]

\* What an uninitialised storage slot decodes to.
EmptyBalance == [cash |-> 0, managed |-> 0, lastChangeBlock |-> 0]

total(b) == b.cash + b.managed

isZero(b) == b.cash = 0 /\ b.managed = 0

\* SafeMath's add and sub, and toBalance's BALANCE_TOTAL_OVERFLOW.
Fits_NoCap(b) == b.cash >= 0 /\ b.managed >= 0
Fits(b) == b.cash >= 0 /\ b.managed >= 0 /\ total(b) < TotalCap

\* toBalance: the record the code packs.
toBalance(cash, managed, lastChangeBlock) ==
  [cash |-> cash, managed |-> managed, lastChangeBlock |-> lastChangeBlock]

\* Tokens come in (join, swap): the total changes in block n.
increaseCash_StaleBlock(b, amount, n) ==
  toBalance(b.cash + amount, b.managed, b.lastChangeBlock)
increaseCash(b, amount, n) == toBalance(b.cash + amount, b.managed, n)

\* Tokens go out (exit, swap, protocol fees).
decreaseCash(b, amount, n) == toBalance(b.cash - amount, b.managed, n)

\* An Asset Manager takes tokens out: the total and its block stay.
cashToManaged(b, amount) ==
  toBalance(b.cash - amount, b.managed + amount, b.lastChangeBlock)

\* An Asset Manager puts tokens back.
managedToCash_KeepsManaged(b, amount) ==
  toBalance(b.cash + amount, b.managed, b.lastChangeBlock)
managedToCash(b, amount) ==
  toBalance(b.cash + amount, b.managed - amount, b.lastChangeBlock)

\* An Asset Manager reports profit or loss: the total becomes cash + m.
setManaged(b, m, n) == toBalance(b.cash, m, n)

\* The three of them, as the functions that storage layouts are given to apply.
mutate(mutation, b, amount, n) ==
  CASE mutation = "cashToManaged" -> cashToManaged(b, amount)
    [] mutation = "managedToCash" -> managedToCash(b, amount)
    [] mutation = "setManaged"    -> setManaged(b, amount, n)
=============================================================================
