# Balancer V2: a verification project

TLA+ specifications of the Balancer V2 monorepo (`src/pkg/*`, `src/pvt/*`), the TLC
runs that check them and the TLAPS proofs about them. The modules translate the
source, Solidity and TypeScript; `PROJECT.json` says which lines each definition
stands for.

- [What the system is](#inventory)
- [What is modelled, and how](#models)
- [What the runs check](#runs)
- [What is proved](#proofs)
- [What only TLC checks, and what is not modelled](#limits)
- [Plan](#plan)

<a id="inventory"></a>
## Inventory

The system is a set of contracts on one chain, and the off-chain code that deploys
them, uses them and tests them. On chain, transactions run one at a time,
so there is no parallelism; what makes it hard is that a contract which calls
another hands over control in the middle of its work, that the other may call
back, that whole calls are undone when they revert, and that permissions, pauses,
fees and caches are read at one time and used at another. Off chain, a run of a
deployment task awaits the network between the steps that write its records, and
may be cut short, forced or repeated at each of them; and code holds copies of what
the contracts have (lists of tokens, parameters, nonces, layouts of data) that must
keep meaning the same.

| Component | State | Operations | Correct when |
|---|---|---|---|
| **Vault: registry** (`PoolRegistry`, `PoolTokens`) | registered Pools, tokens of each, Asset Manager of each token | registerPool, registerTokens, deregisterTokens | a token that left a Pool leaves nothing behind |
| **Vault: balances** (`balances/*`, `EnumerableMap`, `EnumerableSet`) | cash, managed and lastChangeBlock per Pool and token, in three layouts | increase and decrease cash, to and from managed, set managed | no overflow; blocks stamped exactly when a total changes; every layout is the same ledger |
| **Vault: joins, exits, swaps** (`PoolBalances`, `Swaps`) | the balances | joinPool, exitPool, swap, batchSwap, each calling hooks of the Pools | every token is backed; limits hold; no update is lost during a hook |
| **Vault: Internal Balance** (`UserBalance`) | Internal Balance per user and token | manageUserBalance | never created or lost; spent by its owner's will |
| **Vault: transfers and ETH** (`AssetTransfersHandler`) | tokens and ETH held | receive, send, return what is left | a call uses only its own ETH |
| **Vault: flash loans and fees** (`FlashLoans`, `Fees`, `ProtocolFeesCollector`) | fee percentage, discounts, collected fees | flashLoan, withdrawals, changes of fees | loans come back with the fee due when they were made |
| **Vault: Asset Managers** (`AssetManagers`) | managed balances | managePoolBalance | only the split between cash and managed changes, but for reports |
| **Vault: access** (`VaultAuthorization`, `TemporarilyPausable`, `ReentrancyGuard`, signatures) | relayer approvals, nonces, paused, the lock | setRelayerApproval, setPaused, authenticateFor | relayers act only for users that agreed; pauses stop what comes in and expire |
| **TimelockAuthorizer**, `TimelockExecutor` | root, permissions, delays, scheduled executions | schedule, execute, cancel, grant, revoke, claimRoot, delay changes | what has a delay waits for it; only roots choose roots and delays |
| **BasePool**, recovery mode, pool tokens | pool token supply, fees, recovery mode | hooks, initial join, recovery exits | exits in recovery mode need nothing but balances |
| **Caches** (protocol fees, token rates) | cached values with expiry | update, read | stale values are used only where meant |
| **Weighted, Managed and bootstrapping Pools** | weights in time, last invariant, tokens, allow lists | gradual changes, adding and removing tokens, due fees | weights add up to one at every time; fees counted once |
| **Composable stable Pools** | amplification ramp, rates, last join or exit data | ramps, joins, exits, due fees | ramp within its rate; fees counted once |
| **Linear Pools**, rebalancer | targets, balances | swaps, setTargets, rebalance | pool token supply matches nominal balances |
| **FeeDistributor** | cursors and amounts by week: of votes, of users, of tokens | checkpoints, deposits, claims | no week is distributed twice, none is skipped |
| **BalancerTokenAdmin, BalancerMinter** | mining epoch, rate, minted amounts | updateMiningParameters, mint | never mints beyond the schedule |
| **DistributionScheduler** | a linked list of rewards by week for each gauge and token | schedule, start for one token or all | each amount is paid once, when due, to its gauge |
| **GaugeAdder, root gauges** | gauges, periods | add gauges, checkpoints | a gauge is added once, for a factory of its type |
| **MerkleOrchard, MerkleRedeem** | roots, claimed bits, remaining balances | create, claim | one claim per distribution, none beyond its balance |
| **Asset manager contracts** | invested amounts per Pool | rebalance, capital in and out | what Pools are told adds up to what is invested |
| **Relayer library** | chained references, approvals | multicall of Vault actions | a reference is read as it was last written |
| **Fee percentage provider, withdrawer** | percentages and maxima per fee type | set, withdraw | never above a maximum |
| **Governance coordinators** | stage | perform next stage | stages once, in order |
| **Deployment tasks** (`pkg/deployments`: `task.ts`, `network.ts`, `verifier.ts`, `contracts.ts`) | outputs and deployment transactions by network, build-infos | run, force, check, fork test, verify | records hang together; what a check passes can be reproduced |
| **Artifacts and action ids** (`artifact.ts`, `actionId.ts`, `buildinfo.ts`) | ABI and bytecode files, ids of actions, expected collisions | extract, save, check | what passed a check is what contracts on record have |
| **Models of Pools** (`pvt/helpers/src/models`, encoders of `balancer-js`) | lists of tokens, cached parameters, callers' parameters | deploy, joins, exits, swaps, queries, estimates, settings | amounts and indices mean the tokens they were given for |
| **Signing** (`signatures.ts`, `permit.ts`) | signatures made; nonces of three kinds of contracts | sign, validate | a signature serves for the call it was made for, once |
| **Merkle trees** (`merkleTree.ts`) | the layers of a tree | build, prove, verify | every element can be proven, and nothing else |
| **Snapshots of tests** (`sharedBeforeEach.ts`) | snapshots of the chain, a stack of ids | set up, go back, end a suite | each test starts from the chain its hooks describe |
| Vyper gauges, factories, queries, drivers of tests, benchmarks | - | - | not considered here, see [below](#limits) |

How they interact. Users, relayers and Asset Managers call the Vault. The Vault
calls Pools (hooks), receivers of flash loans, tokens, the WETH contract, the fee
forwarder and, to ask whether a caller may do something, the Authorizer. Pools
register themselves and their tokens. The Authorizer acts on every contract
through its executor, an account of its own. Of these, whatever is not the Vault
or the Authorizer is here the *world*: it answers anything its interface allows,
and does anything it may do while it has control. The FeeDistributor reads votes from
the voting escrow and is given tokens by the fees' withdrawals; the scheduler pays
gauges, which accept rewards from the token's distributor alone. Deployment tasks
create the contracts in the order of their inputs and leave the addresses that scripts
and other tasks read; the models of Pools and the signing code make the calls that the
Vault, Pools and other contracts take apart again.

<a id="models"></a>
## The models

### The Vault

`Vault` puts together one module per contract of the Vault, which share the state
declared in `VaultStorage`:

```
BalanceAllocation          cash, managed, lastChangeBlock and their arithmetic
  VaultStorage             the state; lock, pause, authenticateFor
    AssetTransfers         tokens and ETH in and out
      UserBalance          Internal Balance
      (PoolTokens)         registry
      PoolBalances         joins and exits      (with AssetTransfers, PoolTokens)
        Swaps              swaps and batches
    FlashLoans             loans, fees, the collector
    AssetManagers          managed balances
Vault                      all of them, the world, the properties
  MCVault                  instances
  VaultProofs              types, ETH, registry and cached balances
    VaultSolvencyProofs    sums of balances; loans, limits; what a step may do
Induction                  finite sets and sums, for all proofs
```

*Steps.* A function that finishes before anybody else can act is one action. One
that hands over control is several: a step up to the external call leaves the
function's local variables in `frame` (which is thus also the lock's state, not
`Idle` while `_status` is `_ENTERED`), then the world takes steps, then a step
that takes any answer of the callee completes the function. A batch of swaps has
two steps per hop, a list of operations one per operation. The transfers at the
end of a function are one step: the lock keeps other calls of the Vault out, and
the actions that are not behind it (donations, the collector's functions) commute
with them. They are done in the order the caller lists the assets, and the outcome
of that is the same for every order, as an asset in is not the asset out.

*Reverts.* A guard that fails is a step not taken. A call under way that fails is
the action `Revert`, which restores the state saved when the call began, with
everything done during it by others in the same transaction.

*Data.* Tokens, users and Pools are model values. A Pool has a specialization; the
three layouts of balances are one function, with what they do differently kept
(Two Token Pools register in pairs and share one lastChangeBlock). A balance is a
record for a packed word; the overflow of its 112 bits is kept (`TotalCap`). ETH
is an asset that `translate` takes to WETH. A signature is a pair of a user and the
caller it allows one call to; using it voids the user's others, as the nonce
advances. Errors' codes, events and user data are left out. A token moves exactly
the amount it is asked to, as the Vault assumes.

*History.* `donated` and `ethForced` count what came in unasked. No action reads them.

*The world.* `Donate`, `ForceEth`, `Distribute` (the fee forwarder pays out),
`AuthorizerChanges`, `Sign`, `NextBlock`. The Authorizer's answer for a relayer is
membership in `relayerRoles`, which changes at any time, also within calls. One
clock is both the block number and the timestamp.

### Storage

In `Vault` the balances of a Pool are one function. `PoolStorage` is how one Pool
is stored, each operation going to the layout of its specialization:

```
EnumerableMap, EnumerableSet      arrays with swap-and-pop, and their indices
BalanceAllocation
  GeneralPoolsBalance             a map from tokens to balances, in order
  MinimalSwapInfoPoolsBalance     a set of tokens beside a mapping to balances
  TwoTokenPoolsBalance            two words two tokens share, for a sorted pair
PoolStorage                       the three, the Vault's calls of them, the properties
  MCPoolStorage                   instances
  PoolStorageProofs               types, collections, what is read
PoolLedger                        the abstract ledger: a function from tokens to balances
```

An action is an entry point of the Vault as far as it touches storage. Joins, exits
and swaps are two: one reads the balances, calls the hook and leaves what it read in
`pending`; one takes any answer of the hook and writes. What is written goes by what
was read before: positions of a General Pool's map, the list of tokens of a Minimal
Swap Info Pool, the pair of a Two Token Pool. Registration is refused while a call is
pending (nonReentrant), which is what makes these still mean the same. Here tokens
are numbers, as Two Token Pools sort them, and lists of tokens are lists, as callers
may repeat one. A loop over a list is a recursive function of the number of
iterations done. A word is the record of its fields and a pair's hash the pair.

`PoolLedger` is what `Vault` takes the balances for. The refinement mapping is
`LedgerOf`, what `getPoolTokens` returns read as a function; a step up to a hook and
a revert are stutters, the step that writes is the ledger's.

### The Authorizer

`TimelockAuthorizer` has one action per external function of the contract.
Action ids are hashes in the code and tuples here. Calls that take lists of actions
are calls for one entry. `execute` of a call to the Authorizer itself is one step,
as nothing else has control; of a call to another contract it is two, with
`executing` the lock, and the target may call everything but `execute` in between.
The `scheduled` records keep a history (who, when, whether as root, when it ran)
that no guard reads.

### Liquidity mining

```
WeekClock                  block.timestamp and the weeks it falls into
  FeeDistributor           fees by week, and the votes of the escrow they are shared by
  RewardSchedule           what the scheduler promises: amounts due by gauge, token and week
  DistributionScheduler    its linked lists, and the refinement mapping
  LiquidityMiningProofs    claims and what covers them; the refinement
MCLiquidityMining          instances of either contract
```

`FeeDistributor` has an action per external function for one token and one user:
checkpoints of the supply of votes, of a user, of a token; a deposit; a claim, which
makes the three checkpoints and then pays. Each brings a cursor of its own forward,
in a loop that stops after a fixed number of iterations (`MaxWeeks`, `MaxSteps`) or
earlier, so the cursors are apart in every way. `checkpointUserBalance` follows the
loop of the code over weeks and points of the user's history, from an epoch that is
the last one, a search (above `MaxEpochs` new points) or a search from the beginning.
The escrow is as the FeeDistributor uses it: each user's history of points, made by
creating, increasing, prolonging and withdrawing locks; empty points as well, which a
withdrawal without a lock makes. Its supply, which it keeps by points and slope changes
of its own, is the sum of its users' votes here, for times that have passed. Tokens also
come in by themselves (`Transfer`). `claimed` is a history.

`DistributionScheduler` has the lists as the contract stores them: nodes by timestamp,
never erased, used again when their week is scheduled again; the head's value is a
pointer only. `RewardSchedule` is an abstract specification: an amount due for each
list and week, and three kinds of steps (schedule, start some lists, nothing). The
refinement mapping is `DueOf`: the amounts of the nodes that can be reached from the
head. Walks along a list are recursive functions of the nodes passed.

### Off chain

The off-chain components share no state, and are run side by side by `MCOffchain`: a
behavior is of one of them.

*Deployment tasks.* `DeploymentTasks` is the directory of the tasks: for each, its
`index.ts` as a sequence of operations (deploy, deploy and verify, save the address of a
contract that another one created) and its `input.ts` as the outputs it takes from
other tasks. `Deployments` runs them: an action for each stretch of a run between two
awaits (the transaction mined, the instance saved, the hash saved, the verification),
`Interrupt` at any of them, and the four modes. The chain is the sequence of contracts
created, each with the arguments and the version of the build-info it was created from,
so an address is an index; a fork test deploys past its end. `EditTask` is a developer
changing a build-info or a parameter. `TaskRecords` is what else is on file: artifacts
extracted from build-infos and checked against them; action ids, which a contract has
by its address or by the factory it came from; collisions of ids, expected and found.
A hash that makes an id is the pair of what goes into it.

*Models of Pools.* Amounts are abstracted to the token the caller means each to be of,
so that what a list loses, shifts or reorders shows, and nothing else does.
`TokenLists` has the orders of tokens (as deployed, sorted by address, with the BPT of
a composable Pool among them); `PoolEncoders` what the encoders write and what the
Pools read from it, kinds being the numbers both sides give them; `PoolDeployers` what
each factory, mock and constructor passes on; `PoolClients` the calls of the models:
what each method sends, the estimates it computes from what it cached, and the
parameters it leaves behind changed, as some methods drop the BPT's amount from the
list they were given.

*Signatures* has three signing functions and the three contracts that validate. Typed
data is a record whose signature only it recovers to; what the Vault takes off the end
of calldata is a pair. *MerkleTrees* builds the layers, proofs and verification over
hashes that are sequences ordered like bytes, so a pair's order matters as it does in
the code; JavaScript's sort is written by its result, each buffer's place. *SharedBeforeEach* has the stack of snapshot ids and the network's list
of snapshots, which loses those above the one it goes back to; mocha's order of
suites, hooks and failures is external.

Names follow the source. An operator with an underscore suffix, such as
`NotEntered_Unlocked`, is its namesake with a plausible mistake in it, used to see
that the properties notice; no specification uses it.

<a id="runs"></a>
## The runs

| Run | What it explores | Properties |
|---|---|---|
| `MCVault_pools` | one Two Token Pool, a manager, a user, pauses, four blocks | `TypeOK` `Backed` `CachedBalancesCurrent` `RegistryConsistent` `TotalChangesStampBlock` `ManagersMoveQuietly` `PausedOnlyPaysOut` `PausesExpire` |
| `MCVault_swaps` | a General Pool with WETH and another token, ETH sent along and ETH forced in, batches of two hops, joins, exits and lists of users' operations | `Backed` `EthPassesThrough` `LimitsHonoured` |
| `MCVault_loans` | flash loans, the collector, donations, forced ETH, users' operations | `Backed` `LoansRepaidWithFee` |
| `MCVault_relayers` | two users and a relayer with approvals, signatures and a role that comes and goes, lists of two operations for different users | `SpentByUsersWill` |
| `MCPoolStorage` | the three layouts under every operation, three tokens | `StorageTypeOK` `ImplementsLedger` `CollectionsConsistent` `ReadsCurrent` `SwapsReadTheLedger` `NonZeroIsRegistered` |
| `MCTimelock_root` | transfers of the root and changes of delays beside permissions for setPendingRoot and setDelay | `RootChangesWait` `DelaysChangeByRoot` |
| `MCTimelock_delays` | overlapping changes of a delay and the action it delays | `TypeOK` `RunOrCancelled` `DelaysHold` |
| `MCTimelock_powers` | delayed grants and revocations, specific and general powers | `GrantsWait` `RevocationsWait` |
| `MCLiquidityMining` | the FeeDistributor or the DistributionScheduler over two to three weeks | `ClaimsExact` `AssignedIsCovered` `SchedulerImplements` |
| `MCOffchain` | one of six off-chain components | `StaleOnlyByLaterDeployment` `CheckedTasksReproduce` `OnlyLiveRunsRecord` `TasksEverVerified` `CheckedRecordsCurrent` `AcceptedAsMeant` `EstimatesLineUp` `SignaturesServeOnce` `ProofsVerify` `ActsAsBeforeEach` |
| `MCTimelock_sooner` | expected violation | `NeverSooner` |
| `MCPoolStorage_repeats` | expected violation | `NonZeroIsRegistered` |

Together the passing runs take every action of the specifications. Two of them hold
components that have nothing in common but a clock, or not even that: a variable
`component` says which one a behavior is of, and the others stay as they start.

What the properties say:

- `Backed`: tokens held, plus what a call in progress lent or will collect, are the
  Pools' cash and the users' Internal Balance, plus donations. It is an equality, so
  it excludes tokens that get stuck as well as claims without backing, at every
  step of a loan or of a batch.
- `CachedBalancesCurrent`: while a hook runs, the balances read before it are those
  stored.
- `EthPassesThrough`: the Vault's ETH is what was forced in and what the call in
  progress sent, less what that call has wrapped: whatever it wrapped on the way, a call
  that returns has used no ETH but its own. With ETH forced in there is some to use.
- `RegistryConsistent`: no balance, block or manager for tokens that are not
  registered.
- `TotalChangesStampBlock`, `ManagersMoveQuietly`: what price oracles rely on.
- `PausedOnlyPaysOut`, `PausesExpire`: what a pause stops; that it ends, and that the
  Pause Window over no other follows it.
- `LimitsHonoured`: limits bind what the Pools took and gave over the whole call.
- `LoansRepaidWithFee`: a loan pays the fee that was due when it was made.
- `SpentByUsersWill`: Internal Balance goes down by its owner's will.
- `ImplementsLedger`: every layout does what the abstract ledger does: no write
  reaches another token's balance, none survives its token.
- `CollectionsConsistent`: arrays and index mappings agree after any additions and
  removals.
- `ReadsCurrent`: indices, lists and balances read before a hook are those stored when
  the call writes by them.
- `SwapsReadTheLedger`: swaps do not look tokens up, they take a balance or an index
  as the proof of registration. They go on exactly if both tokens are registered, and
  read their balances.
- `NonZeroIsRegistered`: a balance in a Two Token Pool's words shows that both tokens
  are registered; so it is if no list repeats a token, and not otherwise (disagreement 2).
- `RootChangesWait`: who is root, or pending, was asked for by a root that waited.
- `DelaysChangeByRoot`: every step that changes a delay, to whatever value, runs a change
  to just that value, asked for by a root `MIN_DELAY` before.
- `RunOrCancelled`, `DelaysHold`, `GrantsWait`, `RevocationsWait`: no way around a delay:
  not by a cancel, by reducing it in steps, or by a power more general than the delayed.
- `ClaimsExact`: whatever was brought up to date when and how far, what a user has got is,
  for each week they claimed, their share of all that the week is assigned, by the
  votes of the escrow as it began. So no week is claimed before its votes are known or
  while it can be given more, twice, or passed over, however the three cursors and
  the claim's own are apart.
- `AssignedIsCovered`: no token is assigned twice, and what is assigned is there.
- `SchedulerImplements`: the linked lists implement `RewardSchedule`: in whatever order
  amounts are scheduled, started and scheduled again for a week that was, each is held
  until its week and then paid, once, to the gauge it is for.
- `StaleOnlyByLaterDeployment`: a contract on record refers to the addresses on record
  for its inputs, or to older ones that a later deployment replaced, never to newer.
- `CheckedTasksReproduce`: after a check passed a task, deploying it anew with the
  recorded inputs gives contracts on record for all it deploys itself.
- `OnlyLiveRunsRecord`: fork tests, checks and read-only runs change neither the network
  nor its records, even where they save a contract that another one created.
- `TasksEverVerified`: to run a task again, as the advice is, does get its contracts
  verified, if the one on record stays the one the task would deploy.
- `CheckedRecordsCurrent`: what scripts read of a contract whose checks passed is what
  it has: ABI, bytecode, and ids by the contract or factory on record.
- `AcceptedAsMeant`: a call of a Pool's model that is accepted, after whatever calls with
  the same parameters, is the join or exit the method is named for, and each amount and
  index is of the token it was given for.
- `EstimatesLineUp`: the lists an estimate is computed from are of the same tokens, and
  parameters are those the Pool was deployed with.
- `SignaturesServeOnce`: a signature whose nonce was asked for serves one call, the one it
  was made for, until its deadline or until another of its author's is used there. The
  Vault's model takes this for granted.
- `ProofsVerify`: every element of a list, in any order and with repetitions, has a proof,
  which the contracts take for it and for nothing else.
- `ActsAsBeforeEach`: a test finds the chain as if each shared hook had run before it;
  nothing is left of other tests, other suites or hooks that failed.

*Bounds*, and why they do. `Amounts` is 0 and 1: the arithmetic is linear, and 1 in
and out of a balance of up to `TotalCap - 1` meets every comparison (a fee equal to,
above and below an amount, an empty and a full balance). `MaxSteps` hops or
operations: two are enough for a second to use the result of a first, or what was checked
for it, and there is no other memory between hops than `previous` and the deltas,
between operations than the ETH used and the two checks made once. `MaxBlock`: three blocks for a pause to
begin within its window, end in the buffer, or expire; none where no property is
about time. The Authorizer's `MaxScheduled` of 3 allows a delay, its change
and the action it delays; `MaxTime` lets the longest of the delays pass.
The storage run has three tokens, the least with which a removal moves an entry
that is neither the one removed nor the first, in lists of one and of two, repeated
or not and in any order; balances up to 1; and two blocks after the first, so that
the two blocks that go into a shared word can differ.
A week of liquidity mining is three units of time and its last day two; the clock goes
from before the second week's end to the fourth's beginning, so that weeks lie before,
between and after any two cursors. Loops over weeks stop after two instead of 20,
those over a user's weeks and points after three instead of 50, and points are
searched when there is more than one new one instead of 20: a loop that is cut
short, and a search, happen within these weeks. One user's votes last, the other locks,
prolongs and withdraws up to two more times; one gift of 12, which the parts of weeks
divide. Three rewards for two lists meet the empty list, the front, the middle, the end
and a week that was started.
Off chain there are three tasks, the Vault's, which saves a contract that its own
creates, and the two it takes inputs from; two troubles, so that an interrupted run can be
followed by a forced one or by an edit; five changes of records, enough to deploy, extract, save,
replace and check again; three tokens, and a BPT whose address comes before or between
the others; two signatures, of the same contract or of two, by one user or two, for one
sender or two; lists of up to five
elements, whose trees have odd layers at two heights; and eight tests in suites
nested three deep.
One Pool is enough where Pools do not share anything but the Vault's tokens, which
a user's Internal Balance and donations then compete for; the proofs are for any
number.

*Fairness.* Safety properties need none. `PausesExpire` is checked under
`FairSpec`: weak fairness of `Revert`, as every call ends, at the latest for want
of gas; and strong fairness of `NextBlock`, as blocks keep coming but only
between transactions. Nobody is assumed to end a pause. The actions of users and
of governance have no fairness: nobody has to call.
`TasksEverVerified` is checked under `DeployFairness`: weak fairness of the steps of
a run, as a script goes on by itself; strong fairness of starting each task live,
which is the operator following the advice to run it again; and strong fairness of
each task's verification, as the block explorer fails at times but gets to see each
contract in the end. Interruptions and forced runs are bounded, so they do not
keep a run from ending. Nothing else off chain has fairness.

*Disagreements* that a run shows: two comments say more than the code does.

1. `TimelockAuthorizer.sol:479-480` says no delay change lets an action be performed
   sooner than its current delay. A reduction scheduled while an increase is
   pending does (`MCTimelock_sooner`). `DelaysHold` states what is true: it is so
   for a delay that took effect with no other change of it waiting.
2. `TwoTokenPoolsBalance.sol:357` says a non-zero balance shows that both tokens are
   registered. deregisterTokens of a list that names one token twice reads the
   balance of a pair that does not exist, zero, and removes both tokens of the Pool
   with whatever they have (`:111-129`). The balance stays, swaps go on, joins and
   exits do not (`MCPoolStorage_repeats`). Only the Pool itself can make this call.
   The lists of the passing run do not repeat a token for Two Token Pools, and in
   `Vault` they are sets.

<a id="proofs"></a>
## The proofs

All are about the specifications TLC checks, for every value of the constants that
meets `VaultAssumption`, `TotalCapAssumption`, `TokensAssumption` and `InputsAssumption`,
`AuthorizerAssumption`, or the assumptions of the module they are about. `VaultAssumption`
takes Pools, users and tokens to be finitely many, as they are on any chain: without that a
sum over all of them says nothing.

`Induction` is what several proofs share: induction over the naturals and over the
subsets of a finite set in a form that takes no operator as a parameter (a *set* that has
the first and, with each, the next has all), and from it what changing one value
of a function does to the sum of all (`SumExcept`, `SumDifference`), how sums add, compare
and scale, and that a sum of sums may be taken by rows or by columns (`SumSwaps`). The
`Functions` module sums in an order of its own choice; `PartialSumsAre` shows that the order
is of no matter. Loops are recursive functions of the iterations done: `LoopExists` says
that such a function is one, for any start and step, and `LoopPreserves` that what each
iteration preserves the loop does.

`VaultProofs`: `TypeCorrect` and `NoEthLeftBehind`, from

    IInv == TypeOK /\ EthPassesThrough /\ SavedWithoutCallValue

`EthPassesThrough` alone is not inductive: `Revert` restores an ETH balance saved
earlier, so the invariant also says that what was saved is the ETH balance of
*before* the call, with nothing but forced ETH in it. There is one lemma per
action. In `TypeCorrect` the work is that no count is ever negative and no balance
reaches the cap: it follows from the guards that stand for SafeMath and for the
token transfers that revert.

`NoPauseAfterTheWindow` is the safety half of `PausesExpire` (`NotRenewed`): only `setPaused` and
the next block change what is paused, and neither begins a pause after the window.

Also `HooksSeeCurrentBalances` and `NothingStaysBehind`, from

    RInv == TypeOK /\ RegistryConsistent /\ SavedConsistent /\ CachedBalancesCurrent

Storing the result of a hook writes the balances of cached tokens, so one needs that
those are still registered; reverting writes the saved balances, so one needs that
they agree with the registry of now. Both are the lock's doing: the registry and
the balances change only when no call is under way, or by the call itself.

`VaultSolvencyProofs`: `Solvent` (that is `Backed`), `LoansAreRepaid`
(`LoansRepaidWithFee`) and `LimitsBind` (`LimitsHonoured`), from `RInv` and

    MInv == Backed /\ CallLedger

What the Vault owes of a token is a sum over Pools and users, and a step changes one or
two of its terms. `Backed` by itself survives neither a revert nor the end of a call.
`CallLedger` says what the call under way relies on, and has yet to settle: what it
would go back to is backed (`SavedBacked`); a loan recorded what the Vault held, and its
fees (`LoanAsMade`); nothing but the call itself stored balances since it began
(`StoredAtReturn`), so that what it writes when its hook returns differs from what is there by
what it transfers; the caller's deltas so far are the change of what Pools hold
(`BatchAddsUp`), and are of assets with a limit, so that none goes unpaid because no
limit names it. That a hop is between two different tokens (`HopBetweenTwo`) is needed as two
changes of one and the same balance do not add up to one of each.

The second part of `VaultSolvencyProofs` is about what a step may do: `OnlyTheWillingSpend` (`SpentByUsersWill`) and `PauseStopsIntake`
(`PausedOnlyPaysOut`), from

    Checked == Willed /\ PauseBinds

what was checked as the call began still holds where it is relied on, maybe several steps
and foreign calls later: approvals and pauses change between calls only. A relayer's role
does not (`AuthorizerChanges` goes on during calls), and is not needed. Then
`BlocksFollowTotals` (`TotalChangesStampBlock`) and `ManagersLeavePrices`
(`ManagersMoveQuietly`). The last needs

    BlockInv == no balance, stored or saved, has a later block than the clock, and the
                tokens of a Two Token Pool are two and have one block

since a manager of one of the two tokens writes the block of the other too.

`TimelockAuthorizerProofs`: `TypeCorrect`, `RootTransfersWait`, `DelaysAreTheRoots`
and `NeverBoth`, from

    IInv == ByRootOnly /\ RootChangesWait /\ RunOrCancelled

with `TypeOK`. `ByRootOnly` is the strengthening: whatever calls setPendingRoot or
setDelay among the scheduled executions was scheduled by a root with the right wait,
and nothing ran before its time. It holds because `schedule` refuses the Authorizer
as a target, which is also what mutants of both properties remove. `DelaysAreTheRoots`
(`DelaysChangeByRoot`) is about steps: only `setDelay`, called by an execution, changes a
delay, and `ByRootOnly` says what such an execution is.

`GrantsTakeTheirTime` and `RevocationsTakeTheirTime`, from `PowersWait`: an execution
that grants or revokes was scheduled later than it runs, as its action had a delay. What
the other calls do to permissions are the lemma `PlainPermissionSteps`: none makes or
takes a plain permission whose grant or revocation is delayed but a renouncement. It
takes `PlainActions`: no plain action id is also an extended one (they are hashes).

`DelaysAreHeld`, that is `DelaysHold`, from `ByRootOnly` and

    HeldInv == what was scheduled was so by now, and every delay that took effect
               with no other change of it waiting is Held

`Held(action, since, until)` bounds what overlapping changes can take away: the time plus
the delay in force is no less than `until`, nor is, for each change that waits, the time
it can run plus the delay it sets; so whatever was scheduled since waits until then.
A change takes away no more than it waits for (`ChangesWait`), which is why no sequence of
reductions gets round it.

`PoolStorageProofs`: `StorageTypeCorrect`, `CollectionsAgree` and `ReadsStayCurrent`,
for every set of tokens and all lists, from

    StorageInv == StorageTypeOK /\ CollectionsConsistent /\ ReadsCurrent

The three need each other: swap-and-pop keeps the arrays right only if index and array
agree; what a call writes goes into the map by the indices it read, so these must still
be current; and they are current because nothing else gets past the lock. Then
`SwapsReadBalances` and `NonZeroShowsRegistration`, which need besides that

    UnregisteredEmpty

what is not registered has exactly the empty balance, or empty words: that is what makes
reading a balance without looking its token up safe. It is an invariant under
`NoRepeatedTokens`, and not without (disagreement 2).
Loops over lists are shown right by `LoopPreserves`.

There too `LayoutsImplementLedger`: under `NoRepeatedTokens`, each layout implements
`PoolLedger`, one function from tokens to balances. Initial states map to initial states,
and every step to the ledger's of the same name (`RegisterRefines` ... `ManageRefines`), or
to none, from

    LedgerInv == StorageInv /\ UnregisteredEmpty /\ LedgerFits /\ BlocksPast

`LedgerFits`: the balance of a token, read from the words it shares with another, is
one that fits its own word. `BlocksPast`: no shared word has a block later than the clock, as
packing takes the later of two blocks where the ledger takes that of now. The lemmas
on contents (`RegisteredMapContents` and its like) say what the loops over lists of tokens leave
for each token of the list and for each that is not; a list with repeats would have two
answers, which is the reason for `NoRepeatedTokens`.

`DeploymentsProofs`: `PassedChecksReproduce`, from

    CheckInv == ... a check under way has compared every operation before this one, and
                    the contracts it holds for later ones are those on record

and `RecordsHangTogether`, from

    DeployInv == RecordsInv /\ (run.mode = "LIVE" => \E t \in Tasks : Deploying(t))

`RecordsInv` says that each contract on record was made by the operation it is on record
for (`Made`), with arguments no newer than those on record, and that one which creates
another is followed by it; `Deploying`, that a live run has its inputs and what it put on
record of its own so far, and that what it just deployed, and has yet to save, is newer
than all records. That is where an interruption may strike, and why none does harm:
addresses on record only become newer (`Grows`), whichever run goes on, so that what was
made stays made (`MadeStays`). The third, `RecordsAreOfLiveRuns`, is one lemma on steps.
The proofs use of the tasks only what `ScriptsInOrder` and `TasksAssumption` say of
them, which TLC evaluates for the tasks there are: a script names no contract twice and
takes only inputs and contracts it deployed before.

There too `ChecksVouchForRecords` (`CheckedRecordsCurrent`), for any build-infos, contracts and Pools,
from `ContractsInv /\ PassedInv`. `PassedInv`: what passed the last check would pass it
again, as any change since has voided that (`ArtifactCheckStays`, `ActionIdsCheckStays`
say what a check reads). `ContractsInv`: a contract on record is one of that name which
somebody deployed, and only Pools are created by other contracts; so an id that was
compared with the one the record's contract, or its family, gives is the id that scripts
would use.

`OffchainProofs`, of the other off-chain components. `SignaturesServe`, from the invariant
that no signature was asked for with a nonce ahead of its contract's: using one takes the
nonce past every signature asked for with it.

`HooksActAsBeforeEach` (`ActsAsBeforeEach`), from

    TestsInv == ... \E p : /\ IsStack(hooks, p, initialized, SNAPSHOTS, taken, base)
                          /\ at.failed = "none" => IsChain(hooks, at.hook, p, evm, base)

`IsStack`: the shared hooks that are set up are those among the first p around the test, and
the snapshots kept of them are in their order, each of what it and those before it did,
whichever suites were left or entered and whichever hooks failed between.
`IsChain`: once a shared hook ran, the chain holds what all that are set up did, and what ran
after it. That goes beyond the test at hand: the first shared hook of a suite already
finds what later ones have set up, which these then go back to. Going back loses the
snapshots above, so it matters that the ids are in order. The proof takes of mocha that suites are nested
(`ScheduleAssumption`), which TLC evaluates for the schedule there is.

`CallsAreMeant` (`AcceptedAsMeant`) and `FiguresLineUp` (`EstimatesLineUp`), from

    ClientInv == TokensInv /\ PoolInv /\ HeldInv

`PoolInv`: the Pool's tokens are those of the model's list, in its order, and in a stable Pool
the BPT is one more among them, at `bptIndex` (`InsertsAt`), unless a weighted Pool is on a
real Vault, where they can change; and what the model caches has reached the Pool (`ReachesWeighted`).
`HeldInv`: the amounts in the caller's parameters are a single one, a list for the Pool's or
for the model's tokens, or one that a stable Pool's methods have dropped amounts from until it
is too short for either (`KeptMeant`). So a list whose length the Pool accepts is of the
right tokens, place by place (`ListsMeant`), which is what the length has to vouch for. `MethodsMean` says of every
method that the number its encoder writes is the kind that the Pool of its family reads.
Sorting a list again leaves it as it is (`SortedOnce`, by `OrderIsOne`: there is but one order).
With more changes than the run has (`MaxChanges` of 4) a caller's list would outlive the tokens it was
written for, when they go and come again; the callers modelled write theirs anew.

`ProofsAreTaken` (`ProofsVerify`) and `NoOthersPass`, for trees of any elements, listed in any
number and order, from

    TreesInv == /\ given \in Seq(Elements) /\ tree = Tree(given)
                /\ proven = <<>> \/ IsProven(proven)

The state says little; the work is in what the functions of `merkleTree.ts` return. Of hashing
it is shown, not assumed, that no two pairs of nodes have the same hash (`HashesDiffer`): nodes
are the least set that has the leaves and is closed under `keccak256` (`Nodes`), and
none of them is the beginning of another (`NodesAgree`), so where one ends in a hash the next begins. Sorting
gives each buffer a place of its own, so it loses none (`SortKeeps`), nor does
leaving out equal neighbours (`DedupKeeps`). A layer has half as many nodes, rounded up (`NextLayerIs`),
so there are enough layers to come to one node (`LayersEnd`). Up the layers, the pair of a node is
what it is hashed with for the next (`PairIs`), and a node without a pair goes up as it is and
adds nothing to the proof; so the contracts, going through a proof, have the node
at `idx` in each layer, and at last the root (`ProofReaches`). With the same proof no two elements come to one
hash (`LeavesDiffer`).

`NoOthersPass` is the converse, for every sequence of nodes sent for a proof, not only
those that `getProof` returns. A tree has all that its hashes are made of (`TreeIsGrounded`), so from a root
that was reached one gets back, hash by hash, to what the claim began with
(`RootIsReachedFromTree`): a leaf of the tree, as an element is no hash of two nodes. The code
has that from their lengths: 52 bytes are hashed for a claim, 64 for a pair of nodes. No run checks this property:
its proofs are of every length, over the infinite set of nodes.

`LiquidityMiningProofs`, first about the FeeDistributor: `ClaimsAreExact` (`ClaimsExact`) and
`AssignmentsAreCovered` (`AssignedIsCovered`), for any users, tokens, lengths of weeks, limits
of loops, locks and gifts, from

    FeeInv == StartOK /\ HistoriesOK /\ DataOK(supply, userState, ...)

`DataOK` says of the supply, of each user and of each token, how far what is kept of it is
final: weeks before the cursor are over, and have the votes the escrow says (`GoodSupply`,
`GoodUser`); a user has claimed only weeks whose tokens are all assigned, or in which they
had no votes (`CursorOK`); what they got is the sum of what is due for these weeks; and what
the weeks were given, less what was claimed, is in the balance (`Covered`). Neither property
is inductive without the others: a claim is exact only because the week it is of can be given
no more, and its votes can change no more.

A step changes either the escrow or the time, and then nothing about weeks that are over
(`EscrowMoves`: points are appended, with the time of now), or the data with the escrow as it is
(`DataKept`). What the loops do is shown iteration by iteration, so that it holds wherever their
bound cuts them off: `SearchFinds` (the binary search ends at the last point by its
timestamp), `UserWalks` (the point in hand is the last before the week), `TokenSpreads`
(what has been spread so far is in proportion to the time gone by, and each division rounds
down). `cachedBalance` is never negative as the shares of a week come to no more than the week
(`SharesFit`), for which the sum over users of their sums over weeks is turned around
(`ClaimsFit`, by `SumSwaps`).

`FeeAssumption` is what the proof takes of the escrow: users are finitely many, their points
are natural numbers in the order of time, and those there are at first were made before
the contract was. What is appended later is shown to be so.

Then about the DistributionScheduler: `PromisesAreKept`, that is `SchedulerImplements`, the
refinement of `RewardSchedule`, for any gauges, tokens, amounts and weeks, from

    RewardInv == the clock has started, and every list is Listed with some set of keys

`Listed(nodes, K)`: from each key of K, and from the head, the next is the least greater one,
if there is any. Nothing is said of nodes that are not in K: they are stale, and `InsertAdds`
is where it shows that none is read before it is written again. As keys grow along a list
and are beginnings of weeks, no walk is longer than there are weeks (`WalksEnd`); so the three
walks get where the code's loops, which have no bound, get (`ListsReach`,
`PendingWalks`, `NeighboursFound`). `StartTakesOff` says that what is taken off the list by a
start is what is due, and `StartRefines` and `ScheduleRefines` that the steps are those of
`RewardSchedule`.

The theorems are about `FeeSpec` and `RewardsSpec`. A behavior of `MCLiquidityMining` is one
of both: a step of the one contract there either lets time pass or is none of the other's.

Assumptions worth knowing: `NoRepeatedTokens`, for the three theorems that say so;
`ScheduleAssumption`, that suites of tests are nested; `ClientAssumption`, that no two
contracts come to be at one address; `MerkleAssumption`, that elements and the mark of hashes are
numbers and the mark is none of the elements;
`PlainActions`, for those on grants and revocations; the
executor is not one of the callers and not the zero address; the zero address calls nothing; ETH is not a token and WETH is one.

<a id="limits"></a>
## Only model-checked, and not modelled

Only model-checked: that a pause ends (the first half of `PausesExpire`) and
`TasksEverVerified`, which are liveness properties and out of the provers' reach: they
rest on fairness, which is stated with ENABLED. All other
properties of the runs that pass, the invariants and what a step may do, are stated by a
theorem as well.

Not modelled of what has a module: how the fields of a balance are packed into a word
(they are records, with the cap of 112 bits), Pool ids and their nonce.

Of the FeeDistributor: that others may be kept from claiming for a user
(`OptionalOnlyCaller`), and that deposits and claims of several tokens bring the supply and
the user up to date once for all of them. Of the voting escrow: slope changes, and the
supply's own points.

Of the off-chain code: two operators, or two runs, at one JSON file at once; what the
block explorer's interface answers in detail, and the trimming of sources sent to
it; the encoders for managed Pools and asset managers; the linear Pools' models; the
figures of `math.ts`, which tests compare with; drivers of single contracts,
benchmarks and mocks, which keep no state.

Not modelled: the numerical core of the Pools (`LogExpMath`, `WeightedMath`,
`StableMath`: powers, logarithms and Newton iterations at 18 decimals, which need
numerical analysis); the Vyper contracts, taken over from Curve, but for how the
FeeDistributor uses the escrow; factories and code deployment (bytes of contract code, a
set of Pools that only grows); `BalancerQueries` and queryBatchSwap (they change no
state). Fee-on-transfer and rebasing tokens are outside the Vault's own assumptions. Everything else in the inventory that has no
module yet is in the plan.

<a id="plan"></a>
## Plan

Done, in this order: the Vault's balances and transfers, registry, joins and exits,
swaps, Internal Balance, flash loans, Asset Managers; the Authorizer; their proofs;
how balances are stored, and proofs about it; the off-chain components; the
FeeDistributor and the DistributionScheduler.

Next, most important first. Each group shares a run, with a constant that picks
what it explores.

1. *Storage, the rest.* Packed words at small widths, as a refinement of the records;
   Pool ids and their nonce.
2. *Abstract Vault.* A ledger that takes each call as one step or not at all;
   `Vault` implements it, with the step at the call's return.
3. *Liquidity mining, the rest.* `BalancerTokenAdmin` with `BalancerMinter` (epochs and
   rates), `GaugeAdder` and root gauges; `MerkleOrchard` (claims as bits, over
   `MerkleTrees`); claims of several tokens at once.
4. *Pools.* Recovery mode and BasePool's join and exit protocol; `PriceRateCache`
   and `ProtocolFeeCache` (stale values); `StablePoolAmplification` and
   `GradualValueChange` (ramps in time); protocol fees due at joins and exits of
   weighted and composable Pools; `ManagedPool`'s tokens; Linear Pools with an
   abstract rate, and their rebalancer.
5. *Around the Vault.* `AssetManagerBase` and `ERC4626AssetManager` over
   `AssetManagers`; `BaseRelayerLibrary` (chained references, approval during a
   multicall); `ProtocolFeePercentagesProvider`; coordinators and the
   `TimelockAuthorizerMigrator`.
6. *Proofs.* Lemmas about ramps between endpoints; the refinements of 1 and 2.

<a id="disagreements"></a>
### Further disagreements and hazards

Met while modelling, of the contracts:

- the comments of `cancel` (`TimelockAuthorizer.sol:558`, `:571`) say the permission to
  cancel is the one used to schedule. For grants and revocations scheduling asks for
  the extended or general id, and cancelling for that of the plain function;
- claimRoot is said to empower the new root (`TimelockAuthorizer.sol:441`); a root
  that is its own pending root loses the powers (`:446`);
- the ProtocolFeesCollector is said to receive all fees
  (`ProtocolFeesCollector.sol:28-30`); those of joins and exits go to the fee forwarder
  (`Fees.sol:72-79`);
- a week in which nobody has votes cannot be claimed past in the FeeDistributor: the
  claim divides by its supply (`FeeDistributor.sol:334`).

Of deployment tasks and their records:

- a check compares what tasks deploy, never what they only save. A forced run of the
  Vault's or the batch relayer's task that ends before `task.save` leaves the previous
  collector or relayer on record, and the check passes, while `DEPLOYING.md` says
  the addresses found correspond exactly to a run of the task;
- a run that ends between saving an instance (`task.ts:120`) and its transaction's hash
  (`:124`) leaves a hash that no later run records: later runs skip the deployment, and
  the check fails until the next forced run. One that ends before the first of the two
  leaves a contract nobody knows of;
- a forced run leaves the contracts built on the one it replaced with the old address
  (`StaleOnlyByLaterDeployment` says no more than that can go wrong); those, and contracts
  whose build-info was edited, are never verified again;
- the verifier's retry is not one (`verifier.ts:62-66`): what it would wait for is not awaited;
  it takes the first build-info that has a contract of the name;
- an artifact whose ABI has become empty is not written, so that the old file stays and
  the check of artifacts fails right after they were extracted; recorded ids of
  functions that are gone are not compared; Pools that one account deployed directly
  share their ids;
- saving action ids asks for files and tasks that are not in the repository
  (`ignored-functions.json`, the authorizer adaptor's task);
- the deprecated Pools' inputs read the outputs of one network whatever they are run on.

Of the models of Pools and of signing:

- what a model caches (swap fee, amplification, weights, tokens) is not refreshed when a
  setting changes, so estimates go on with the old; after tokens of a managed Pool were
  added or removed, queries are answered about others. `EstimatesLineUp` and
  `AcceptedAsMeant` are about what was deployed, and about what passes the Vault;
- `joinGivenIn` of a stable Pool drops the BPT's amount from the caller's own list; with the
  same parameters twice it drops one too many, which the Pool refuses for its length.
  `joinGivenInRelayer` drops none;
- deploying a sorted list of tokens renames them, so that what is called WETH may be a
  plain test token;
- joins without sender and recipient mint BPT to the zero address;
- signing takes a nonce given as 0 as not given, and two signatures made without
  waiting share a nonce, so that using one voids the other.

Of tests: `sharedBeforeEach` is said to act as a beforeEach; an inner shared hook goes back
past what plain hooks before it have done, and the outermost starts from whatever the
chain holds. `ActsAsBeforeEach` is stated with both.
