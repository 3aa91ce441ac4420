------------------------------ MODULE VaultStorage ------------------------------
(***************************************************************************)
(* The state the Vault's contracts share, and the modifiers every entry    *)
(* point is written with: nonReentrant, whenNotPaused and authenticateFor. *)
(*                                                                         *)
(* A call that hands control to another contract (a Pool hook, a flash     *)
(* loan receiver, a token) is several steps here: the step that makes the  *)
(* external call leaves the call's local variables in `frame', the world   *)
(* then does what it likes, and a later step returns from the call.  frame *)
(* is not idle exactly while ReentrancyGuard's _status is _ENTERED.  The   *)
(* EVM undoes a call that reverts: `saved' is the state Revert restores.   *)
(***************************************************************************)
EXTENDS BalanceAllocation, FiniteSets, Functions

CONSTANTS
  Pools,            \* Pool ids
  Specialization,   \* [Pools -> specialization], part of the Pool id
  Tokens,           \* ERC20 tokens, WETH among them
  WETH,
  ETH,              \* the zero address: the sentinel for native ETH
  Users,            \* accounts with Internal Balance, and calls' recipients
  Relayers,         \* other contracts that call on behalf of users
  Managers,         \* Asset Managers
  NoManager,        \* the zero address, as an Asset Manager
  PauseWindowEnd,   \* TemporarilyPausable's two immutable times
  BufferPeriodEnd,
  FeeDenominator,   \* FixedPoint.ONE
  MaxFlashLoanFee,  \* _MAX_PROTOCOL_FLASH_LOAN_FEE_PERCENTAGE
  InitialTokens,    \* tokens in existence, of each kind
  InitialEth,
  \* The inputs a run explores, and its bounds.
  EntryPoints,      \* the external functions called
  Amounts,          \* amounts given by callers, hooks and the world
  Limits,           \* the user's limits on amounts
  InputAssets,      \* the assets calls name
  MsgValues,        \* ETH sent along with a call
  InternalFlags,    \* the values of the useInternalBalance flags
  MaxSteps,         \* steps of a batch of swaps or operations
  MaxBlock          \* the last block

VARIABLES
  registeredPools,  \* _isPoolRegistered
  poolTokens,       \* the tokens of each Pool, in any of the three layouts
  balances,         \* the Balance of each token of each Pool
  assetManager,     \* _poolAssetManagers
  internal,         \* _internalTokenBalance
  approvedRelayers, \* _approvedRelayers
  paused,           \* TemporarilyPausable's _paused
  flashLoanFee,     \* ProtocolFeesCollector's _flashLoanFeePercentage
  discounted,       \* ProtocolFeesCollector's _flashLoanFeeDiscountedAddresses
  relayerRoles,     \* callers the Authorizer lets perform the Vault's actions
  signatures,       \* <<user, caller>>: an unused signature of the user's
  held,             \* ERC20 balances of the Vault,
  collected,        \*   of the ProtocolFeesCollector,
  forwarder,        \*   of the fee forwarder,
  outside,          \*   and of everybody else
  ethHeld,          \* native balance of the Vault,
  ethOutside,       \*   and of everybody but the Vault and the WETH contract
  donated,          \* history: tokens sent to the Vault outside of its calls
  ethForced,        \* history: ETH forced into the Vault (self-destruct)
  clock,            \* block.number, and block.timestamp on the same scale
  frame,            \* the call in progress, with its local variables
  saved             \* what a revert of that call restores

poolVars   == <<registeredPools, poolTokens, assetManager>>
accessVars == <<approvedRelayers, signatures, relayerRoles>>
pauseVars  == <<paused, clock>>
feeVars    == <<flashLoanFee, discounted>>
tokenVars  == <<held, collected, forwarder, outside>>
ethVars    == <<ethHeld, ethOutside>>
ghostVars  == <<donated, ethForced>>
callVars   == <<frame, saved>>
vars == <<poolVars, balances, internal, accessVars, pauseVars, feeVars,
          tokenVars, ethVars, ghostVars, callVars>>

Assets  == Tokens \union {ETH}
Callers == Users \union Relayers \union Managers

\* AssetHelpers._translateToIERC20
translate(asset) == IF asset = ETH THEN WETH ELSE asset

\* f gives members of S to some of the tokens.
OfTokens(f, S) == DOMAIN f \subseteq Tokens /\ f \in [DOMAIN f -> S]

Smaller(a, b) == IF a <= b THEN a ELSE b
-----------------------------------------------------------------------------
Idle == [kind |-> "idle"]
NothingSaved == [kind |-> "none"]

\* The state a call can change before it reverts.
Snapshot ==
  [balances |-> balances, internal |-> internal, signatures |-> signatures,
   held |-> held, collected |-> collected, forwarder |-> forwarder,
   outside |-> outside, ethHeld |-> ethHeld, ethOutside |-> ethOutside,
   donated |-> donated, ethForced |-> ethForced, flashLoanFee |-> flashLoanFee,
   discounted |-> discounted, relayerRoles |-> relayerRoles]

\* ReentrancyGuard: a second nonReentrant call reverts while one is running.
NotEntered_Unlocked == TRUE
NotEntered == frame = Idle

\* The lock as seen by the functions that finish before anyone else can act.
MayCall(entryPoint) == entryPoint \in EntryPoints /\ NotEntered

\* The same, for one that leaves a frame: the snapshot is of the state before
\* the call, in which the ETH sent along still belongs to the caller.
Enter(entryPoint, newFrame) ==
  /\ MayCall(entryPoint)
  /\ frame' = newFrame
  /\ saved' = Snapshot

Leave == frame' = Idle /\ saved' = NothingSaved

\* TemporarilyPausable._isNotPaused: the Buffer Period over, pauses expire.
NotPaused_NeverExpires == ~paused
NotPaused == clock > BufferPeriodEnd \/ ~paused

\* VaultAuthorization._authenticateFor: the user, or a caller that both the
\* Authorizer and the user allow; the user by approval or by a signature, which
\* is used up with every other one of the user's (the nonce they hold advances).
authenticateFor_AnyRelayer(caller, user) ==
  /\ caller # user => caller \in relayerRoles
  /\ UNCHANGED signatures
authenticateFor(caller, user) ==
  IF caller = user \/ (caller \in relayerRoles /\ caller \in approvedRelayers[user])
    THEN UNCHANGED signatures
    ELSE /\ caller \in relayerRoles
         /\ <<user, caller>> \in signatures
         /\ signatures' = {s \in signatures : s[1] # user}
=============================================================================
