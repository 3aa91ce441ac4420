-------------------------- MODULE DistributionScheduler --------------------------
(***************************************************************************)
(* The DistributionScheduler: rewards of gauges for weeks to come, which   *)
(* anyone may add and anyone may start.  For each gauge and token they are *)
(* a linked list in the order of time, of nodes stored by the timestamp of *)
(* their week; a node is never erased, and is used again when its week is. *)
(***************************************************************************)
EXTENDS WeekClock, FiniteSets, Functions

CONSTANTS RewardLists,    \* the pairs of a gauge and one of its reward tokens
          RewardAmounts,  \* amounts of rewards
          MaxAhead,       \* 365 days in the code
          MaxScheduled    \* bound

ASSUME RewardsAssumption == RewardAmounts \subseteq Nat /\ MaxAhead \in Nat

VARIABLES rewardsLists,   \* nodes by list and timestamp
          isDistributor,  \* of the gauge's token: who may deposit rewards
          held,           \* the scheduler's tokens
          received,       \* by a gauge, of a token (no step reads it)
          scheduledTimes  \* how often rewards were scheduled

rewardVars == <<clock, rewardsLists, isDistributor, held, received, scheduledTimes>>

HEAD == 0  \* a node without a value, before the first
NULL == 0  \* what the last points to
EmptyNode == [amount |-> 0, nextTimestamp |-> NULL]

tokenOf(list) == list[2]
RewardTokens == {tokenOf(list) : list \in RewardLists}

-----------------------------------------------------------------------------
\* The nodes up to a time: what they add up to, and the key of the first after them.
pendingStep(nodes, targetKey, at) ==
  IF targetKey >= at.key /\ at.key # NULL
  THEN [key |-> nodes[at.key].nextTimestamp, amount |-> at.amount + nodes[at.key].amount]
  ELSE at
pendingSteps(nodes, targetKey) ==
  LET walk[i \in 0..Cardinality(Weeks)] ==
        IF i = 0 THEN [key |-> nodes[HEAD].nextTimestamp, amount |-> 0]
        ELSE pendingStep(nodes, targetKey, walk[i - 1])
  IN  walk
getPendingRewards(nodes, targetKey) == pendingSteps(nodes, targetKey)[Cardinality(Weeks)]

\* The neighbours between which a node belongs.
searchStep(nodes, insertedKey, at) ==
  IF insertedKey > at.next /\ at.next # NULL
  THEN [current |-> at.next, next |-> nodes[at.next].nextTimestamp]
  ELSE at
searchSteps(nodes, insertedKey) ==
  LET walk[i \in 0..Cardinality(Weeks)] ==
        IF i = 0 THEN [current |-> HEAD, next |-> nodes[HEAD].nextTimestamp]
        ELSE searchStep(nodes, insertedKey, walk[i - 1])
  IN  walk
neighbours(nodes, insertedKey) == searchSteps(nodes, insertedKey)[Cardinality(Weeks)]

\* Mutant: whatever is stored for the week is added to, in the list or not.
insertReward_Stored(nodes, insertedKey, amount) ==
  LET at == neighbours(nodes, insertedKey)
      new == [amount |-> nodes[insertedKey].amount + amount, nextTimestamp |-> at.next]
  IN  IF at.next = insertedKey THEN [nodes EXCEPT ![insertedKey].amount = @ + amount]
      ELSE [nodes EXCEPT ![at.current].nextTimestamp = insertedKey, ![insertedKey] = new]
\* At the end, or between two nodes, there is a new one; a week that has one is added to.
insertReward(nodes, insertedKey, amount) ==
  LET at == neighbours(nodes, insertedKey)
      new == [amount |-> amount, nextTimestamp |-> at.next]
  IN  IF at.next = insertedKey THEN [nodes EXCEPT ![insertedKey].amount = @ + amount]
      ELSE [nodes EXCEPT ![at.current].nextTimestamp = insertedKey, ![insertedKey] = new]

-----------------------------------------------------------------------------
RewardsInit ==
  /\ ClockInit
  /\ rewardsLists = [list \in RewardLists |-> [w \in Weeks |-> EmptyNode]]
  /\ isDistributor = [list \in RewardLists |-> TRUE]
  /\ held = [token \in RewardTokens |-> 0]
  /\ received = [list \in RewardLists |-> 0]
  /\ scheduledTimes = 0

scheduleDistribution(list, amount, time) ==
  /\ scheduledTimes < MaxScheduled /\ scheduledTimes' = scheduledTimes + 1
  /\ amount > 0
  /\ isDistributor[list]
  /\ time >= clock /\ time = roundDownTimestamp(time) /\ time - clock <= MaxAhead
  /\ held' = [held EXCEPT ![tokenOf(list)] = @ + amount]
  /\ rewardsLists' = [rewardsLists EXCEPT ![list] = insertReward(@, time, amount)]
  /\ UNCHANGED <<clock, isDistributor, received>>

\* The gauge takes rewards from the distributor of the token alone.
startAll(lists) ==
  LET started == [list \in RewardLists |-> getPendingRewards(rewardsLists[list], clock)]
      paid == [list \in RewardLists |-> IF list \in lists THEN started[list].amount ELSE 0]
  IN  /\ rewardsLists' =
           [list \in RewardLists |->
              IF list \in lists THEN [rewardsLists[list] EXCEPT ![HEAD].nextTimestamp = started[list].key]
              ELSE rewardsLists[list]]
      /\ held' = [token \in RewardTokens |->
           held[token] - SumFunction([list \in {l \in RewardLists : tokenOf(l) = token} |-> paid[list]])]
      /\ received' = [list \in RewardLists |-> received[list] + paid[list]]
      /\ UNCHANGED <<clock, isDistributor, scheduledTimes>>

startDistributionForToken(list) == isDistributor[list] /\ startAll({list})

\* Tokens of the gauge with another distributor are passed over.
startDistributions(gauge) ==
  startAll({list \in RewardLists : list[1] = gauge /\ isDistributor[list]})

\* The gauge's set_reward_distributor, called by whom it may: the scheduler becomes the
\* one that may deposit the token, or is no longer.
setRewardDistributor(list) ==
  /\ isDistributor' = [isDistributor EXCEPT ![list] = ~@]
  /\ UNCHANGED <<clock, rewardsLists, held, received, scheduledTimes>>

RewardTick ==
  /\ TimePasses
  /\ UNCHANGED <<rewardsLists, isDistributor, held, received, scheduledTimes>>

RewardsNext ==
  \/ \E list \in RewardLists :
       \/ \E amount \in RewardAmounts, time \in Weeks : scheduleDistribution(list, amount, time)
       \/ startDistributionForToken(list)
       \/ startDistributions(list[1])
       \/ setRewardDistributor(list)
  \/ RewardTick

RewardsSpec == RewardsInit /\ [][RewardsNext]_rewardVars

-----------------------------------------------------------------------------
\* What a list says is due by week: the nodes that can be reached from its head.
nextKey(nodes, key) == IF key = NULL THEN NULL ELSE nodes[key].nextTimestamp
keysInOrder(nodes) ==
  LET walk[i \in 0..Cardinality(Weeks)] ==
        IF i = 0 THEN nodes[HEAD].nextTimestamp ELSE nextKey(nodes, walk[i - 1])
  IN  walk
reachable(nodes) ==
  LET walk == keysInOrder(nodes) IN {walk[i] : i \in 0..Cardinality(Weeks)} \ {NULL}
DueOf(nodes) ==
  LET keys == reachable(nodes)
  IN  [w \in Weeks |-> IF w \in keys THEN nodes[w].amount ELSE 0]

Promise == INSTANCE RewardSchedule WITH due <- [list \in RewardLists |-> DueOf(rewardsLists[list])]

\* What is promised stays as it is while the lists and the tokens do.
RewardsStay == UNCHANGED <<rewardsLists, held, received>>

\* The lists implement what is promised to those who fund rewards: whatever was scheduled
\* in whatever order, before and after weeks were started, each amount is paid once, to
\* its gauge, when it is due and not before, and is held until then.
SchedulerImplements ==
  /\ Promise!ScheduleInit
  /\ [][RewardsStay \/ Promise!ScheduleNext]_rewardVars

=============================================================================
