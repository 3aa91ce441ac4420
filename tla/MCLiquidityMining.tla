---------------------------- MODULE MCLiquidityMining ----------------------------
(***************************************************************************)
(* The contracts of liquidity mining, which share nothing but the time: a  *)
(* behavior is of one of them, and the others stay as they start.          *)
(***************************************************************************)
EXTENDS FeeDistributor, DistributionScheduler

VARIABLE component
miningVars == <<component, feeVars, rewardVars>>

\* One whose votes last through all of it, and one whose lock has just ended.
MCFirstPoints == [alice |-> <<[bias |-> 2, slope |-> 1, ts |-> 1]>>,
                  holder |-> <<[bias |-> 29, slope |-> 1, ts |-> 1]>>]

\* A gauge with two reward tokens.
MCRewardLists == {<<"gauge", "BAL">>, <<"gauge", "DAI">>}

MCInit ==
  /\ component \in {"fees", "rewards"}
  /\ FeeInit /\ RewardsInit
  /\ component # "fees" => startTime = Week

MCNext ==
  /\ UNCHANGED component
  /\ \/ /\ component = "fees" /\ FeeNext
        /\ UNCHANGED <<rewardsLists, isDistributor, held, received, scheduledTimes>>
     \/ /\ component = "rewards" /\ RewardsNext
        /\ UNCHANGED <<points, startTime, supply, userState, tokenState, userTokenTimeCursor,
                       balanceOf, claimed, gifts>>

MCSpec == MCInit /\ [][MCNext]_miningVars

=============================================================================
