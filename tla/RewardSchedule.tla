----------------------------- MODULE RewardSchedule -----------------------------
(***************************************************************************)
(* What the DistributionScheduler promises those who fund rewards of a     *)
(* gauge: an amount for a week is kept for the gauge and the token it is   *)
(* for, and paid to the gauge, once, by the first start at or after the    *)
(* beginning of the week, together with whatever else is due then.         *)
(***************************************************************************)
EXTENDS WeekClock, Functions

CONSTANTS RewardLists,    \* the pairs of a gauge and one of its reward tokens
          RewardAmounts,
          MaxAhead        \* how long ahead rewards are scheduled

VARIABLES due,       \* amounts by list and week
          held,      \* the tokens kept
          received   \* by a gauge, of a token

scheduleVars == <<received, held, due>>

tokenOf(list) == list[2]
RewardsOf(token) == {list \in RewardLists : tokenOf(list) = token}
RewardTokens == {tokenOf(list) : list \in RewardLists}

ScheduleInit ==
  /\ due = [list \in RewardLists |-> [w \in Weeks |-> 0]]
  /\ held = [token \in RewardTokens |-> 0]
  /\ received = [list \in RewardLists |-> 0]

Schedule(list, amount, week) ==
  /\ clock <= week /\ week <= clock + MaxAhead
  /\ UNCHANGED received
  /\ held' = [held EXCEPT ![tokenOf(list)] = @ + amount]
  /\ due' = [due EXCEPT ![list][week] = @ + amount]

payable(list) == SumFunction([w \in {v \in Weeks : v <= clock} |-> due[list][w]])
Start(lists) ==
  LET paid == [list \in RewardLists |-> IF list \in lists THEN payable(list) ELSE 0]
  IN  /\ received' = [list \in RewardLists |-> received[list] + paid[list]]
      /\ held' = [token \in RewardTokens |->
                    held[token] - SumFunction([list \in RewardsOf(token) |-> paid[list]])]
      /\ due' = [list \in RewardLists |-> [w \in Weeks |->
                   IF list \in lists /\ w <= clock THEN 0 ELSE due[list][w]]]

\* Time passes, and gauges change their distributors, without the rewards.
RewardsWait == UNCHANGED scheduleVars

ScheduleNext ==
  \/ RewardsWait
  \/ \E list \in RewardLists, amount \in RewardAmounts, week \in Weeks : Schedule(list, amount, week)
  \/ \E lists \in SUBSET RewardLists : Start(lists)

ScheduleSpec == ScheduleInit /\ [][ScheduleNext]_scheduleVars

=============================================================================
