CONSTANTS
  Week = 3
  Day = 2
  MaxClock = 9
  Users = {"alice", "holder"}
  FeeTokens = {"BAL"}
  MaxWeeks = 2
  MaxSteps = 3
  MaxEpochs = 1
  FirstPoints <- MCFirstPoints
  Slopes = {1}
  LockEnds = {6, 9}
  Gifts = {12}
  MaxPoints = 4
  MaxGifts = 1
  RewardLists <- MCRewardLists
  RewardAmounts = {1, 2}
  MaxAhead = 6
  MaxScheduled = 3
SPECIFICATION MCSpec
INVARIANTS
  ClaimsExact
  AssignedIsCovered
PROPERTIES
  SchedulerImplements
CHECK_DEADLOCK FALSE
