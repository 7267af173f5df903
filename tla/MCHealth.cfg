SPECIFICATION FairSpec
CONSTANTS
  N = 3
  Critical = {1, 3}
  Repairable = {1, 2}
  MaxRepairAttempts = 2
  BaseBackoff = 3
  MaxBackoff = 4
  MaxAge = 4
  Period = 2
  RunTime = 1
  ClockSteps = {1}
  OffTimes = {5}
  MaxFaults = 1
INVARIANTS GateNeedsFreshEvidence RepairsBounded
PROPERTIES RepairsSpaced GateOpensForGood GivenUpForGood
