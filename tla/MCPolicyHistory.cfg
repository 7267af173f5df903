SPECIFICATION HFairSpec
CONSTANTS
  GracePeriod = 2
  MaxOnBattery = 4
  CriticalCharge <- Absent
  CriticalRuntime = 1
  CommunicationLossGrace = 3
  RecoveryEnabled = TRUE
  UtilityStable = 2
  RecoveryChargeMin = 2
  RecoveryRuntimeMin = 2
  RecoveryRechargeTime = 3
  RecoveryNetworkWait = 1
  CheckpointInterval = 2
  MaxAge = 5
  Delays = {1, 2}
  Samples <- MCSamples
INVARIANTS GenerationConsistent MemoryIsDurable OutageCheckpointed CommunicationLossBounded
PROPERTIES CommitNeverErased StableBeforeRecovery GraceBeforeTimedCommit CancelNeedsTwoOnline CommunicationLossGraceKept OutageEndsInCommit RecoveryReached
