SPECIFICATION OFairSpec
CONSTANTS
  GracePeriod = 0
  MaxOnBattery = 0
  CriticalCharge <- Absent
  CriticalRuntime = 0
  CommunicationLossGrace = 0
  RecoveryEnabled = TRUE
  UtilityStable = 1
  RecoveryChargeMin <- Absent
  RecoveryRuntimeMin = 0
  RecoveryRechargeTime = 1
  RecoveryNetworkWait = 0
  CheckpointInterval = 1
  MaxAge = 5
  Delays = {1}
  Samples <- RecoverySamples
  Order <- RecoveryOrder
  Config <- RecoveryConfig
  MaxDirect = 1
  MaxNUT = 1
  MaxBackoff = 2
  RemoteClient = FALSE
  PacketLag = 1
  ProbeResults <- RootProbe
  Exclusions <- NoneExcluded
INVARIANTS IntentBeforeEffect RecoveryAdvances
PROPERTIES RestorationComplete WakesSpaced RestorationEnds
