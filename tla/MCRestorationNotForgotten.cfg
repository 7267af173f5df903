SPECIFICATION OSpec
CONSTANTS
  GracePeriod = 0
  MaxOnBattery = 0
  CriticalCharge <- Absent
  CriticalRuntime = 0
  CommunicationLossGrace = 0
  RecoveryEnabled = TRUE
  UtilityStable = 1
  RecoveryChargeMin <- Absent
  RecoveryRuntimeMin = 0
  RecoveryRechargeTime = 1
  RecoveryNetworkWait = 0
  CheckpointInterval = 1
  MaxAge = 2
  Delays = {1}
  Samples <- RecoverySamples
  Order <- PairOrder
  Config <- PairConfig
  MaxDirect = 1
  MaxNUT = 1
  MaxBackoff = 1
  RemoteClient = FALSE
  PacketLag = 0
  ProbeResults <- AllProbe
  Exclusions <- NoneExcluded
PROPERTY RestorationNotForgotten
