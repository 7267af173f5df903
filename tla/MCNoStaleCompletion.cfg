SPECIFICATION OSpec
CONSTANTS
  GracePeriod = 0
  MaxOnBattery = 0
  CriticalCharge <- Absent
  CriticalRuntime = 0
  CommunicationLossGrace = 0
  RecoveryEnabled = TRUE
  UtilityStable = 1
  RecoveryChargeMin <- Absent
  RecoveryRuntimeMin = 0
  RecoveryRechargeTime = 1
  RecoveryNetworkWait = 0
  CheckpointInterval = 1
  MaxAge = 1
  Delays = {1}
  Samples <- MCSamples
  Order <- DirectOrder
  Config <- DirectConfig
  MaxDirect = 2
  MaxNUT = 2
  MaxBackoff = 2
  RemoteClient = FALSE
  PacketLag = 0
  ProbeResults <- FirstProbe
  Exclusions <- NoneExcluded
PROPERTY NoStaleCompletion
