SPECIFICATION FairSpec
CONSTANTS
  Interval = 30
  MaxSilence = 20
  PowerInterval = 5
  NUTTimeout = 5
  ProbeTimeout = 2
  ProbeInterval = 5
  CommandTimeout = 12
  ProgressInterval = 5
  RestartSec = 10
INVARIANT StalledLoopIsBounded
PROPERTIES WorkingLoopIsNotKilled StalledLoopIsReplaced
