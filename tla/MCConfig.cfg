CONSTANTS
  Contents = {"a", "b","c"}
  Broken = {"c"}
  Installed = "a"
  MaxRev = 2
  Keep = 1
  MaxMishaps = 2
  MaxOutages = 1
SPECIFICATION FairSpec
INVARIANT RollbackTargetsIntact
INVARIANT KnownGoodWasProved
INVARIANT TransactionKeepsConfig
PROPERTY ReconciledStartIsKnownGood
PROPERTY LockIsReleased
PROPERTY AgentReturns
CHECK_DEADLOCK FALSE
