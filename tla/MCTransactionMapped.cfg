CONSTANTS
  Contents = {"a", "b", "c"}
  Broken = {"c"}
  Installed = "a"
  MaxRev = 2
  Keep = 1
  MaxMishaps = 1
  MaxOutages = 1
SPECIFICATION FairSpec
PROPERTY TransactionMapped
CHECK_DEADLOCK FALSE
