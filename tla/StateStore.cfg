SPECIFICATION StoreSpec
CONSTANTS
  MaxWrites = 5
  MaxCorruptions = 2
INVARIANT AlwaysLoadable
PROPERTY ImplementsRegister
