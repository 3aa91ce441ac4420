SPECIFICATION StorageSpec
CONSTANTS
  Tokens = {1, 2, 3}
  NoToken = 0
  Specializations = {"TWO_TOKEN"}
  Lists <- Anything
  Amounts = {0, 1}
  TotalCap = 2
  MaxBlock = 2
INVARIANT
  NonZeroIsRegistered
