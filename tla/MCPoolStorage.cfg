SPECIFICATION StorageSpec
CONSTANTS
  Tokens = {1, 2, 3}
  NoToken = 0
  Specializations = {"GENERAL", "MINIMAL_SWAP_INFO", "TWO_TOKEN"}
  Lists <- NoRepeatsInPairs
  Amounts = {0, 1}
  TotalCap = 2
  MaxBlock = 2
INVARIANTS
  StorageTypeOK
  CollectionsConsistent
  ReadsCurrent
  SwapsReadTheLedger
  NonZeroIsRegistered
PROPERTY
  ImplementsLedger
