CONSTANTS
  c1 = c1
  c2 = c2
  bad = bad
  Configs <- MCConfigs
  Bad = bad
  Plugins = {1, 2}
  Enabled <- MCEnabled
  Transports = {1, 2}
  MaxWrites = 2
SPECIFICATION FairSpec
CHECK_DEADLOCK FALSE
INVARIANTS
  TypeOK
  RollbackRestores
  OneGeneration
  TransportsFirst
PROPERTIES
  AppliesLastConfig
  RunReturns
