SPECIFICATION Spec
CONSTANTS
  Setups <- MCSetups
  Short <- MCShort
  MaxActs = 3
  Installs <- MCInstalls
  Friendly <- MCFriendly
  Fold <- MCFold
  Content <- MCContent
  ConfigPath <- MCConfigPath
  MaxFaults = 2
  MaxMoves = 3
  Actions <- MCActions
  Listings <- MCListings
  Foreign <- MCForeign
  Prints <- MCPrints
  Reading <- MCReading
  Written <- MCWritten
  Upper <- MCUpper
  Unescaped <- MCUnescaped
  Slug <- MCSlug
  NameRank <- MCNameRank
  WordRank <- MCWordRank
  MaxNumber = 6
  Numeral <- MCNumeral
  Systems = {"linux", "windows", "darwin"}
  Files <- MCFiles
CHECK_DEADLOCK FALSE
INVARIANTS
  TypeOK
  Selectable
  AcceptedRuns
PROPERTIES
  CommandReturns
  StateSettles
  ChoicesWork
  OnlyDeclared
