CONSTANTS
  Services <- MCServices
  Profiles <- MCProfiles
  Lists <- MCLists
  Placeholder <- MCPlaceholder
  Room = 1
  MaxEvents = 2
  MaxCommands = 1
  MaxTimeouts = 1
SPECIFICATION FairSpec
CHECK_DEADLOCK FALSE
INVARIANTS
  TypeOK
  Mirrors
PROPERTIES
  Recovers
