CONSTANTS
  Items = {lock, dim}
  MaxEvents = 3
  MaxCommands = 3
SPECIFICATION FairSpec
CHECK_DEADLOCK FALSE
PROPERTIES
  OnMeansInhibited
