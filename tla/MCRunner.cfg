CONSTANTS
  Order <- MCOrder
  Values <- MCValues
  Lists <- MCLists
  Static <- MCStatic
  Switches = {"hdr"}
  Discovers = {"aux", "dock", "mode"}
  Getters = {"mode", "hdr"}
  OptionTicks = {"mode"}
  StateTicks = {"mode"}
  Optional = {"aux"}
  Refreshes <- MCRefreshes
  AfterRefresh = {"hdr", "mode"}
  MaxEvents = 1
  MaxCommands = 1
SPECIFICATION MCSpec
CHECK_DEADLOCK FALSE
INVARIANTS
  TypeOK
  RefreshRepairs
PROPERTIES
  TickersSettle
