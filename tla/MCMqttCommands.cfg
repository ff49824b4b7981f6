CONSTANTS
  Entities = {e1, e2}
  Queue = 2
  EntityQueue = 2
  MaxCommands = 5
SPECIFICATION MqttFairSpec
CHECK_DEADLOCK FALSE
INVARIANTS
  QuietAfterStop
PROPERTIES
  ImplementsLanes
  Independent
