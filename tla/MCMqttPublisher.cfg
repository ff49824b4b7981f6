CONSTANTS
  Entities = {"e1"}
  Data = {d1, d2}
  States = {"s1"}
  MaxConnects = 2
  MaxCalls = 2
SPECIFICATION Spec
CHECK_DEADLOCK FALSE
SYMMETRY Symmetry
INVARIANTS
  TypeOK
  NoBlindSpot
  BrokerMirrors
