CONSTANTS
  Publishers = {p1, p2}
  Subs = {s1}
  Buffer = 1
  MaxEvents = 2
SPECIFICATION FairSpec
CHECK_DEADLOCK FALSE
INVARIANTS
  NothingLost
  NoLostWakeup
PROPERTIES
  ImplementsMailbox
  PublishReturns
  StreamEnds
  Delivered
