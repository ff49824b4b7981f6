CONSTANTS
  a1 = a1
  a2 = a2
  e1 = e1
  e2 = e2
  Scopes <- RestartScopes
  Entities <- MCEntities
  Declares <- RestartDeclares
  Data = {1, 2}
  Tasks = {t1, t2}
  Callers = {c1}
SPECIFICATION FairSpec
CHECK_DEADLOCK FALSE
INVARIANTS
  NoOrphans
  LifecycleOrder
  ViewFollowsRegistry
  CloseResultTells
PROPERTIES
  CommandsReachOwner
  FailureEndsSiblings
  ImplementsFeed
