CONSTANTS
  r1 = r1
  r2 = r2
  t1 = t1
  t2 = t2
  d1 = d1
  d2 = d2
  d3 = d3
  None = None
  MaxDelivered = 3
  Replicas = {r1, r2}
  DeltaIds = {d1, d2, d3}
  Threads = {t1, t2}
  HomeOf <- MCHome
  MaxClears <- MCClears
  Author <- MCAuthor
SPECIFICATION FairSpec
INVARIANTS
  DependenciesHappenBefore
  DeliveredOnce
  NothingReadyWaits
PROPERTIES
  ImplementsCausalBroadcast
  ReceiveEnds
CHECK_DEADLOCK FALSE
