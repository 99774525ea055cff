\* Pods started with some 470 environments; one thread beside the main one
\* calls engine(), one build may raise, one secret is rotated twice.
CONSTANTS
  Main = main
  Callers = {main, worker}
  Nobody = nobody
  MaxFailures = 1
  Readers = {r1, r2}
  ShortNames = {"token"}
  FullNames = {}
  MaxVersion = 3
  Environments <- AllEnvironments
SPECIFICATION FairSpec
\* A pod that stopped, or could not come up, has nothing left to do.
CHECK_DEADLOCK FALSE
INVARIANTS
  ServesIffConfigured
  LatestModels
  PeersAsConfigured
  SchemaPerAgent
  StoresShareEngine
  SurfacesShare
  OnePool
  ReturnsAnEngine
  ConnectorsAccounted
  RefreshIsFresh
  FetchedOnce
PROPERTIES
  EveryCallReturns
