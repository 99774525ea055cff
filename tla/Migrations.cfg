SPECIFICATION FairSpec
CONSTANTS
  orchestrator = orchestrator
  math = math
  MigrateAgents <- TwoAgents
  Jobs = {j1, j2}
  Operators = {o1}
  Readers = {reader}
  ManualTargets = {3}
  BackoffLimit = 2
  MaxCrashes = 1
  MaxManual = 1
INVARIANTS
  TypeOK
  SchemaMatchesVersion
  ReadersCovered
  DoneMeansLatest
PROPERTIES
  CoverageIsKept
  AllMigrated
