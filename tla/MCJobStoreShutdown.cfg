SPECIFICATION FairStoreSpec
CONSTANTS
  main = main
  client = client
  i1 = i1
  i2 = i2
  Main = main
  Publishers <- MCPublishers
  Flushers = {}
  JobIds <- MCOneJobId
  Keys = {}
  NoKey = nokey
  Absent = absent
  NoJob = nojob
  Data <- MCData
  NoData <- MCNoData
  MaxRetained = 1
  MaxRevision = 3
  MaxFaults = 2
  MaxCrashes = 1
  CrashKinds = {"kill"}
INVARIANTS
  PromisesKept
  CanceledOnlyIfOver
  NoneRefused
  ClosedComplete
PROPERTIES
  OperationsEnd
CHECK_DEADLOCK FALSE
