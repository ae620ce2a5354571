SPECIFICATION StoreSpec
CONSTANTS
  main = main
  client = client
  i1 = i1
  i2 = i2
  Main = main
  Publishers <- MCPublishers
  Flushers = {}
  JobIds <- MCJobIds
  Keys = {k}
  NoKey = nokey
  Absent = absent
  NoJob = nojob
  Data <- MCData
  NoData <- MCNoData
  MaxRetained = 1
  MaxRevision = 3
  MaxFaults = 1
  MaxCrashes = 1
  CrashKinds = {"power"}
SYMMETRY MCSymmetry
INVARIANTS
  StoreTypeOK
  PromisesKept
  KeyIndexExact
PROPERTIES
  ImplementsJobRegistry
CHECK_DEADLOCK FALSE
