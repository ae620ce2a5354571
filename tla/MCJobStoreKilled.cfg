SPECIFICATION StoreSpec
CONSTANTS
  main = main
  client = client
  i1 = i1
  i2 = i2
  Main = main
  Publishers <- MCPublishers
  Flushers = {}
  JobIds <- MCJobIds
  Keys = {k}
  NoKey = nokey
  Absent = absent
  NoJob = nojob
  Data <- MCData
  NoData <- MCNoData
  MaxRetained = 1
  MaxRevision = 3
  MaxFaults = 0
  MaxCrashes = 2
  CrashKinds = {"kill", "power"}
SYMMETRY MCSymmetry
PROPERTIES
  OutcomesRestored
CHECK_DEADLOCK FALSE
