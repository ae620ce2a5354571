SPECIFICATION FairSpec
CONSTANTS
  j1 = j1
  j2 = j2
  w1 = w1
  w2 = w2
  Jobs <- MCJobs
  Workers <- MCWorkers
  Lectures <- MCLectures
  Slots = 1
  MaxFaults = 1
  Absent = absent
INVARIANTS
  TypeOK
  FeedTruthful
  CompletedIsComplete
  OrphansExplained
  FailsForCause
PROPERTIES
  JobsLeave
  KeepsRegistry
CHECK_DEADLOCK FALSE
