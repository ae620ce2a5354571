SPECIFICATION FairSpec
CONSTANTS
  mutator = mutator
  flusher = flusher
  Publishers <- MCPublishers
  Flushers <- MCFlushers
  Data <- MCData
  NoData = "jobs"
  MaxRevision = 2
  MaxFaults = 1
INVARIANTS
  TypeOK
  FlushAckDurable
  NothingForgotten
  CloseFlushes
PROPERTIES
  FlushReturns
