SPECIFICATION Spec
CONSTANTS
  FirstChunks = 2
  SecondChunks = 1
  MaxCrew = 2
  MaxDecrypters = 1
  MaxTries = 2
  Budget = 2
  ChunkSizes = {1, 3}
  MaxInvocations = 2
  Asked <- AskedJobs
  PlaylistSlots = 1
  TrackedChunks = 2
  TrackedSizes = {1, 3}
  SpeedWindow = 2
  MaxTicks = 3
  MaxLibraryCalls = 2
  MaxMediaChanges = 2
  MediaBytes = {1, 2}
  CommandLines <- Lines
  MaxCliTroubles = 2

PROPERTY CancellationReturns
CHECK_DEADLOCK FALSE
