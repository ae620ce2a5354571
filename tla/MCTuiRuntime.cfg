SPECIFICATION Spec
CONSTANTS
  MaxPosts = 3
  MaxOperations = 2
  Kinds = {"selftest", "download", "playback"}
  Steps = 1
  MaxMoves = 1
  MaxStreams = 2
  Deleters = {"d1"}
  QueueDepth = 1
  MaxCommands = 3
  MaxPending = 2
  MaxEnds = 2
  Segments = {"g1", "g2"}
  MaxLectures = 2
  MaxStarts = 2
  MaxInputs = 3
  MaxCourses = 2
  MaxRetriers = 3
INVARIANT SessionSafe
PROPERTY SessionAnswers
CHECK_DEADLOCK FALSE
