\* What README.md says of recovered artifacts, with a crash and one output.
SPECIFICATION Spec
CONSTANTS
  Artifacts = {a1}
  Plans = {p1, p2, pt}
  WatchPlans = {p1, p2}
  TuiPlan = pt
  Outputs = 1
  MaxTroubles = 1
  MaxOneShots = 0
  Watchers = {w1}
  Modes = {"poll", "once", "force"}
  MaxRetries = 1
  Budget = 1
  MaxWatchJobs = 2
  MaxDownloads = 0
  None = None
INVARIANTS RecoveredAnnounced
