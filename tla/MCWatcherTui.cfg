\* Two watcher processes, the TUI and a one-shot download on a lecture, one trouble.
SPECIFICATION Spec
CONSTANTS
  Artifacts = {a1}
  Plans = {p1, pt}
  WatchPlans = {p1}
  TuiPlan = pt
  Outputs = 1
  MaxTroubles = 1
  MaxOneShots = 1
  Watchers = {w1, w2}
  Modes = {"once"}
  MaxRetries = 1
  Budget = 1
  MaxWatchJobs = 1
  MaxDownloads = 1
  None = None
PROPERTIES ClaimsOnlyOrphans ImplementsLedger
SYMMETRY Symmetry
