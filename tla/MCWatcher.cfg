\* One watcher process at a time, two output plans, two troubles: every way a run
\* can be cut short and taken up again.
SPECIFICATION Spec
CONSTANTS
  Artifacts = {a1}
  Plans = {p1, p2, pt}
  WatchPlans = {p1, p2}
  TuiPlan = pt
  Outputs = 2
  MaxTroubles = 2
  MaxOneShots = 0
  Watchers = {w1}
  Modes = {"poll", "once", "force"}
  MaxRetries = 2
  Budget = 1
  MaxWatchJobs = 2
  MaxDownloads = 0
  None = None
INVARIANTS WatcherTypeOK PublishedIsRecorded OneOpenJob NoStrandedJob AnnouncedIsRecorded
PROPERTIES StopsWhenTold
