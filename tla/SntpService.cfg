SPECIFICATION FairSpec
CONSTANTS
  Tasks = {t1, t2}
  QueueLength = 2
  MaxOthers = 2
INVARIANTS AnnouncedRuns ModeSetBeforeRunning
PROPERTY ColdStartShowsTime
