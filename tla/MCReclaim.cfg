CONSTANTS
  Runs = {r1}
  Workers = {w1, w2}
  Actions = {}
  None = None
  MaxJobs = 1
  MaxAttempts = 2
  MaxStalls = 0
  MaxCrashes = 1
  MaxFaults = 0
SPECIFICATION FairSpec
CHECK_DEADLOCK FALSE
PROPERTIES OrphanReclaimed
