CONSTANTS
  Runs = {r1}
  Workers = {w1}
  Actions = {a1}
  None = None
  MaxJobs = 2
  MaxAttempts = 2
  MaxStalls = 0
  MaxCrashes = 0
  MaxFaults = 0
SPECIFICATION Spec
CHECK_DEADLOCK FALSE
PROPERTIES InterruptAnswered
