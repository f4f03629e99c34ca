CONSTANTS
  Runs = {r1}
  Workers = {w1, w2}
  Actions = {}
  None = None
  MaxJobs = 1
  MaxAttempts = 2
  MaxStalls = 2
  MaxCrashes = 0
  MaxFaults = 0
SPECIFICATION Spec
CHECK_DEADLOCK FALSE
INVARIANTS AttemptsWithinBudget
