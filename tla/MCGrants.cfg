CONSTANTS
  Runs = {r1}
  Workers = {w1, w2}
  Actions = {a1, a2}
  None = None
  MaxJobs = 2
  MaxAttempts = 2
  MaxStalls = 1
  MaxCrashes = 0
  MaxFaults = 0
SPECIFICATION Spec
CHECK_DEADLOCK FALSE
SYMMETRY Symmetry
INVARIANTS GrantedWereApproved
