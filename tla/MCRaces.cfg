CONSTANTS
  Runs = {r1}
  Workers = {w1, w2}
  Actions = {}
  None = None
  MaxJobs = 1
  MaxAttempts = 2
  MaxStalls = 1
  MaxCrashes = 1
  MaxFaults = 1
SPECIFICATION Spec
SYMMETRY Symmetry
CHECK_DEADLOCK FALSE
INVARIANTS IInv TypeOK AttemptsDistinct ExclusiveUnlessStalled ErrorMatchesStatus
PROPERTIES RequeuedHasJob OnlyHolderSettles ImplementsContract
