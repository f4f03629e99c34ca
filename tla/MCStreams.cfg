CONSTANTS
  Runs = {r1}
  Workers = {w1}
  Actions = {a1}
  None = None
  MaxJobs = 3
  MaxAttempts = 2
  MaxStalls = 0
  MaxCrashes = 0
  MaxFaults = 0
  Clients = {c1}
  MaxCuts = 2
SPECIFICATION StreamedSpec
CHECK_DEADLOCK FALSE
INVARIANTS Replayed ToldIsTrue DeliveriesAuthorised
PROPERTIES VerdictDelivered CompletionFollows RunSettles VerdictAnnounced
