CONSTANTS
  Definitions <- MCDefinitions
  Offers <- MCOffers
  Denied = {"post"}
  Inputs = {i1, i2}
  Allowed = {"wipe", "post"}
  Unset = Unset
  MaxSteps = 4
  MaxSubSteps = 2
  MaxInvocations = 3
SPECIFICATION FairSpec
CHECK_DEADLOCK FALSE
INVARIANTS TypeOK ActsOnOwnDecision ReaskCreatesNothing OneCallPerAnswer EndsBySupervisor StopsAfterCancel OnlyTransientRetried SearchMatchesRunnable
PROPERTIES ImplementsThread InvocationEnds
