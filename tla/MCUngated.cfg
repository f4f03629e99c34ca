CONSTANTS
  Definitions <- MCDefinitions
  Offers <- MCOffers
  Denied = {"post"}
  Inputs = {i1}
  Allowed = {"wipe", "post"}
  Unset = Unset
  MaxSteps = 4
  MaxSubSteps = 2
  MaxInvocations = 1
SPECIFICATION Spec
CHECK_DEADLOCK FALSE
INVARIANTS SensitiveGated
