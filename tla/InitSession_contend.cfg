CONSTANTS
  Invocations = {i, j}
  i = i
  j = j
  Others = {}
  None = None
  FaultKinds <- AllFaults
  MaxVersion = 1
  MaxFaults = 1
SPECIFICATION Spec
SYMMETRY Swaps
INVARIANTS
  AtMostOneLoad
  LoadsOwnSync
  FreshConfiguration
CHECK_DEADLOCK FALSE
