CONSTANTS
  Invocations = {i}
  i = i
  o = o
  Others = {o}
  None = None
  FaultKinds <- AllFaults
  MaxVersion = 1
  MaxFaults = 1
SPECIFICATION FairSpec
INVARIANTS
  TypeOK
  HostReportsChild
  SessionOutlivesChild
  SessionRemoved
PROPERTIES
  SerialManagedState
  ProcessesEnd
  LoadedOrReported
CHECK_DEADLOCK FALSE
