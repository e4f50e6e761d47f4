CONSTANTS
  Plugins = {1, 2, 3}
  Local = {3}
  Operation = Operation
  Output = Output
  Height = 4
  Limits = {0, 2}
  MaxFaults = 1
SPECIFICATION FairSpec
INVARIANTS
  TypeOK
  RowsInPlace
  OwnCheckout
  OutcomeShown
  FailuresTraceable
PROPERTIES
  ReaderSeesPromise
  CommandEnds
CHECK_DEADLOCK FALSE
