SPECIFICATION FairWindowSpec
CONSTANTS
  Pid = {1}
  Window = {1, 2}
  Environments <- MCEnvironments
  MaxInfos = 2
  MaxQueue = 3
  MaxStarts = 4
INVARIANTS
  VisibleAgrees
PROPERTY StaleEntryGoes
CHECK_DEADLOCK FALSE
