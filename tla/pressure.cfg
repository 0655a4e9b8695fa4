CONSTANTS
  Users <- MCUsers
  Lines <- MCLines
  SizeKB <- MCSizeKB
  Config <- MCConfig
  TRIGGER_INTERVAL_SECOND = 2
  MAX_BUFFER_KB = 3
  MaxHeap = 1
  MaxQueue = 1
  MaxFaults = 1
  MaxChanges = 1
SPECIFICATION FairSpec
INVARIANTS
  NoMoreThanNeeded
  LeastImportantFirst
  TrimIsLastResort
PROPERTIES
  PressureAnswered
