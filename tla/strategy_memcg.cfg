SPECIFICATION StrategySpec
CONSTANTS
  a1 = a1
  a2 = a2
  p1 = p1
  p2 = p2
  p3 = p3
  Account = {a1, a2}
  Pid = {p1, p2, p3}
  OwnerOf <- McOwnerOf
  Documents <- McDocuments
  Priorities <- McPriorities
  MemTotal = 4000000
  MaxTasks = 2
  MaxFaults = 1
SYMMETRY Symmetry
INVARIANT MirrorsKernel
INVARIANT ProcsFiled
INVARIANT PriorityApplied
CHECK_DEADLOCK FALSE
