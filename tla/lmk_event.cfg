SPECIFICATION FairSpec
CONSTANTS
  MaxLevels = 2
  Pid = {1, 2}
  Uid = {1, 2}
  Xmls <- McXmls
  Prios = {0, 400}
  Buffers <- McBuffers
  SizeOf <- McSizeOf
  MaxKillCnt = 2
  MaxBirths = 2
INVARIANT LeastImportantFirst
INVARIANT WaitingMeansTried
INVARIANT LevelsMonotone
PROPERTY NobodyPassedOver
