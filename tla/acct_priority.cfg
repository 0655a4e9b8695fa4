SPECIFICATION Spec
CONSTANTS
  p1 = p1
  p2 = p2
  p3 = p3
  Account = {1, 2, 3}
  Uid = {1, 2}
  Pid = {p1, p2, p3}
  AccountOf <- McAccountOf
  UidOf <- McUidOf
  Levels = {0, 980}
  SystemUids = {2}
  QueryMayFail = TRUE
  MaxRetry = 2
  MaxSwitches = 3
SYMMETRY Symmetry
INVARIANT BundleIsMin
INVARIANT AccountsSettled
CHECK_DEADLOCK FALSE
