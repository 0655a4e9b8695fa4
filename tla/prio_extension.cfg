SPECIFICATION Spec
CONSTANTS
  Pid = {1, 2, 3}
  Uid = {1, 2}
  Account = {100}
  UidOf <- SharedBundle
  AccountOf <- OneAccount
  Render = {}
  Important = {1}
  ImportantPrio <- LowImportant
  XmlKillable = {}
  KeepAlive = {}
  BmsMayFail = FALSE
  Mortal = {}
  Starters = {}
  Reasons = {"FOREGROUND", "BACKGROUND"}
  Binds <- CycleBinds
INVARIANTS
  ForegroundClientProtects
  HandlerNeverHangs
