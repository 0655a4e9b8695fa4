SPECIFICATION Spec
CONSTANTS
  Pid = {1, 2, 3}
  Uid = {1, 2, 3}
  Account = {100}
  UidOf <- OwnBundle
  AccountOf <- OneAccount
  Render = {}
  Important = {}
  ImportantPrio <- LowImportant
  XmlKillable = {}
  KeepAlive = {1, 2}
  BmsMayFail = FALSE
  Mortal = {}
  Starters = {}
  Reasons = {"FOREGROUND"}
  Binds <- SystemCycleBinds
INVARIANTS
  HandlerNeverHangs
