SPECIFICATION Spec
CONSTANTS
  Pid = {1, 2, 3}
  Uid = {1, 2}
  Account = {100}
  UidOf <- AppAndRender
  AccountOf <- OneAccount
  Render = {3}
  Important = {}
  ImportantPrio <- LowImportant
  XmlKillable = {}
  KeepAlive = {}
  BmsMayFail = FALSE
  Mortal = {1}
  Starters = {1}
  Reasons = {"FOREGROUND", "BACKGROUND", "VISIBLE", "SUSPEND_DELAY_START", "APPLICATION_SUSPEND"}
  Binds = {}
INVARIANTS
  TypeOK
  StartHasTimer
  PriorityMatchesStatus
  ListMatchesTable
  BundleCoversProcs
  KernelMirrorsTable
