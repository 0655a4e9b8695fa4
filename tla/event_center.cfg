SPECIFICATION FairSpec
CONSTANTS
  Kinds = {"pressure", "app", "ext", "account", "bgtask"}
  Booted = {"ability", "account", "bgtask"}
  Mortal = {"ability", "account"}
  ACCOUNT_MAX_RETRY_TIMES = 2
  ObituaryFirst = TRUE
  MaxDeaths = 1
  MaxFaults = 1
INVARIANTS
  NoMoreThanAnnounced
  ClearedOutsideRegistration
PROPERTY Observed
CHECK_DEADLOCK FALSE
