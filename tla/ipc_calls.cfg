CONSTANTS
  Clients <- MCClients
  Bundles = {a, b}
  WINDOW_UID = 2
  CAMERA_UID = 1
  FOUNDATION_UID = 2
  MAX_PARCEL_SIZE = 2
  MAX_WINDOWS = 2
  MAX_BUFFER_KB = 3
  MemTotal = 1
  MaxCrashes = 1
SPECIFICATION Spec
INVARIANTS
  ServedAsAsked
  ListIsTable
  SizeIsReal
