SPECIFICATION FairSpec
CONSTANTS
  s1 = s1
  p1 = p1
  u1 = u1
  u2 = u2
  NONE = NONE
  Subs = {s1}
  Apps = {p1}
  Uids = {u1, u2}
  AppCalls <- McAppCalls
  MaxSubs = 1
  MaxApps = 1
  MaxQueue = 1
  MaxInbox = 1
  MaxCrashes = 1
INVARIANT ListedWatched
INVARIANT ListedIsConnected
INVARIANT NobodyWaitsInCircle
PROPERTY SilentAfterUnsubscribe
PROPERTY DeadForgotten
PROPERTY UnsubscribeReturns
CHECK_DEADLOCK FALSE
