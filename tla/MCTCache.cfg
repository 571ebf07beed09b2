CONSTANTS
  k1 = k1  t1 = t1  t2 = t2
  Client = {c1, c2}
  Key = {k1}
  Tag = {t1, t2}
  TagsOf <- TwoTags
  Tries = 2
  Nobody = Nobody
  NoItem = NoItem
  MaxNow = 2  MaxData = 1  MaxCalls = 2  MaxIncs = 1  MaxFaults = 1  MaxLosses = 1  MaxCrashes = 1
SPECIFICATION MCSpec
INVARIANTS StaleNeedsRace TwoHoldersNeedLoss NoLockLeft
PROPERTIES EveryCallReturns
CHECK_DEADLOCK FALSE
