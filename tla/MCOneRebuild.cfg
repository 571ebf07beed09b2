CONSTANTS
  k1 = k1  t1 = t1  t2 = t2
  Client = {c1, c2}
  Key = {k1}
  Tag = {t1}
  TagsOf <- OneTag
  Tries = 2
  Nobody = Nobody
  NoItem = NoItem
  MaxNow = 1  MaxData = 0  MaxCalls = 2  MaxIncs = 0  MaxFaults = 0  MaxLosses = 0  MaxCrashes = 0
SPECIFICATION Spec
INVARIANT OneRebuild
CHECK_DEADLOCK FALSE
