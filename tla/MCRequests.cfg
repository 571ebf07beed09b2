SPECIFICATION MCSpec
CONSTANTS
  DbCaller = {c1, c2}
  ColumnType <- MCColumnType
  NotNull = {1, 2, 3}
  Fields <- MCFields
  MaxId = 3
  MaxDbFaults = 1
  MaxLines = 2
  MaxBrowsers = 2
  FileName = {1, 2}
  MaxSlice = 2
  Client = {"c1", "c2"}
  MaxWork = 1
  MaxHits = 3
  Visitor = {v1, v2, v3}
  MaxItem = 4
  MaxVisits = 3
  MaxCrudFaults = 1
  t1 = t1
  t2 = t2
  t3 = t3
  Tab = {t1, t2, t3}
  BrowserOf <- MCBrowserOf
  SessionId = {i1, i2}
  Managed <- MCManaged
  MaxCalls = 3
  MaxFaults = 1
  NoId = NoId
SYMMETRY VisitorSymmetry
INVARIANTS TableKept AnswersAreTrue SearchesAgree DrawsThePicture DecodesOrStops
  ReportsAreTrue ItemsKept SessionsKept FailuresExplained
CHECK_DEADLOCK FALSE
