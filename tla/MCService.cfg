SPECIFICATION FairSpec
CONSTANTS
  L1 = L1  L2 = L2  S1 = S1  B1 = B1  B2 = B2
  Free = Free  Malformed = Malformed  NotArray = NotArray  NotString = NotString
  NoConsumer = "none"
  Call = {L1, S1, B1, B2}
  Leaver = {S1}
  MayFinish = TRUE
  Interval = {0, 1, 3}
  PortFree = {TRUE, FALSE}
  AlcInput <- AnyAcl
  Second = 3
  HalfRange = 8
  Consumer <- MCConsumer
  BizMethod <- MCBizMethod
  Who <- MCWho
  Meth <- MCMeth
  Pattern <- MCPattern
  Match <- MCMatch
INVARIANTS LockStep AuditedBeforeServed SelfDeadlockNeedsDeparture Conservation PanicNeedsClose
PROPERTIES ImplementsBroadcast FinishStopsOrLocksTwice
CHECK_DEADLOCK FALSE
