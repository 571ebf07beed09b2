SPECIFICATION Spec
CONSTANTS
  L1 = L1  L2 = L2  S1 = S1  B1 = B1  B2 = B2
  Free = Free  Malformed = Malformed  NotArray = NotArray  NotString = NotString
  NoConsumer = "none"
  Call = {L1, B1}
  Leaver = {}
  MayFinish = TRUE
  Interval = {1}
  PortFree = {TRUE}
  AlcInput <- GoodAcl
  Second = 3
  HalfRange = 8
  Consumer <- MCConsumer
  BizMethod <- MCBizMethod
  Who <- MCWho
  Meth <- MCMeth
  Pattern <- MCPattern
  Match <- MCMatch
CHECK_DEADLOCK FALSE
INVARIANTS NoPanic
