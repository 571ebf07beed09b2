SPECIFICATION FairSpec
CONSTANTS
  Input <- TwoValues
  ThMax = 1
  Nobody = Nobody
INVARIANTS NoSendOnClosed NoOverheat NothingLost AnswerIsExpected
PROPERTIES EveryValueArrives
CHECK_DEADLOCK FALSE
