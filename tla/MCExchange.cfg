CONSTANTS
  k1 = k1
  k2 = k2
  Callers <- TwoCallers
  MaxCalls = 3
SPECIFICATION FairSpec
INVARIANTS TypeOK OwnReply AlignedAtRest GuardExact
PROPERTIES PoisonIsFinal ExchangeReturns CloseReturnsAlone
CHECK_DEADLOCK FALSE
