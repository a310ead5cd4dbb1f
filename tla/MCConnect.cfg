SPECIFICATION FairSpec
INVARIANTS TypeOK AllOrNothing SecretInside
PROPERTY ConnectReturns
CHECK_DEADLOCK FALSE
