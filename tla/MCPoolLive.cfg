CONSTANTS
  k1 = k1
  k2 = k2
  k3 = k3
  c1 = c1
  c2 = c2
  c3 = c3
  Callers <- TwoCallers
  Conns <- TwoConns
  NoConn = NoConn
  Size = 1
  MaxOpenBlocks = 1
  MaxDepth = 2
  Habits <- AllHabits
SPECIFICATION FairSpec
PROPERTIES UseReturns CloseCompletes
