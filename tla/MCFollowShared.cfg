CONSTANTS
  a = a  b = b  c = c  k1 = k1  k2 = k2
  NoNode = NoNode
  Nodes <- Cluster
  Callers <- TwoCallers
  Granted <- WithoutTxn
  Asks <- Transactions
  FollowLeader = TRUE
  LeaderRetries = 2
SPECIFICATION Spec
SYMMETRY Symmetry
INVARIANTS TypeOK ResultIsTrue
PROPERTY ImplementsOnce
