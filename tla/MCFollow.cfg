CONSTANTS
  a = a  b = b  c = c  k1 = k1  k2 = k2
  NoNode = NoNode
  Nodes <- Cluster
  Callers <- OneCaller
  Granted <- WithoutAny
  Asks <- Anything
  FollowLeader = TRUE
  LeaderRetries = 3
SPECIFICATION FairSpec
INVARIANT GrantedBlockIsReal
PROPERTIES TxnStaysPut RequestReturns
