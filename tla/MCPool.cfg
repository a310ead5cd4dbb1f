CONSTANTS
  k1 = k1
  k2 = k2
  k3 = k3
  c1 = c1
  c2 = c2
  c3 = c3
  Callers <- ThreeCallers
  Conns <- ThreeConns
  NoConn = NoConn
  Size = 2
  MaxOpenBlocks = 1
  MaxDepth = 2
  Habits <- NoHabits
SPECIFICATION Spec
INVARIANTS TypeOK OneOwner TokenConservation PoolBound IdleHasNoBlock ClosedPoolIsEmpty NoPoisonedIdle
PROPERTIES ImplementsLease
