SPECIFICATION Spec
CONSTANTS
  Clients = {c1, c2}
  Second = Second
  Goroutines = {g1, g2}
  Txns = {t1, t2}
  None = None
  MaxRequests = 2
SYMMETRY Symmetry
INVARIANTS TypeOK CancelHitsItsOwn NamedTxnIsAtomic
CHECK_DEADLOCK FALSE
