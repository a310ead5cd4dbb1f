CONSTANT MaxDepth = 3
SPECIFICATION Spec
INVARIANTS TypeOK TxnTracking NilMeansCommitted FailureMeansDiscarded NoBlockLeft
