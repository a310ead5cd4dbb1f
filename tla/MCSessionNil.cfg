CONSTANT MaxDepth = 2
SPECIFICATION Spec
INVARIANTS NilAlwaysMeansCommitted
