SPECIFICATION Spec
CONSTANTS
  Catalog <- WholeCatalog
  Exact = TRUE
INVARIANTS TypeOK BeliefIsTrue ViewIsTrue
