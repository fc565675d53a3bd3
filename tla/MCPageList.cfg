SPECIFICATION Spec
CONSTANT MaxSize = 6
INVARIANTS Canonical QueriesAgree
PROPERTY ImplementsPageMap
