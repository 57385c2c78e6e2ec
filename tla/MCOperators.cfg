\* All operands and caches of module MCOperators.
SPECIFICATION Spec
INVARIANT ClosuresActAsTheirValues
INVARIANT OrderIsTotal
