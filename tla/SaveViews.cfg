SPECIFICATION FairSpec
CONSTANT N = 3
INVARIANTS SuccessMeansFresh DependenciesFirst
PROPERTY ReturnsUnlessDeserted
CHECK_DEADLOCK FALSE
