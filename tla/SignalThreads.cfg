SPECIFICATION FairSignalSpec
CONSTANT Waiter = {w1, w2, w3, w4}
CHECK_DEADLOCK FALSE
INVARIANTS LostOnlyInWindow OnePanic
PROPERTY AwaitEnds
