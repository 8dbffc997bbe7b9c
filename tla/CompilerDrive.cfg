SPECIFICATION FairSpec
CONSTANTS N = 3
  Compilations = 2
INVARIANTS DriveIsComplete OwnErrors LoadsBeforeUnsafe
PROPERTIES AbortedWasStuck DriveReturns
CHECK_DEADLOCK FALSE
