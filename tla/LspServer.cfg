SPECIFICATION FairSpec
CONSTANTS LastVersion = 3
  Reader = {r1, r2}
INVARIANTS WaitingIsJustified CurrentUnlessOverlapped
PROPERTY GetsCompiled
CHECK_DEADLOCK FALSE
