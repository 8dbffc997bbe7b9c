SPECIFICATION FairSpec
CONSTANTS LastVersion = 2
  Reader = {r1}
PROPERTY AskedIsAnswered
CHECK_DEADLOCK FALSE
