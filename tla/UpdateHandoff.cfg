SPECIFICATION FairSpec
CHECK_DEADLOCK FALSE
CONSTANTS
  Versions = {1, 2, 3}
  First = 2
  Kept = 1
  Confirming = {2, 3}
  Commands = {"c"}
  MaxAttempts = 2
  MaxOpens = 1
  MaxFaults = 1
INVARIANT InstallsAfterExit
INVARIANT OnlyOpenedIsKept
PROPERTY InterruptsNothing
PROPERTY GateIsLifted
