\* A stop that overlaps the beginning of run.
CONSTANTS
  MaxForeign = 1
SPECIFICATION FairSpec
PROPERTY StopIsGraceful
CHECK_DEADLOCK FALSE
