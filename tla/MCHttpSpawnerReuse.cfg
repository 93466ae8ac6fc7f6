SPECIFICATION FairSpec
CONSTANTS
  NTHREADS = 2
  MaxDrift = 100
PROPERTY FreedSlotIsReused
CHECK_DEADLOCK FALSE
