SPECIFICATION Spec
CONSTANTS
  NTHREADS = 2
  MaxDrift = 2
INVARIANTS
  TypeOK
  StackIsUnused
  JoinsItsThread
  CountWithinSlots
CHECK_DEADLOCK FALSE
