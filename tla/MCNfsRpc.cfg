SPECIFICATION FairSpec
CONSTANTS
  Length = 3
  Calls = 2
  Components = 2
  Word = 16
  MaxXid = 12
INVARIANTS TypeOK OwnFrame RingInOrder RunsOnce
PROPERTY CallEnds
CHECK_DEADLOCK FALSE
