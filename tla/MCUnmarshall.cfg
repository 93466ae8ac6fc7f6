SPECIFICATION FairSpec
CONSTANTS
  Clients = {"c1", "c2"}
  Targets <- OneTarget
  Datas <- Data
  Numeral <- Binary
  Chunk = 8
  None = None
INVARIANTS TypeOK OutputIsOwn FailuresHaveCauses
PROPERTY EndsUnlessCutShort
CHECK_DEADLOCK FALSE
