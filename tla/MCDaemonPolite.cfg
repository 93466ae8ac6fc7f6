SPECIFICATION PoliteSpec
CONSTANTS
  Handlers = {p1, p2, p3}
  NoPid = NoPid
  MaxChildren = 3
  PidReuse = TRUE
SYMMETRY HandlerSymmetry
INVARIANTS ExclusiveOwner OwnerFlagged
PROPERTY ImplementsMutex
CHECK_DEADLOCK FALSE
