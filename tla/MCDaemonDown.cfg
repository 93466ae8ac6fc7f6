SPECIFICATION Spec
CONSTANTS
  Handlers = {p1, p2}
  NoPid = NoPid
  MaxChildren = 2
  PidReuse = FALSE
INVARIANT ServerSurvives
CHECK_DEADLOCK FALSE
