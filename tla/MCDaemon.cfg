SPECIFICATION ResetSpec
CONSTANTS
  Handlers = {p1, p2, p3}
  NoPid = NoPid
  MaxChildren = 2
  PidReuse = FALSE
INVARIANTS TypeOK FlagNamesClaimant
PROPERTIES AbortSparesBystanders LostPeerFreesChild ResetRecovers
CHECK_DEADLOCK FALSE
