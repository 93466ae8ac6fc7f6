SPECIFICATION Spec
CONSTANTS
  t1 = t1
  c1 = c1
  c2 = c2
  Targets <- OneTarget
  Clients <- TwoClients
  Reset = TRUE
INVARIANT ResetSparesItsSession
