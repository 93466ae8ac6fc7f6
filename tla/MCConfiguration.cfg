SPECIFICATION Spec
CONSTANTS
  None = None
  CommandLines <- Lines
  Documents <- Files
INVARIANTS
  DistinctSectionsAreKept
  HostsAreNamed
