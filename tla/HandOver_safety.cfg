CONSTANTS
  Host = {h1, h2}
  MaxServers = 3
  MaxRestarts = 1
  MaxTroubles = 2
  MaxManual = 1
  None = None
SPECIFICATION Spec
CHECK_DEADLOCK FALSE
CONSTRAINT OneStarts
INVARIANTS
  TypeOK
  SpawnsAreCalledFor
PROPERTIES
  NewestStays
  OneRemains
  OrphansEnd
