CONSTANTS
  Host = {h1, h2}
  MaxServers = 3
  MaxRestarts = 1
  MaxTroubles = 1
  MaxManual = 0
  None = None
SPECIFICATION Spec
CHECK_DEADLOCK FALSE
INVARIANT WindowKeepsItsServer
