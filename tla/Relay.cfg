CONSTANTS
  k1 = k1
  k2 = k2
  None = None
  Conns <- MCConns
  MaxCommands = 3
  MaxFaults = 4
  MaxOnWire = 1
SPECIFICATION FairSpec
INVARIANTS CableNeedsFirmware OneFirmware CableAgrees
PROPERTIES CableHeld ComesBack
CHECK_DEADLOCK FALSE
