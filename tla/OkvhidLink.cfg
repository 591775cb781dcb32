CONSTANTS
  d1 = d1
  d2 = d2
  s1 = s1
  s2 = s2
  None = None
  Gone = Gone
  Devs <- MCDevs
  Socks <- MCSocks
  First = d1
  Bounds <- MCBounds
  MaxOut = 1
SPECIFICATION FairSpec
INVARIANTS OneCloser
PROPERTIES NameComesFree Reconnects
