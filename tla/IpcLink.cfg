CONSTANTS
  k1 = k1
  k2 = k2
  None = None
  Conns <- MCConns
  MaxPending = 2
  MaxSaid = 5
SPECIFICATION IpcFairSpec
PROPERTIES HeardInOrder Reattached
