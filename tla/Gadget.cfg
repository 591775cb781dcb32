CONSTANTS
  MaxQueue = 2
  MinTries = 3
  EpDepth = 1
  MaxReports = 5
SPECIFICATION FairSpec
INVARIANTS HostOrder CableIsClean AbsentOnlyIfStalled
PROPERTIES QueueEmpties
