CONSTANTS
  t1 = t1
  t2 = t2
  Pipe = Pipe
  Readers <- MCReaders
  Depth = 2
  MaxReads = 2
  MaxReports = 5
SPECIFICATION RingFairSpec
INVARIANTS EveryReportOnce
PROPERTIES ReportsArrive
