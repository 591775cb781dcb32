CONSTANTS
  Scripts <- MCScripts
  Order <- MCOrder
  Builds <- MCBuilds
  MaxRuns = 3
  MaxKills = 1
  MaxPin = 2
SPECIFICATION Spec
INVARIANTS ObjectsOfOneBuild CompilesWhatWasAsked
PROPERTIES MatrixPutsBack
CHECK_DEADLOCK FALSE
