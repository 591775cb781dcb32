CONSTANTS
  Depth = 3
  MaxLine = 4
  MaxPresses = 7
SPECIFICATION FairSpec
INVARIANTS NoDigitLost LineIsWhole
PROPERTIES PressesArrive
