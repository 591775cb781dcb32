CONSTANTS
  c1 = c1
  c2 = c2
  Callers <- MCCallers
  MaxVendor = 2
  MaxFido = 1
  MaxSeremu = 0
  Depth = 2
  MaxLine = 1
  MaxPresses = 2
SYMMETRY CallerSymmetry
SPECIFICATION DISpec
INVARIANTS PressAfterFrame
