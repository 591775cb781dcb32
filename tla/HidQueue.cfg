CONSTANTS
  c1 = c1
  c2 = c2
  Callers <- MCCallers
  MaxVendor = 2
  MaxFido = 2
  MaxSeremu = 1
SPECIFICATION FairSpec
INVARIANTS TicketTruth NoLostWakeup WipeIsComplete
PROPERTIES WaitSettles ActsAsUsbOut
