CONSTANTS
  MaxFaults = 2
SPECIFICATION FairSpec
INVARIANTS StoredIsKept WipedStaysWiped
PROPERTIES Reboots
