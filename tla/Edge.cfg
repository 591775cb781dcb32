SPECIFICATION Spec
CONSTANTS
  Reqs <- MCReqs
  Kinds <- MCKinds
  Offers <- MCOffers
  Ranges <- MCRanges
  MaxLive = 2
  HeldSize = 2
  MaxLinks = 4
  MaxSalts = 2
  MaxBoots = 1
INVARIANTS DebtFollowsChain NoSecondHistory BudgetKept ServedIsLinked FreeOnlyIfLapsed
CHECK_DEADLOCK FALSE
