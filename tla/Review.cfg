SPECIFICATION Spec
CONSTANTS
  MaxUnits = 2
  FanOut = 1
  HostCeilings = {1, 2}
  Budget = 2
  FindingLimit = 1
  Blockers = {b1, b2}
  Reports <- CleanBlockingAsking
  MaxCode = 2
  MaxFaults = 1
INVARIANTS
  ReviewedOnce
  ProjectionsAreAggregates
  UndraftedIsReviewed
  BlockerRepairedOnce
PROPERTIES
  ReviewSettles
CHECK_DEADLOCK FALSE
