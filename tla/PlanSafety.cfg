SPECIFICATION Spec
CONSTANTS
  Plans <- LinkedPlan
  MaxStarts = 3
  BoundedLookup = TRUE
  MaxRequests = 2
  MaxInterrupts = 2
INVARIANTS
  CreatedOnce
  NeedsComeFirst
  PublishedIsComplete
  CancelStopsWrites
PROPERTIES
  PublishingEnds
