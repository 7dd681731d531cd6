CONSTANTS
  Kinds = {"submit_turn", "approve", "cancel"}
  Beginnings = {"brief"}
  MaxAttempts = 3
  MaxRequests = 2
  MaxIds = 4
  MaxFaults = 1
  MaxStops = 1
SPECIFICATION FairSpec
PROPERTIES
  EveryCommandAnswered
  EndedIsReleased
CHECK_DEADLOCK FALSE
