SPECIFICATION Spec
CONSTANTS
  Kinds = {"state_transition", "status_comment", "clarification_comment"}
  TargetStatuses = {"waiting_for_human", "failed"}
  MaxRevision = 3
  MaxCount = 2
  MaxInterrupts = 2
  Errors = {}
INVARIANTS
  ProjectionsFollowRun
  NothingCreatedTwice
  ResultsMatchPacket
PROPERTIES
  
  ReservationResolved
  KeepsPromise
