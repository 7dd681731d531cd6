CONSTANTS
  Kinds = {"create_session", "submit_turn", "edit_brief", "hand_off", "edit_draft", "regenerate_draft", "approve", "publish", "defer", "resume", "cancel"}
  Beginnings = {"new", "brief", "draft"}
  MaxAttempts = 3
  MaxRequests = 2
  MaxIds = 5
  MaxFaults = 1
  MaxStops = 1
SPECIFICATION Spec
INVARIANTS
  OneRoleAtWork
  ApprovalBindsReviewed
  NoOrphanProcess
PROPERTIES
  ClosedIsFrozen
  ActiveKeepsWorker
CHECK_DEADLOCK FALSE
