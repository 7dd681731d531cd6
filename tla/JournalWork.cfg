SPECIFICATION Spec
CONSTANTS
  Kinds = {"state_transition", "checkpoint", "push", "commit_status", "pull_request", "worker_launch", "harness_resume", "result_acceptance"}
  TargetStatuses = {}
  MaxRevision = 3
  MaxCount = 2
  MaxInterrupts = 2
  Errors = {"worker_launch", "harness_resume", "result_acceptance"}
INVARIANTS
  CodeFollowsRun
  HarnessActsAsStored
