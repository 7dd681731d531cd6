SPECIFICATION DocumentSpec
CONSTANTS
  Drafts <- MCDrafts
  Targets <- MCTargets
  Checkpoints <- MCCheckpoints
  Invocations <- MCInvocations
  Reports <- MCReports
  RunRows <- MCRunRows
  Worktrees <- MCWorktrees
  Packet <- MCPacket
  Disputes <- MCDisputes
  Axes <- MCAxes
INVARIANTS
  CyclesAreReported
  PreviewIsThePlan
  UnitsCoverTheDiff
  AcceptedIsStorable
CHECK_DEADLOCK FALSE
